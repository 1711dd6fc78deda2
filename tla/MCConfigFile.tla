---------------------------- MODULE MCConfigFile ----------------------------
(* The instances of ConfigFile that TLC checks: the lines files are made   *)
(* of.                                                                     *)
EXTENDS ConfigFile

\* sections, a repeated section, pairs that share a key, spaces everywhere, a
\* second separator and a semicolon inside a value, blank lines
MCLine ==
  { <<"[", "a", "]">>,
    <<" ", "[", " ", "b", " ", "]", " ">>,
    <<"a", "=", "1">>,
    <<" ", "a", " ", "b", " ", ":", " ", "b", " ", "=", "a", " ">>,
    <<"b", "=", "a", ";", "b", "\r">>,
    <<"b", "=", "a", " ", "\r", ";">>,
    <<" ">> }

\* lines that are not part of a well-formed file, and lines longer than Chunk
MCBadLine ==
  { <<"[", "a", "]">>,
    <<"[", "a">>,
    <<"a", "b">>,
    <<"a", "=", "[", "b", "]">>,
    <<"a", "a", "=", "b", "b", "b", " ", "1", "1", "1">>,
    <<"a", "b", "=", "b", "b", " ", " ", "1", "0", "1">>,
    <<"a", "a", "a", "b", "b", "b", " ", "[", " ", "b">>,
    <<";", "a", "a", "b", "a", "a", "b", "a", "a", "b">>,
    <<"#", "a">> }

MCAnyLine == MCLine \cup MCBadLine
MCCommentLine == { <<"[", "a", "]">>, <<";", "b">>, <<"b", "=", "1">> }
MCName == {<<"a">>, <<"b">>}
MCKey == {<<"a">>, <<"b">>}
MCVal == {<<"0">>, <<"-", "1">>}
=============================================================================

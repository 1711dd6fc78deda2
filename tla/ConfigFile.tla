----------------------------- MODULE ConfigFile -----------------------------
(***************************************************************************)
(* Reading a configuration file with TConfig and editing the table it      *)
(* gives.  The file is written line by line as the reader consumes it, so  *)
(* that every prefix of a file is a file; `lines' remembers it and the     *)
(* properties compare what the reader has made of it with what the lines   *)
(* say.                                                                    *)
(***************************************************************************)
EXTENDS TConfig

CONSTANTS
  Line,             \* the lines files are made of, without their newlines
  MaxLines,         \* bound on the length of a file
  Name, Key, Val,   \* what ini_table_create_entry is called with
  MaxEdits          \* bound on the number of calls

ASSUME ConfigFileAssumption ==
  /\ Line \subseteq Seq(Char \ {"\n"})
  /\ Name \subseteq Seq(Char) /\ Key \subseteq Seq(Char) /\ Val \subseteq Seq(Char)
  /\ MaxLines \in Nat /\ MaxEdits \in Nat

VARIABLES
  p,                \* the reader
  rest,             \* characters of the current line still to be read
  lines,            \* the lines of the file so far
  edits             \* calls of ini_table_create_entry so far

vars == <<p, rest, lines, edits>>

Init ==
  /\ p = ParserInit
  /\ rest = <<>>
  /\ lines = <<>>
  /\ edits = 0

\* The file goes on with another line.
AddLine(l) ==
  /\ rest = <<>>
  /\ edits = 0
  /\ ~p.overflow
  /\ Len(lines) < MaxLines
  /\ rest' = l \o <<"\n">>
  /\ lines' = Append(lines, l)
  /\ UNCHANGED <<p, edits>>

\* in->getc
Getc ==
  /\ rest # <<>>
  /\ ~p.overflow
  /\ p' = Consume(p, Head(rest))
  /\ rest' = Tail(rest)
  /\ UNCHANGED <<lines, edits>>

\* The file has ended after the current line; the table is edited.
Edit(name, key, value) ==
  /\ ~Callback
  /\ rest = <<>>
  /\ ~p.overflow
  /\ edits < MaxEdits
  /\ p' = [p EXCEPT !.table = CreateEntry(@, name, key, value)]
  /\ edits' = edits + 1
  /\ UNCHANGED <<rest, lines>>

Next ==
  \/ \E l \in Line : AddLine(l)
  \/ Getc
  \/ \E name \in Name, key \in Key, value \in Val : Edit(name, key, value)

Spec == Init /\ [][Next]_vars

-----------------------------------------------------------------------------
(* What the lines of a file say.                                           *)

Chars(s) == {s[i] : i \in DOMAIN s}

Solid(s) == {i \in DOMAIN s : s[i] # " "}

Trim(s) == IF Solid(s) = {} THEN <<>> ELSE SubSeq(s, Min(Solid(s)), Max(Solid(s)))

Plain(s) == Chars(s) \subseteq Digit \cup Other \cup {" "}

IsBlank(l) == Trim(l) = <<>>
IsComment(l) == Trim(l) # <<>> /\ Head(Trim(l)) \in {";", "#"}
IsHeader(l) ==
  LET t == Trim(l) IN
  Len(t) >= 2 /\ Head(t) = "[" /\ Last(t) = "]" /\ Plain(SubSeq(t, 2, Len(t) - 1))

\* A pair is split at its first separator; the value may hold any other
\* character but brackets.
Separator(l) == SelectInSeq(l, LAMBDA c : c \in {"=", ":"})
KeyPart(l) == SubSeq(l, 1, Separator(l) - 1)
ValuePart(l) == SubSeq(l, Separator(l) + 1, Len(l))
IsPair(l) ==
  /\ Separator(l) # 0
  /\ Plain(KeyPart(l))
  /\ Chars(ValuePart(l)) \cap {"[", "]"} = {}

Split(l) == NewEntry(Trim(KeyPart(l)), Trim(ValuePart(l)))

\* A carriage return counts for nothing wherever it is.
Text(line) ==
  LET text[i \in 0..Len(line)] ==
        IF i = 0 THEN <<>>
        ELSE IF line[i] = "\r" THEN text[i - 1] ELSE Append(text[i - 1], line[i])
  IN  text[Len(line)]

IsPlainLine(l) == IsBlank(l) \/ IsHeader(l) \/ IsPair(l)

\* The lines of a file without comments, which starts with a section.
WellFormed ==
  /\ lines # <<>> => IsHeader(Text(lines[1]))
  /\ \A i \in DOMAIN lines : IsPlainLine(Text(lines[i]))

\* A space in front of a `;' or `#' inside a value; the reader moves it behind.
Shuffled(l) ==
  \E i \in DOMAIN l : i > 1 /\ l[i] \in {";", "#"} /\ l[i - 1] = " " /\ IsPair(l)

Inner(l) == SubSeq(Trim(l), 2, Len(Trim(l)) - 1)

\* What a line adds to a table, and a file to the empty one
Said(table, l) ==
  IF IsHeader(l) THEN Append(table, NewSection(Trim(Inner(l))))
  ELSE IF IsPair(l) THEN AddEntry(table, Len(table), Split(l).key, Split(l).value)
  ELSE table

MeaningOf(file) ==
  LET said[i \in 0..Len(file)] ==
        IF i = 0 THEN <<>> ELSE Said(said[i - 1], Text(file[i]))
  IN  said[Len(file)]
Meaning == MeaningOf(lines)

-----------------------------------------------------------------------------
(* Properties.                                                             *)

TypeOK ==
  /\ p \in Parser
  /\ rest \in Seq(Char)
  /\ lines \in Seq(Line)
  /\ Len(lines) <= MaxLines
  /\ edits \in 0..MaxEdits

LineRead == rest = <<>> /\ edits = 0

\* A file of sections, pairs and blank lines gives exactly the table its lines
\* describe, without an error: keys and values lose the spaces around them and
\* no others, and only the first separator of a line separates.
Unshuffled == ~(\E i \in DOMAIN lines : Shuffled(Text(lines[i])))
MeaningKept ==
  LineRead /\ ~Callback /\ WellFormed /\ Unshuffled => p.table = Meaning /\ p.errors = 0

\* Two spaces with nothing between them that the reader writes or that makes it
\* forget the first; a carriage return and an opening bracket do neither.
SpaceRun(l) ==
  \E i \in DOMAIN l, k \in DOMAIN l :
    /\ i < k /\ l[i] = " " /\ l[k] = " "
    /\ \A j \in DOMAIN l : i < j /\ j < k => l[j] \in {"\r", "["}

Commented(l) == Chars(l) \cap {";", "#"} # {}

Explained == \E i \in DOMAIN lines : Commented(lines[i]) \/ SpaceRun(lines[i])

\* The reader checks the size of its buffer once per character although it may
\* write more than one: only a comment, read by a loop of its own, or a run of
\* spaces in front of a character makes it write past the end.
OverflowExplained == p.overflow => Explained

\* What ini_table_write writes is read back as the same table, as long as names,
\* keys and values hold nothing the syntax gives a meaning to.
Simple(s) == Plain(s) /\ Trim(s) = s
RoundTrip ==
  LET table == p.table
      simple == \A i \in DOMAIN table :
                  Simple(table[i].name) /\ \A k \in DOMAIN table[i].entry :
                     Simple(table[i].entry[k].key) /\ Simple(table[i].entry[k].value)
  IN  rest = <<>> /\ ~Callback /\ simple => Read(Write(table)).table = table

\* ini_table_create_entry makes an entry readable under its section and key, and
\* what was readable under any other section and key stays as it was, whatever
\* the table looks like.
EntriesIndependent ==
  [][\A name \in Name, key \in Key, value \in Val :
       Edit(name, key, value) =>
         \A n \in Name, k \in Key :
            IF n = name /\ k = key
            THEN CheckEntry(p'.table, n, k) /\ GetEntry(p'.table, n, k) = value
            ELSE /\ CheckEntry(p'.table, n, k) <=> CheckEntry(p.table, n, k)
                 /\ CheckEntry(p.table, n, k) =>
                       GetEntry(p'.table, n, k) = GetEntry(p.table, n, k)]_vars

-----------------------------------------------------------------------------
(* The inductive invariant: first of the buffer.                           *)

Whole(l) == l \o <<"\n">>

\* How much of the last line has been read; its newline counts.
Taken == Len(Last(lines)) + 1 - Len(rest)

\* What is still to be read is the end of the last line.
RestOfLine ==
  rest # <<>> => /\ lines # <<>>
                 /\ Taken \in 0..Len(Last(lines))
                 /\ rest = SubSeq(Whole(Last(lines)), Taken + 1, Len(Last(lines)) + 1)

\* While nothing but a key is in the buffer there is no NUL in it, and the value
\* begins behind the only one.
Terminated(q) ==
  /\ q.state = "Key" => \A i \in DOMAIN q.buf : q.buf[i] # NUL
  /\ q.state = "Value" => /\ q.value \in 1..Len(q.buf) + 1
                          /\ \A i \in DOMAIN q.buf : i >= q.value => q.buf[i] # NUL

\* The reader has written no further than its buffer is long, and the one space
\* it may still have to write is the last thing it has read that counts.
Within ==
  /\ ~p.overflow
  /\ ~p.skipping
  /\ Len(p.buf) <= p.size
  /\ p.spaces <= 1
  /\ p.spaces = 1 => /\ rest # <<>>
                     /\ \E i \in 1..Taken :
                          /\ Last(lines)[i] = " "
                          /\ \A j \in i + 1..Taken : Last(lines)[j] \in {"\r", "["}

Buffered ==
  /\ TypeOK
  /\ RestOfLine
  /\ Terminated(p)
  /\ Within \/ Explained

-----------------------------------------------------------------------------
(* The inductive invariant: what the reader knows of a well-formed file.   *)

\* The spaces at the end of s, unless there is nothing else
Pending(s) == IF Solid(s) = {} THEN 0 ELSE Len(s) - Max(Solid(s))

\* Of the part s of a line the reader has written what Trim leaves, behind what
\* was there before; the spaces that have come since are pending.
Holds(q, before, s) == q.buf = before \o Trim(s) /\ q.spaces = Pending(s)

\* Nothing of a line has been read that counts; the first line has a section.
Waits(q, table) ==
  /\ q.state = (IF table = <<>> THEN "Section" ELSE "Key")
  /\ Holds(q, <<>>, <<>>)
  /\ q.table = table

\* n characters of the line l have been read, when the lines before it said table.
InHeader(q, table, l, n) ==
  /\ n < Min(Solid(l)) => Waits(q, table)
  /\ n \in Min(Solid(l))..Max(Solid(l)) - 1 =>
       q.state = "Section" /\ Holds(q, <<>>, SubSeq(l, Min(Solid(l)) + 1, n)) /\ q.table = table
  /\ n >= Max(Solid(l)) => Waits(q, Said(table, l))

InPair(q, table, l, n) ==
  /\ q.table = table
  /\ n < Separator(l) => q.state = "Key" /\ Holds(q, <<>>, SubSeq(l, 1, n))
  /\ n >= Separator(l) =>
       /\ q.state = "Value" /\ q.value = Len(Trim(KeyPart(l))) + 2
       /\ Holds(q, Trim(KeyPart(l)) \o <<NUL>>, SubSeq(l, Separator(l) + 1, n))

InLine(q, table, l, n) ==
  /\ IsHeader(l) => InHeader(q, table, l, n)
  /\ IsPair(l) => InPair(q, table, l, n)
  /\ IsBlank(l) => Waits(q, table)

\* The reader in a file without errors
Sound(q) == ~q.skipping /\ q.errors = 0 /\ q.current = Len(q.table)

Follows ==
  ~Callback /\ edits = 0 /\ WellFormed /\ Unshuffled =>
    /\ Sound(p)
    /\ IF rest = <<>> THEN Waits(p, Meaning)
       ELSE InLine(p, MeaningOf(Front(lines)), Text(Last(lines)),
                   Len(Text(SubSeq(Last(lines), 1, Taken))))

IInv == Buffered /\ Follows

-----------------------------------------------------------------------------
(* What tconfig.h says and the code does not do.                           *)

Sets == SelectSeq(p.calls, LAMBDA c : c[1] = "set")
Pairs == SelectSeq(lines, IsPair)

CommentsAllowed ==
  /\ lines # <<>> => IsHeader(lines[1])
  /\ \A i \in DOMAIN lines : IsComment(lines[i]) \/ IsHeader(lines[i]) \/ IsPair(lines[i])

\* "The supplied set() function is called for each key/value pair read.": each
\* pair of a file of sections, pairs and comments is handed over.
EveryPairSet ==
  LineRead /\ Callback /\ CommentsAllowed =>
    \A i \in DOMAIN Pairs : \E k \in DOMAIN Sets :
      Sets[k] = <<"set", Split(Pairs[i]).key, Split(Pairs[i]).value>>

=============================================================================

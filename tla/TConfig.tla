------------------------------ MODULE TConfig ------------------------------
(***************************************************************************)
(* lib/tconfig.c: the INI reader as a function of one character at a time, *)
(* and the table of sections and entries it fills.                         *)
(*                                                                         *)
(* A string is a sequence of characters.  The parsing buffer `buf' holds   *)
(* the position characters written so far, the rest of it is NUL; `value'  *)
(* is the index of the first character of the value, or 0 for the null     *)
(* pointer.  The table is a sequence of sections, each with the sequence   *)
(* of its entries, and a pointer to a section is its index, or 0.          *)
(***************************************************************************)
EXTENDS Naturals, Sequences, SequencesExt

CONSTANTS
  Chunk,            \* the parsing buffer grows by this much (128)
  Callback          \* ini_read (TRUE) or ini_table_read (FALSE)

ASSUME TConfigAssumption == Chunk \in Nat \ {0, 1} /\ Callback \in BOOLEAN

NUL == "NUL"
Digit == {"0", "1"}           \* the digits and the other characters that
Other == {"a", "b", "-"}      \* occur; none has a meaning for the reader
Char == Digit \cup Other \cup {" ", ";", "#", "\r", "\n", "[", "]", "=", ":"}

-----------------------------------------------------------------------------
(* The table.                                                              *)

NewSection(name) == [name |-> name, entry |-> <<>>]
NewEntry(key, value) == [key |-> key, value |-> value]

\* (wrong on purpose) strcmp taken for equality
EntryFindInverted(section, key) == SelectInSeq(section.entry, LAMBDA e : e.key # key)

\* _ini_section_find and _ini_entry_find: the index of the first match, or 0.
SectionFind(table, name) == SelectInSeq(table, LAMBDA s : s.name = name)
EntryFind(section, key) == SelectInSeq(section.entry, LAMBDA e : e.key = key)

CheckEntry(table, name, key) ==
  LET i == SectionFind(table, name) IN i # 0 /\ EntryFind(table[i], key) # 0

GetEntry(table, name, key) ==
  LET i == SectionFind(table, name) IN table[i].entry[EntryFind(table[i], key)].value

AddEntry(table, i, key, value) ==
  [table EXCEPT ![i].entry = Append(@, NewEntry(key, value))]

\* ini_table_create_entry
CreateEntry(table, name, key, value) ==
  LET i == SectionFind(table, name)
      e == EntryFind(table[i], key)
  IN  IF i = 0 THEN AddEntry(Append(table, NewSection(name)), Len(table) + 1, key, value)
      ELSE IF e = 0 THEN AddEntry(table, i, key, value)
      ELSE [table EXCEPT ![i].entry[e].value = value]

\* (wrong on purpose) the separator is left out
WriteEntryBare(e) == e.key \o <<" ">> \o e.value \o <<"\n">>

\* ini_table_write: a comment is recognised by its `;' alone.
WriteEntry(e) ==
  IF e.key # <<>> /\ Head(e.key) = ";" THEN e.key \o <<"\n">>
  ELSE e.key \o <<" ", "=", " ">> \o e.value \o <<"\n">>

WriteSection(table, i) ==
  (IF i > 1 THEN <<"\n">> ELSE <<>>) \o <<"[">> \o table[i].name \o <<"]", "\n">>
    \o FlattenSeq([k \in DOMAIN table[i].entry |-> WriteEntry(table[i].entry[k])])

Write(table) == FlattenSeq([i \in DOMAIN table |-> WriteSection(table, i)])

-----------------------------------------------------------------------------
(* The reader.  Its locals and what it has produced are one record.        *)

ParserInit ==
  [state |-> "Section", buf |-> <<>>, value |-> 0, spaces |-> 0,
   skipping |-> FALSE,          \* inside the inner loop of a comment
   size |-> Chunk, overflow |-> FALSE,
   table |-> <<>>, current |-> 0,
   calls |-> <<>>,              \* the callbacks made so far
   errors |-> 0]

Parser ==
  [state : {"Section", "Key", "Value", "Comment"}, buf : Seq(Char \cup {NUL}),
   value : Nat, spaces : Nat, skipping : BOOLEAN, size : Nat, overflow : BOOLEAN,
   table : Seq([name : Seq(Char), entry : Seq([key : Seq(Char), value : Seq(Char)])]),
   current : Nat, calls : Seq(Seq({"create", "set"} \cup Seq(Char))), errors : Nat]

Put(p, chars) == [p EXCEPT !.buf = @ \o chars]

\* (wrong on purpose) the key and the value as one string
BufWhole(p) == p.buf

\* The C string that starts at buf[0]
BufString(p) ==
  LET n == SelectInSeq(p.buf, LAMBDA c : c = NUL) IN
  IF n = 0 THEN p.buf ELSE SubSeq(p.buf, 1, n - 1)

ValueString(p) == SubSeq(p.buf, p.value, Len(p.buf))

\* (wrong on purpose) the buffer is never grown
GrowNever(p) == p

\* The check at the head of the loop, made once per round.
Grow(p) == IF Len(p.buf) > p.size - 2 THEN [p EXCEPT !.size = @ + Chunk] ELSE p

\* A write past the end.  (A buffer filled to its last byte has no NUL, but the
\* next round grows it before anything reads it as a string.)
Bounded(p) == [p EXCEPT !.overflow = @ \/ Len(p.buf) > p.size]

SectionCreate(p, name) ==
  IF Callback THEN [p EXCEPT !.calls = Append(@, <<"create", name>>), !.current = 0]
  ELSE [p EXCEPT !.table = Append(@, NewSection(name)), !.current = Len(p.table) + 1]

EntryCreate(p, key, value) ==
  IF Callback THEN [p EXCEPT !.calls = Append(@, <<"set", key, value>>)]
  ELSE [p EXCEPT !.table = AddEntry(@, p.current, key, value)]

\* Entries before any section go to a section without a name.
Sectioned(p) == IF p.current = 0 THEN SectionCreate(p, <<>>) ELSE p

Error(p) == [p EXCEPT !.errors = @ + 1]

\* (wrong on purpose) pending spaces survive the end of a line
ResetKeepsSpaces(p) == [p EXCEPT !.buf = <<>>, !.state = "Key"]

Reset(p) == [p EXCEPT !.buf = <<>>, !.state = "Key", !.spaces = 0]

EndLine(p) ==
  Reset(CASE p.state = "Value" ->
               [EntryCreate(Sectioned(p), BufString(p), ValueString(p)) EXCEPT !.value = 0]
          [] p.state = "Comment" -> EntryCreate(Sectioned(p), BufString(p), <<>>)
          [] p.state = "Section" -> Error(p)
          [] p.state = "Key" -> IF p.buf # <<>> THEN Error(p) ELSE p)

Space(p) ==
  LET started == IF p.state = "Value" THEN Len(p.buf) >= p.value
                 ELSE p.buf # <<>> /\ Head(p.buf) # NUL
  IN  IF started THEN [p EXCEPT !.spaces = @ + 1] ELSE p

Ordinary(p, c) ==
  Bounded(Put([p EXCEPT !.spaces = 0], [i \in 1..p.spaces |-> " "] \o <<c>>))

\* The inner loop of a comment: it ends with the newline, which it drops, and it
\* makes no check of the buffer's size.
Skip(p, c) ==
  IF c = "\n" THEN [p EXCEPT !.skipping = FALSE] ELSE Bounded(Put(p, <<c>>))

\* One round of the reader's loop.
Round(p, c) ==
  CASE c = " " -> Space(p)
    [] c \in {";", "#"} /\ p.state = "Value" -> Bounded(Put(p, <<c>>))
    [] c \in {";", "#"} /\ p.state # "Value" ->
         Bounded(Put([p EXCEPT !.state = "Comment", !.skipping = TRUE], <<c>>))
    [] c = "\r" -> p
    [] c = "\n" -> EndLine(p)
    [] c = "[" -> [p EXCEPT !.state = "Section"]
    [] c = "]" -> Reset(SectionCreate(p, BufString(p)))
    [] c \in {"=", ":"} /\ p.state = "Key" ->
         Bounded(Put([p EXCEPT !.state = "Value", !.value = Len(p.buf) + 2, !.spaces = 0],
                     <<NUL>>))
    [] OTHER -> Ordinary(p, c)

Consume(p, c) == IF p.skipping THEN Skip(p, c) ELSE Round(Grow(p), c)

\* The reader after some more characters, and after a whole file
Feed(p, chars) ==
  LET fed[i \in 0..Len(chars)] == IF i = 0 THEN p ELSE Consume(fed[i - 1], chars[i])
  IN  fed[Len(chars)]

Read(chars) == Feed(ParserInit, chars)
=============================================================================

-------------------------- MODULE ConfigFileProofs --------------------------
(***************************************************************************)
(* Proofs about ConfigFile: the reader's buffer is a string wherever it is *)
(* used as one, only comments and runs of spaces overrun it, and an entry  *)
(* that is created disturbs no other.                                      *)
(***************************************************************************)
EXTENDS ConfigFile, NatLemmas, SequenceTheorems

-----------------------------------------------------------------------------
(* The first match in a sequence.                                          *)

Entry == [key : Seq(Char), value : Seq(Char)]
Section == [name : Seq(Char), entry : Seq(Entry)]
Tables == Seq(Section)

\* The index of the first member of s that is in T, or 0.
First(s, T, i) ==
  /\ i \in 0..Len(s)
  /\ i # 0 => s[i] \in T
  /\ \A j \in 1..Len(s) : (i = 0 \/ j < i) => s[j] \notin T

\* What SelectInSeq gives is the first match.
LEMMA FirstIsUnique ==
  ASSUME NEW s, NEW T, Len(s) \in Nat, NEW i, NEW j, First(s, T, i), First(s, T, j)
  PROVE  i = j
<1>1. i \in 0..Len(s) /\ j \in 0..Len(s)
  BY DEF First
<1>2. CASE i = 0 \/ j = 0
  BY <1>1, <1>2 DEF First
<1>3. CASE i # 0 /\ j # 0 /\ i < j
  BY <1>1, <1>3 DEF First
<1>4. CASE i # 0 /\ j # 0 /\ j < i
  BY <1>1, <1>4 DEF First
<1> QED
  BY <1>1, <1>2, <1>3, <1>4

Matches(s, T) == {i \in 1..Len(s) : s[i] \in T}

LEMMA FirstOfSet ==
  ASSUME NEW s, NEW T, Len(s) \in Nat
  PROVE  First(s, T, IF Matches(s, T) # {} THEN Min(Matches(s, T)) ELSE 0)
<1> DEFINE I == Matches(s, T)
<1> USE DEF Matches
<1>1. CASE I = {}
  BY <1>1 DEF First
<1>2. CASE I # {}
  <2>1. I \in SUBSET Nat
    OBVIOUS
  <2>2. \E m \in I : \A n \in I : m <= n
    BY <2>1, <1>2, LeastNatural
  <2>3. Min(I) \in I /\ \A n \in I : Min(I) <= n
    BY <2>2 DEF Min
  <2> DEFINE m == Min(I)
  <2>4. m \in 1..Len(s) /\ s[m] \in T
    BY <2>3
  <2>5. \A j \in 1..Len(s) : s[j] \in T => m <= j
    BY <2>3
  <2> HIDE DEF m
  <2>6. First(s, T, m)
    BY <2>4, <2>5 DEF First
  <2> QED
    BY <2>6, <1>2 DEF m
<1> QED
  BY <1>1, <1>2

Named(n) == {s \in Section : s.name = n}
Keyed(k) == {e \in Entry : e.key = k}

\* _ini_section_find gives the first section of that name.
LEMMA SectionFound ==
  ASSUME NEW table \in Tables, NEW name
  PROVE  First(table, Named(name), SectionFind(table, name))
<1> DEFINE T == Named(name)
           I == {i \in 1..Len(table) : table[i].name = name}
<1>0. Len(table) \in Nat
        /\ \A i \in 1..Len(table) : table[i] \in Section
  BY DEF Tables
<1>1. I = Matches(table, T)
  BY <1>0 DEF Matches, Named
<1>2. SectionFind(table, name) = IF I # {} THEN Min(I) ELSE 0
  BY DEF SectionFind, SelectInSeq
<1> HIDE DEF T, I
<1>3. First(table, T, SectionFind(table, name))
  BY <1>0, <1>1, <1>2, FirstOfSet
<1> QED
  BY <1>3 DEF T

\* _ini_entry_find gives the first entry of that key.
LEMMA EntryFound ==
  ASSUME NEW section \in Section, NEW key
  PROVE  First(section.entry, Keyed(key), EntryFind(section, key))
<1> DEFINE T == Keyed(key)
           s == section.entry
           I == {i \in 1..Len(s) : s[i].key = key}
<1>0. Len(s) \in Nat /\ \A i \in 1..Len(s) : s[i] \in Entry
  <2>1. section.entry \in Seq(Entry)
    BY DEF Section
  <2> QED
    BY <2>1
<1>1. I = Matches(s, T)
  BY <1>0 DEF Matches, Keyed
<1>2. EntryFind(section, key) = IF I # {} THEN Min(I) ELSE 0
  BY DEF EntryFind, SelectInSeq
<1> HIDE DEF T, I, s
<1>3. First(s, T, EntryFind(section, key))
  BY <1>0, <1>1, <1>2, FirstOfSet
<1> QED
  BY <1>3 DEF T, s

\* A match is where it was when the members in front of it match as before.
LEMMA FirstKept ==
  ASSUME NEW s, NEW t, NEW T, NEW i, First(s, T, i),
         Len(s) \in Nat, Len(t) \in Nat, Len(s) <= Len(t),
         \A j \in 1..Len(s) : s[j] \in T <=> t[j] \in T,
         \A j \in Len(s) + 1..Len(t) : t[j] \notin T
  PROVE  First(t, T, i)
<1>1. i \in 0..Len(t) /\ (i # 0 => t[i] \in T)
  BY DEF First
<1>2. ASSUME NEW j \in 1..Len(t), i = 0 \/ j < i
      PROVE  t[j] \notin T
  <2>1. CASE j <= Len(s)
    BY <1>2, <2>1 DEF First
  <2>2. CASE j > Len(s)
    BY <2>2
  <2> QED
    BY <2>1, <2>2
<1> QED
  BY <1>1, <1>2 DEF First

LEMMA FirstAdded ==
  ASSUME NEW s, NEW t, NEW T, First(s, T, 0),
         Len(s) \in Nat, Len(t) = Len(s) + 1, t[Len(s) + 1] \in T,
         \A j \in 1..Len(s) : s[j] \in T <=> t[j] \in T
  PROVE  First(t, T, Len(s) + 1)
<1>1. \A j \in 1..Len(s) : t[j] \notin T
  BY DEF First
<1> QED
  BY <1>1 DEF First

-----------------------------------------------------------------------------
(* What ini_table_create_entry does to a section and to a table.           *)

Readable(a, k) == EntryFind(a, k) # 0
ReadAs(a, k) == a.entry[EntryFind(a, k)].value

\* Section b is section a with the value under the key.
Written(a, b, key, value) ==
  /\ Readable(b, key)
  /\ ReadAs(b, key) = value
  /\ \A k : k # key => (Readable(b, k) <=> Readable(a, k))
  /\ \A k : k # key => (Readable(a, k) => ReadAs(b, k) = ReadAs(a, k))

LEMMA EntryAppended ==
  ASSUME NEW a \in Section, NEW b \in Section, NEW key \in Seq(Char), NEW value \in Seq(Char),
         EntryFind(a, key) = 0, b.entry = Append(a.entry, NewEntry(key, value))
  PROVE  Written(a, b, key, value)
<1> DEFINE s == a.entry
           t == b.entry
           new == NewEntry(key, value)
<1>1. s \in Seq(Entry) /\ new \in Entry /\ t = Append(s, new)
  BY DEF Section, NewEntry
<1>2. First(s, Keyed(key), 0) /\ First(t, Keyed(key), EntryFind(b, key))
  BY EntryFound
<1>3. \A k : First(s, Keyed(k), EntryFind(a, k)) /\ First(t, Keyed(k), EntryFind(b, k))
  BY EntryFound
<1>4. new.key = key /\ new.value = value
  BY DEF NewEntry
<1> HIDE DEF s, t, new
<1>5. /\ Len(s) \in Nat /\ Len(t) = Len(s) + 1 /\ t[Len(s) + 1] = new
      /\ \A j \in 1..Len(s) : t[j] = s[j]
  BY <1>1
<1>6. EntryFind(b, key) = Len(s) + 1
  <2>1. t[Len(s) + 1] \in Keyed(key)
    BY <1>1, <1>4, <1>5 DEF Keyed
  <2>2. First(t, Keyed(key), Len(s) + 1)
    BY <2>1, <1>2, <1>5, FirstAdded
  <2> QED
    BY <2>2, <1>2, <1>5, FirstIsUnique
<1>7. ASSUME NEW k, k # key
      PROVE  EntryFind(b, k) = EntryFind(a, k)
  <2>1. t[Len(s) + 1] \notin Keyed(k)
    BY <1>4, <1>5, <1>7 DEF Keyed
  <2>2. \A j \in Len(s) + 1..Len(t) : t[j] \notin Keyed(k)
    BY <2>1, <1>5
  <2>3. First(t, Keyed(k), EntryFind(a, k))
    BY <2>2, <1>3, <1>5, FirstKept
  <2> QED
    BY <2>3, <1>3, <1>5, FirstIsUnique
<1>8. \A k : EntryFind(a, k) \in 0..Len(s)
  BY <1>3 DEF First
<1>9. Readable(b, key) /\ ReadAs(b, key) = value
  BY <1>4, <1>5, <1>6 DEF Readable, ReadAs, t
<1>10. ASSUME NEW k, k # key
       PROVE  /\ Readable(b, k) <=> Readable(a, k)
              /\ Readable(a, k) => ReadAs(b, k) = ReadAs(a, k)
  BY <1>5, <1>7, <1>8, <1>10 DEF Readable, ReadAs, s, t
<1> QED
  BY <1>9, <1>10 DEF Written

LEMMA EntryReplaced ==
  ASSUME NEW a \in Section, NEW b \in Section, NEW key \in Seq(Char), NEW value \in Seq(Char),
         NEW e, e = EntryFind(a, key), e # 0, b.entry = [a.entry EXCEPT ![e].value = value]
  PROVE  Written(a, b, key, value)
<1> DEFINE s == a.entry
           t == b.entry
<1>1. s \in Seq(Entry) /\ t \in Seq(Entry) /\ t = [s EXCEPT ![e].value = value]
  BY DEF Section
<1>2. \A k : First(s, Keyed(k), EntryFind(a, k)) /\ First(t, Keyed(k), EntryFind(b, k))
  BY EntryFound
<1> HIDE DEF s, t
<1>3. e \in 1..Len(s) /\ s[e].key = key
  BY <1>2 DEF First, Keyed
<1>4. Len(s) \in Nat /\ \A j \in 1..Len(s) : s[j] \in Entry
  BY <1>1
<1>5. /\ Len(t) = Len(s) /\ t[e] = [s[e] EXCEPT !.value = value]
      /\ \A j \in 1..Len(s) : j # e => t[j] = s[j]
  <2> DEFINE x == [s[e] EXCEPT !.value = value]
  <2>1. x \in Entry
    BY <1>3, <1>4 DEF Entry
  <2>2. t = [s EXCEPT ![e] = x]
    BY <1>1
  <2> HIDE DEF x
  <2>3. Len(t) = Len(s) /\ t[e] = x /\ \A j \in 1..Len(s) : j # e => t[j] = s[j]
    BY <2>1, <2>2, <1>1, <1>3
  <2> QED
    BY <2>3 DEF x
<1>6. t[e] = [key |-> key, value |-> value]
  BY <1>3, <1>4, <1>5 DEF Entry
<1>7. ASSUME NEW k
      PROVE  EntryFind(b, k) = EntryFind(a, k)
  <2>1. s[e] \in Keyed(k) <=> t[e] \in Keyed(k)
    BY <1>3, <1>4, <1>6 DEF Keyed, Entry
  <2>2. \A j \in 1..Len(s) : s[j] \in Keyed(k) <=> t[j] \in Keyed(k)
    BY <2>1, <1>5
  <2>3. First(t, Keyed(k), EntryFind(a, k))
    BY <2>2, <1>2, <1>4, <1>5, FirstKept
  <2> QED
    BY <2>3, <1>2, <1>4, <1>5, FirstIsUnique
<1>8. Readable(b, key) /\ ReadAs(b, key) = value
  BY <1>6, <1>7 DEF Readable, ReadAs, t
<1>9. ASSUME NEW k, k # key
      PROVE  /\ Readable(b, k) <=> Readable(a, k)
             /\ Readable(a, k) => ReadAs(b, k) = ReadAs(a, k)
  <2>1. EntryFind(a, k) # 0 => EntryFind(a, k) \in 1..Len(s) /\ s[EntryFind(a, k)].key = k
    BY <1>2, <1>4 DEF First, Keyed
  <2> QED
    BY <2>1, <1>3, <1>5, <1>7, <1>9 DEF Readable, ReadAs, s, t
<1> QED
  BY <1>8, <1>9 DEF Written

\* Table u is table t with the value under the name and the key.
Replaced(t, u, name, key, value) ==
  LET i == SectionFind(u, name) IN
  /\ i # 0
  /\ SectionFind(t, name) # 0 => SectionFind(t, name) = i /\ Written(t[i], u[i], key, value)
  /\ SectionFind(t, name) = 0 => Written(NewSection(name), u[i], key, value)
  /\ \A n : n # name => SectionFind(u, n) = SectionFind(t, n)
  /\ \A n : n # name => (SectionFind(t, n) # 0 => u[SectionFind(t, n)] = t[SectionFind(t, n)])

LEMMA NewSectionEmpty ==
  ASSUME NEW name \in Seq(Char)
  PROVE  NewSection(name) \in Section /\ \A k : EntryFind(NewSection(name), k) = 0
<1>1. NewSection(name) \in Section /\ NewSection(name).entry = <<>>
  BY DEF NewSection, Section
<1>2. ASSUME NEW k PROVE EntryFind(NewSection(name), k) = 0
  BY <1>1, EntryFound DEF First
<1> QED
  BY <1>1, <1>2

\* Table u is table t with another section in place i.
SameBut(t, u, i) ==
  /\ u \in Tables /\ Len(u) = Len(t) /\ u[i] \in Section
  /\ \A j \in 1..Len(t) : j # i => u[j] = t[j]

\* The section in place i has another entry.
Grown(t, u, i, new) ==
  /\ SameBut(t, u, i)
  /\ u[i].name = t[i].name
  /\ u[i].entry = Append(t[i].entry, new)

\* _ini_entry_create, which appends to a section.
LEMMA AddEntryAppends ==
  ASSUME NEW t \in Tables, NEW i \in 1..Len(t),
         NEW key \in Seq(Char), NEW value \in Seq(Char),
         NEW u, u = AddEntry(t, i, key, value)
  PROVE  Grown(t, u, i, NewEntry(key, value))
<1> DEFINE new == NewEntry(key, value)
           x == [t[i] EXCEPT !.entry = Append(t[i].entry, new)]
<1>1. new \in Entry
  BY DEF NewEntry, Entry
<1>2. u = [t EXCEPT ![i] = x]
  BY DEF AddEntry
<1> HIDE DEF new
<1>3. Len(t) \in Nat /\ t[i] \in Section
  BY DEF Tables
<1>4. t[i].entry \in Seq(Entry)
  BY <1>3 DEF Section
<1>5. Append(t[i].entry, new) \in Seq(Entry)
  BY <1>1, <1>4
<1>6. /\ x \in Section /\ x.name = t[i].name
      /\ x.entry = Append(t[i].entry, new)
  BY <1>3, <1>5 DEF Section
<1> HIDE DEF x
<1>7. SameBut(t, u, i) /\ u[i] = x
  BY <1>2, <1>6 DEF SameBut, Tables
<1> QED
  BY <1>6, <1>7 DEF new, Grown

\* Table u is table t with a section behind the others.
Extended(t, u, new) ==
  /\ u \in Tables /\ Len(t) \in Nat /\ Len(u) = Len(t) + 1
  /\ u[Len(t) + 1] = new
  /\ \A j \in 1..Len(t) : u[j] = t[j]

LEMMA SectionAppended ==
  ASSUME NEW t \in Tables, NEW name \in Seq(Char),
         NEW u, u = Append(t, NewSection(name))
  PROVE  Extended(t, u, NewSection(name))
<1>1. NewSection(name) \in Section
  BY NewSectionEmpty
<1> QED
  BY <1>1 DEF Extended, Tables

\* A section that keeps its name keeps its place, and so do all others.
LEMMA SectionsInPlace ==
  ASSUME NEW t \in Tables, NEW u \in Tables, NEW i \in 1..Len(t),
         u[i].name = t[i].name, SameBut(t, u, i)
  PROVE  \A n : SectionFind(u, n) = SectionFind(t, n)
<1>1. \A j \in 1..Len(t) : u[j].name = t[j].name
  BY DEF SameBut
<1>2. /\ Len(t) \in Nat
      /\ Len(u) = Len(t)
      /\ \A j \in 1..Len(t) : t[j] \in Section /\ u[j] \in Section
  BY DEF SameBut, Tables
<1>3. ASSUME NEW n PROVE SectionFind(u, n) = SectionFind(t, n)
  <2>1. \A j \in 1..Len(t) : t[j] \in Named(n) <=> u[j] \in Named(n)
    BY <1>1, <1>2 DEF Named
  <2>2. First(t, Named(n), SectionFind(t, n)) /\ First(u, Named(n), SectionFind(u, n))
    BY SectionFound
  <2>3. First(u, Named(n), SectionFind(t, n))
    BY <2>1, <2>2, <1>2, FirstKept
  <2> QED
    BY <2>2, <2>3, <1>2, FirstIsUnique
<1> QED
  BY <1>3

\* ini_table_create_entry replaces what is under its name and key and nothing else.
LEMMA CreateEntryReplaces ==
  ASSUME NEW t \in Tables, NEW name \in Seq(Char),
         NEW key \in Seq(Char), NEW value \in Seq(Char),
         NEW u, u = CreateEntry(t, name, key, value)
  PROVE  u \in Tables /\ Replaced(t, u, name, key, value)
<1> DEFINE i == SectionFind(t, name)
           e == EntryFind(t[i], key)
<1>0. /\ Len(t) \in Nat
      /\ \A j \in 1..Len(t) : t[j] \in Section
  BY DEF Tables
<1>1. \A n : First(t, Named(n), SectionFind(t, n))
  BY SectionFound
<1>2. \A n : SectionFind(t, n) \in 0..Len(t)
             /\ (SectionFind(t, n) # 0 => t[SectionFind(t, n)].name = n)
  BY <1>1 DEF First, Named
<1>3. CASE i = 0
  <2> DEFINE w == Append(t, NewSection(name))
             l == Len(t) + 1
  <2>1. u = AddEntry(w, l, key, value)
    BY <1>3 DEF CreateEntry
  <2>0. w = Append(t, NewSection(name)) /\ l = Len(t) + 1
    OBVIOUS
  <2> HIDE DEF w, l
  <2>2. /\ w \in Tables /\ Len(w) = l /\ w[l] = NewSection(name)
        /\ \A j \in 1..Len(t) : w[j] = t[j]
    <3>1. Extended(t, w, NewSection(name))
      BY <2>0, SectionAppended
    <3> QED
      BY <3>1, <2>0 DEF Extended
  <2>3. l \in 1..Len(w)
    BY <2>0, <2>2, <1>0
  <2>4a. /\ SameBut(w, u, l) /\ u[l].name = w[l].name
         /\ u[l].entry = Append(w[l].entry, NewEntry(key, value))
    <3>1. Grown(w, u, l, NewEntry(key, value))
      BY <2>1, <2>2, <2>3, AddEntryAppends
    <3> QED
      BY <3>1 DEF Grown
  <2>4. /\ u \in Tables /\ Len(u) = Len(w)
        /\ u[l] \in Section /\ u[l].name = w[l].name
        /\ u[l].entry = Append(w[l].entry, NewEntry(key, value))
        /\ \A j \in 1..Len(w) : j # l => u[j] = w[j]
    BY <2>4a DEF SameBut
  <2>5. \A j \in 1..Len(t) : u[j] = t[j]
    BY <2>2, <2>4, <2>0, <1>0
  <2>6. u[l].name = name
    BY <2>2, <2>4 DEF NewSection
  <2>7. \A n : First(u, Named(n), SectionFind(u, n))
    BY <2>4, SectionFound
  <2>8. SectionFind(u, name) = l
    <3>1. u[l] \in Named(name) /\ First(t, Named(name), 0)
      BY <2>4, <2>6, <1>1, <1>3 DEF Named
    <3>2. First(u, Named(name), l)
      BY <3>1, <2>2, <2>4, <2>5, <2>0, <1>0, FirstAdded
    <3> QED
      BY <3>2, <2>2, <2>4, <2>7, <2>0, <1>0, FirstIsUnique
  <2>9. ASSUME NEW n, n # name
        PROVE  SectionFind(u, n) = SectionFind(t, n)
    <3>1. u[l] \notin Named(n)
      BY <2>6, <2>9 DEF Named
    <3>2. \A j \in Len(t) + 1..Len(u) : u[j] \notin Named(n)
      BY <3>1, <2>2, <2>4, <2>0, <1>0
    <3>3. \A j \in 1..Len(t) : t[j] \in Named(n) <=> u[j] \in Named(n)
      BY <2>5
    <3>4. Len(u) \in Nat /\ Len(t) <= Len(u)
      BY <2>0, <2>2, <2>4, <1>0
    <3>5. First(u, Named(n), SectionFind(t, n))
      BY <3>2, <3>3, <3>4, <1>0, <1>1, FirstKept
    <3> QED
      BY <3>4, <3>5, <2>7, FirstIsUnique
  <2>10. Written(NewSection(name), u[l], key, value)
    BY <2>2, <2>4, NewSectionEmpty, EntryAppended
  <2>11. l # 0
    BY <2>0, <1>0
  <2>12. \A n : n # name => (SectionFind(t, n) # 0 => u[SectionFind(t, n)] = t[SectionFind(t, n)])
    BY <2>5, <2>0, <1>0, <1>2
  <2> QED
    BY <2>4, <2>8, <2>9, <2>10, <2>11, <2>12, <1>3 DEF Replaced
<1>4. ASSUME i # 0, SameBut(t, u, i), u[i].name = t[i].name,
             Written(t[i], u[i], key, value)
      PROVE  Replaced(t, u, name, key, value)
  <2>1. i \in 1..Len(t)
    BY <1>0, <1>2, <1>4
  <2>2. \A n : SectionFind(u, n) = SectionFind(t, n)
    BY <2>1, <1>4, SectionsInPlace DEF SameBut
  <2>3. ASSUME NEW n, n # name, SectionFind(t, n) # 0
        PROVE  u[SectionFind(t, n)] = t[SectionFind(t, n)]
    <3>1. /\ SectionFind(t, n) \in 1..Len(t) /\ t[SectionFind(t, n)].name = n
          /\ t[i].name = name
      BY <1>0, <1>2, <1>4, <2>3
    <3> HIDE DEF i
    <3> QED
      BY <3>1, <2>3, <1>4 DEF SameBut
  <2> QED
    BY <2>2, <2>3, <1>4 DEF Replaced
<1>5. CASE i # 0 /\ e = 0
  <2>1. i \in 1..Len(t)
    BY <1>0, <1>2, <1>5
  <2>0. u = AddEntry(t, i, key, value)
    BY <1>5 DEF CreateEntry
  <2> HIDE DEF i, e
  <2>2. /\ SameBut(t, u, i) /\ u[i].name = t[i].name
        /\ u[i].entry = Append(t[i].entry, NewEntry(key, value))
    <3>1. ASSUME NEW j \in 1..Len(t), u = AddEntry(t, j, key, value)
          PROVE  Grown(t, u, j, NewEntry(key, value))
      BY <3>1, AddEntryAppends, Zenon
    <3> QED
      BY <3>1, <2>0, <2>1 DEF Grown
  <2>3. Written(t[i], u[i], key, value)
    BY <2>1, <2>2, <1>0, <1>5, EntryAppended DEF SameBut, e
  <2> QED
    BY <2>2, <2>3, <1>4, <1>5 DEF SameBut
<1>6. CASE i # 0 /\ e # 0
  <2> DEFINE s == t[i].entry
             y == [s EXCEPT ![e].value = value]
             x == [t[i] EXCEPT !.entry = y]
  <2>1. u = [t EXCEPT ![i].entry[e].value = value] /\ i \in 1..Len(t)
    BY <1>0, <1>2, <1>6 DEF CreateEntry
  <2>2. u = [t EXCEPT ![i] = x]
    BY <2>1
  <2>3. t[i] \in Section
    BY <2>1, <1>0
  <2>4. First(s, Keyed(key), e)
    BY <2>3, EntryFound
  <2> HIDE DEF i, e, s
  <2>5. s \in Seq(Entry) /\ e \in 1..Len(s)
    BY <2>3, <2>4, <1>6 DEF Section, First, s
  <2> HIDE DEF y
  <2>6. y \in Seq(Entry)
    <3> DEFINE z == [s[e] EXCEPT !.value = value]
    <3>1. s[e] \in Entry
      BY <2>5
    <3>2. z \in Entry /\ y = [s EXCEPT ![e] = z]
      BY <3>1 DEF y, Entry
    <3> HIDE DEF z
    <3> QED
      BY <3>2, <2>5
  <2>7. x \in Section /\ x.name = t[i].name /\ x.entry = y
    BY <2>3, <2>6 DEF Section
  <2> HIDE DEF x
  <2>8. SameBut(t, u, i) /\ u[i] = x
    <3>1. ASSUME NEW j \in 1..Len(t), NEW r \in Section, u = [t EXCEPT ![j] = r]
          PROVE  SameBut(t, u, j) /\ u[j] = r
      BY <3>1 DEF SameBut, Tables
    <3> QED
      BY <3>1, <2>1, <2>2, <2>7
  <2>9. Written(t[i], u[i], key, value)
    BY <2>3, <2>7, <2>8, <1>6, EntryReplaced DEF e, y, s
  <2> QED
    BY <2>7, <2>8, <2>9, <1>4, <1>6 DEF SameBut
<1> QED
  BY <1>3, <1>4, <1>5, <1>6

\* What can be read after ini_table_create_entry.
LEMMA EntryCreated ==
  ASSUME NEW t \in Tables, NEW name \in Seq(Char),
         NEW key \in Seq(Char), NEW value \in Seq(Char), NEW n, NEW k,
         NEW u, u = CreateEntry(t, name, key, value)
  PROVE  IF n = name /\ k = key
         THEN CheckEntry(u, n, k) /\ GetEntry(u, n, k) = value
         ELSE /\ CheckEntry(u, n, k) <=> CheckEntry(t, n, k)
              /\ CheckEntry(t, n, k) => GetEntry(u, n, k) = GetEntry(t, n, k)
<1>1. Replaced(t, u, name, key, value)
  BY CreateEntryReplaces
<1>2. /\ CheckEntry(u, n, k) <=> SectionFind(u, n) # 0 /\ Readable(u[SectionFind(u, n)], k)
      /\ CheckEntry(t, n, k) <=> SectionFind(t, n) # 0 /\ Readable(t[SectionFind(t, n)], k)
      /\ GetEntry(u, n, k) = ReadAs(u[SectionFind(u, n)], k)
      /\ GetEntry(t, n, k) = ReadAs(t[SectionFind(t, n)], k)
  BY DEF CheckEntry, GetEntry, Readable, ReadAs
<1>3. CASE n # name
  BY <1>1, <1>2, <1>3 DEF Replaced
<1>4. CASE n = name /\ SectionFind(t, n) = 0
  <2>1. ~Readable(NewSection(name), k)
    BY NewSectionEmpty DEF Readable
  <2> QED
    BY <2>1, <1>1, <1>2, <1>4 DEF Replaced, Written
<1>5. CASE n = name /\ SectionFind(t, n) # 0
  BY <1>1, <1>2, <1>5 DEF Replaced, Written
<1> QED
  BY <1>3, <1>4, <1>5

-----------------------------------------------------------------------------
(* The strings in the buffer.                                              *)

LEMMA PartOfBuffer ==
  ASSUME NEW s \in Seq(Char \cup {NUL}), NEW m \in 1..Len(s) + 1, NEW n \in 0..Len(s),
         \A i \in m..n : s[i] # NUL
  PROVE  SubSeq(s, m, n) \in Seq(Char)
<1>1. \A i \in m..n : s[i] \in Char
  OBVIOUS
<1>2. CASE m <= n
  <2>1. /\ Len(SubSeq(s, m, n)) = n - m + 1
        /\ \A i \in 1..n - m + 1 : SubSeq(s, m, n)[i] = s[i + m - 1]
    BY <1>2
  <2> QED
    BY <1>1, <1>2, <2>1
<1>3. CASE m > n
  BY <1>3
<1> QED
  BY <1>2, <1>3

LEMMA BufStringType ==
  ASSUME NEW q \in Parser
  PROVE  BufString(q) \in Seq(Char)
<1> DEFINE s == q.buf
           n == SelectInSeq(s, LAMBDA c : c = NUL)
           I == {i \in 1..Len(s) : s[i] = NUL}
<1>1. s \in Seq(Char \cup {NUL}) /\ Len(s) \in Nat
  BY DEF Parser
<1>2. I = Matches(s, {NUL})
  BY DEF Matches
<1>3. n = IF I # {} THEN Min(I) ELSE 0
  BY DEF SelectInSeq
<1> HIDE DEF I
<1>4. First(s, {NUL}, n)
  BY <1>1, <1>2, <1>3, FirstOfSet
<1>5. BufString(q) = IF n = 0 THEN s ELSE SubSeq(s, 1, n - 1)
  BY DEF BufString
<1> HIDE DEF s, n
<1>6. CASE n = 0
  <2>1. \A i \in 1..Len(s) : s[i] # NUL
    BY <1>4, <1>6 DEF First
  <2> QED
    BY <2>1, <1>1, <1>5, <1>6
<1>7. CASE n # 0
  <2>1. n \in 1..Len(s) /\ n - 1 \in 0..Len(s) /\ 1 \in 1..Len(s) + 1
    BY <1>1, <1>4, <1>7 DEF First
  <2>2. \A i \in 1..n - 1 : s[i] # NUL
    BY <1>4, <2>1 DEF First
  <2>3. SubSeq(s, 1, n - 1) \in Seq(Char)
    BY <1>1, <2>1, <2>2, PartOfBuffer
  <2> QED
    BY <2>3, <1>5, <1>7
<1> QED
  BY <1>6, <1>7

LEMMA ValueStringType ==
  ASSUME NEW q \in Parser, Terminated(q), q.state = "Value"
  PROVE  ValueString(q) \in Seq(Char)
<1> DEFINE s == q.buf
<1>1. s \in Seq(Char \cup {NUL}) /\ Len(s) \in Nat
  BY DEF Parser
<1>2. q.value \in 1..Len(s) + 1 /\ \A i \in q.value..Len(s) : s[i] # NUL
  BY <1>1 DEF Terminated
<1>3. SubSeq(s, q.value, Len(s)) \in Seq(Char)
  BY <1>1, <1>2, PartOfBuffer
<1> QED
  BY <1>3 DEF ValueString

-----------------------------------------------------------------------------
(* One character.                                                          *)

\* The parts of the reader that say where it is are the same.
SamePlace(q, r) ==
  /\ r.state = q.state /\ r.buf = q.buf /\ r.value = q.value /\ r.spaces = q.spaces
  /\ r.skipping = q.skipping /\ r.size = q.size /\ r.overflow = q.overflow

LEMMA ParserFields ==
  ASSUME NEW q \in Parser
  PROVE  /\ q.state \in {"Section", "Key", "Value", "Comment"}
         /\ q.buf \in Seq(Char \cup {NUL})
         /\ Len(q.buf) \in Nat
         /\ q.value \in Nat
         /\ q.spaces \in Nat
         /\ q.skipping \in BOOLEAN
         /\ q.size \in Nat
         /\ q.overflow \in BOOLEAN
         /\ q.table \in Tables
         /\ q.current \in Nat
         /\ q.calls \in Seq(Seq({"create", "set"} \cup Seq(Char)))
         /\ q.errors \in Nat
BY DEF Parser, Tables, Section, Entry

LEMMA AddEntryType ==
  ASSUME NEW t \in Tables, NEW i \in Nat, NEW key \in Seq(Char), NEW value \in Seq(Char)
  PROVE  AddEntry(t, i, key, value) \in Tables
<1>1. CASE i \in 1..Len(t)
  <2>1. Grown(t, AddEntry(t, i, key, value), i, NewEntry(key, value))
    BY <1>1, AddEntryAppends
  <2> QED
    BY <2>1 DEF Grown, SameBut
<1>2. CASE i \notin 1..Len(t)
  <2>1. DOMAIN t = 1..Len(t)
    BY DEF Tables
  <2>2. AddEntry(t, i, key, value) = t
    BY <1>2, <2>1 DEF AddEntry, Tables
  <2> QED
    BY <2>2
<1> QED
  BY <1>1, <1>2

LEMMA SectionCreateType ==
  ASSUME NEW q \in Parser, NEW name \in Seq(Char)
  PROVE  SectionCreate(q, name) \in Parser /\ SamePlace(q, SectionCreate(q, name))
<1>1. CASE Callback
  <2> DEFINE calls == Append(q.calls, <<"create", name>>)
  <2>1. <<"create", name>> \in Seq({"create", "set"} \cup Seq(Char))
    OBVIOUS
  <2>2. calls \in Seq(Seq({"create", "set"} \cup Seq(Char)))
    BY <2>1, ParserFields
  <2>3. SectionCreate(q, name) = [q EXCEPT !.calls = calls, !.current = 0]
    BY <1>1 DEF SectionCreate
  <2> HIDE DEF calls
  <2>4. SamePlace(q, [q EXCEPT !.calls = calls, !.current = 0])
    BY DEF Parser, SamePlace
  <2>5. [q EXCEPT !.calls = calls, !.current = 0] \in Parser
    BY <2>2 DEF Parser
  <2> QED
    BY <2>3, <2>4, <2>5
<1>2. CASE ~Callback
  <2> DEFINE table == Append(q.table, NewSection(name))
             current == Len(q.table) + 1
  <2>1. q.table \in Tables
    BY ParserFields
  <2>2. Extended(q.table, table, NewSection(name))
    BY <2>1, SectionAppended
  <2>3. SectionCreate(q, name) = [q EXCEPT !.table = table, !.current = current]
    BY <1>2 DEF SectionCreate
  <2>4. table \in Tables /\ current \in Nat
    BY <2>2 DEF Extended
  <2> HIDE DEF table, current
  <2>5. [q EXCEPT !.table = table, !.current = current] \in Parser
    BY <2>4 DEF Parser, Tables, Section, Entry
  <2>6. SamePlace(q, [q EXCEPT !.table = table, !.current = current])
    BY DEF Parser, SamePlace
  <2> QED
    BY <2>3, <2>5, <2>6
<1> QED
  BY <1>1, <1>2

LEMMA EntryCreateType ==
  ASSUME NEW q \in Parser, NEW key \in Seq(Char), NEW value \in Seq(Char)
  PROVE  EntryCreate(q, key, value) \in Parser /\ SamePlace(q, EntryCreate(q, key, value))
<1>1. CASE Callback
  <2> DEFINE calls == Append(q.calls, <<"set", key, value>>)
  <2>1. <<"set", key, value>> \in Seq({"create", "set"} \cup Seq(Char))
    OBVIOUS
  <2>2. calls \in Seq(Seq({"create", "set"} \cup Seq(Char)))
    BY <2>1, ParserFields
  <2>3. EntryCreate(q, key, value) = [q EXCEPT !.calls = calls]
    BY <1>1 DEF EntryCreate
  <2> HIDE DEF calls
  <2> QED
    BY <2>2, <2>3 DEF Parser, SamePlace
<1>2. CASE ~Callback
  <2>1. AddEntry(q.table, q.current, key, value) \in Tables
    BY ParserFields, AddEntryType
  <2> QED
    BY <1>2, <2>1 DEF EntryCreate, Parser, SamePlace, Tables, Section, Entry
<1> QED
  BY <1>1, <1>2

LEMMA SectionedType ==
  ASSUME NEW q \in Parser
  PROVE  Sectioned(q) \in Parser /\ SamePlace(q, Sectioned(q))
<1>1. CASE q.current = 0
  <2>1. <<>> \in Seq(Char)
    OBVIOUS
  <2> QED
    BY <1>1, <2>1, SectionCreateType DEF Sectioned
<1>2. CASE q.current # 0
  BY <1>2 DEF Sectioned, SamePlace
<1> QED
  BY <1>1, <1>2

\* A reset reader: what is written into the buffer next is a key.
Cleared(q, r) ==
  /\ r \in Parser /\ r.state = "Key" /\ r.buf = <<>> /\ r.spaces = 0
  /\ r.skipping = q.skipping /\ r.size = q.size /\ r.overflow = q.overflow

LEMMA ResetType ==
  ASSUME NEW q \in Parser
  PROVE  Cleared(q, Reset(q))
<1>1. <<>> \in Seq(Char \cup {NUL})
  OBVIOUS
<1> QED
  BY <1>1 DEF Cleared, Reset, Parser

LEMMA ClearedFrom ==
  ASSUME NEW q, NEW r, NEW s, SamePlace(q, r), Cleared(r, s)
  PROVE  Cleared(q, s)
BY DEF SamePlace, Cleared

LEMMA EndLineType ==
  ASSUME NEW q \in Parser, Terminated(q)
  PROVE  Cleared(q, EndLine(q))
<1>1. CASE q.state = "Value"
  <2> DEFINE t == Sectioned(q)
             r == EntryCreate(t, BufString(q), ValueString(q))
  <2>1. BufString(q) \in Seq(Char) /\ ValueString(q) \in Seq(Char)
    BY <1>1, BufStringType, ValueStringType
  <2>2. r \in Parser /\ SamePlace(q, r)
    <3>1. t \in Parser /\ SamePlace(q, t)
      BY SectionedType
    <3> HIDE DEF t
    <3>2. r \in Parser /\ SamePlace(t, r)
      BY <2>1, <3>1, EntryCreateType
    <3> QED
      BY <3>1, <3>2 DEF SamePlace
  <2>3. EndLine(q) = Reset([r EXCEPT !.value = 0])
    BY <1>1 DEF EndLine
  <2> HIDE DEF r
  <2>4. [r EXCEPT !.value = 0] \in Parser /\ [r EXCEPT !.value = 0].skipping = q.skipping
        /\ [r EXCEPT !.value = 0].size = q.size /\ [r EXCEPT !.value = 0].overflow = q.overflow
    BY <2>2 DEF Parser, SamePlace
  <2> QED
    BY <2>3, <2>4, ResetType DEF Cleared
<1>2. CASE q.state = "Comment"
  <2> DEFINE t == Sectioned(q)
             r == EntryCreate(t, BufString(q), <<>>)
  <2>1. BufString(q) \in Seq(Char) /\ <<>> \in Seq(Char)
    BY BufStringType
  <2>2. r \in Parser /\ SamePlace(q, r)
    <3>1. t \in Parser /\ SamePlace(q, t)
      BY SectionedType
    <3> HIDE DEF t
    <3>2. r \in Parser /\ SamePlace(t, r)
      BY <2>1, <3>1, EntryCreateType
    <3> QED
      BY <3>1, <3>2 DEF SamePlace
  <2>3. EndLine(q) = Reset(r)
    BY <1>2 DEF EndLine
  <2> HIDE DEF r
  <2>4. Cleared(r, EndLine(q))
    BY <2>2, <2>3, ResetType
  <2> QED
    BY <2>2, <2>4, ClearedFrom
<1>3. CASE q.state \in {"Section", "Key"}
  <2> DEFINE errors == q.errors + 1
  <2>3. errors \in Nat
    BY ParserFields
  <2>4. Error(q) = [q EXCEPT !.errors = errors]
    BY DEF Error
  <2> HIDE DEF errors
  <2>5. [q EXCEPT !.errors = errors] \in Parser
    BY <2>3 DEF Parser
  <2>6. SamePlace(q, [q EXCEPT !.errors = errors])
    BY DEF Parser, SamePlace
  <2>1. Error(q) \in Parser /\ SamePlace(q, Error(q))
    BY <2>4, <2>5, <2>6
  <2>2. EndLine(q) = Reset(Error(q)) \/ EndLine(q) = Reset(q)
    BY <1>3 DEF EndLine
  <2> QED
    BY <2>1, <2>2, ResetType DEF Cleared, SamePlace
<1> QED
  BY <1>1, <1>2, <1>3, ParserFields

LEMMA GrowType ==
  ASSUME NEW q \in Parser
  PROVE  /\ Grow(q) \in Parser
         /\ Grow(q).state = q.state /\ Grow(q).buf = q.buf /\ Grow(q).value = q.value
         /\ Grow(q).spaces = q.spaces /\ Grow(q).skipping = q.skipping
         /\ Grow(q).overflow = q.overflow
         /\ Len(q.buf) <= q.size => Len(q.buf) <= Grow(q).size - 2
<1>1. CASE Len(q.buf) > q.size - 2
  <2>1. Chunk \in Nat /\ Chunk >= 2 /\ q.size \in Nat /\ Len(q.buf) \in Nat
    BY TConfigAssumption, ParserFields
  <2>2. Grow(q) = [q EXCEPT !.size = q.size + Chunk]
    BY <1>1 DEF Grow
  <2> DEFINE size == q.size + Chunk
  <2>3. size \in Nat /\ (Len(q.buf) <= q.size => Len(q.buf) <= size - 2)
    BY <2>1
  <2> HIDE DEF size
  <2>4. Grow(q) = [q EXCEPT !.size = size]
    BY <2>2 DEF size
  <2>5. /\ Grow(q) \in Parser /\ Grow(q).size = size
        /\ Grow(q).state = q.state /\ Grow(q).buf = q.buf /\ Grow(q).value = q.value
        /\ Grow(q).spaces = q.spaces /\ Grow(q).skipping = q.skipping
        /\ Grow(q).overflow = q.overflow
    BY <2>3, <2>4 DEF Parser
  <2> QED
    BY <2>3, <2>5
<1>2. CASE ~(Len(q.buf) > q.size - 2)
  <2>1. Grow(q) = q /\ q.size \in Nat /\ Len(q.buf) \in Nat
    BY <1>2, ParserFields DEF Grow
  <2> QED
    BY <2>1, <1>2
<1> QED
  BY <1>1, <1>2

\* Some characters are written behind the others.
Longer(q, r, s) ==
  /\ r \in Parser
  /\ r.buf = q.buf \o s
  /\ r.size = q.size
  /\ r.overflow => q.overflow \/ Len(r.buf) > r.size

LEMMA WriteType ==
  ASSUME NEW q \in Parser, NEW s \in Seq(Char \cup {NUL})
  PROVE  /\ Longer(q, Bounded(Put(q, s)), s)
         /\ Bounded(Put(q, s)).state = q.state
         /\ Bounded(Put(q, s)).value = q.value
         /\ Bounded(Put(q, s)).spaces = q.spaces
         /\ Bounded(Put(q, s)).skipping = q.skipping
<1> DEFINE r == [q EXCEPT !.buf = q.buf \o s]
           over == q.overflow \/ Len(r.buf) > q.size
<1>1. q.buf \o s \in Seq(Char \cup {NUL})
  BY ParserFields
<1>2. Put(q, s) = r
  BY DEF Put
<1>3. /\ r \in Parser /\ r.buf = q.buf \o s /\ r.state = q.state /\ r.value = q.value
      /\ r.spaces = q.spaces /\ r.skipping = q.skipping /\ r.size = q.size
      /\ r.overflow = q.overflow
  BY <1>1 DEF Parser
<1> HIDE DEF r
<1>4. over \in BOOLEAN
  OBVIOUS
<1>5. Bounded(r) = [r EXCEPT !.overflow = over]
  BY <1>3 DEF Bounded
<1> HIDE DEF over
<1>6. /\ Bounded(r) \in Parser /\ Bounded(r).buf = r.buf /\ Bounded(r).state = r.state
      /\ Bounded(r).value = r.value /\ Bounded(r).spaces = r.spaces
      /\ Bounded(r).skipping = r.skipping /\ Bounded(r).size = r.size
      /\ Bounded(r).overflow = over
  BY <1>3, <1>4, <1>5 DEF Parser
<1> QED
  BY <1>2, <1>3, <1>6 DEF over, Longer

LEMMA LongerLength ==
  ASSUME NEW q \in Parser, NEW r, NEW s \in Seq(Char \cup {NUL}), Longer(q, r, s)
  PROVE  Len(r.buf) = Len(q.buf) + Len(s)
<1> DEFINE b == q.buf
           d == r.buf
<1>1. b \in Seq(Char \cup {NUL}) /\ d = b \o s
  BY ParserFields DEF Longer
<1> HIDE DEF b, d
<1>2. Len(d) = Len(b) + Len(s)
  BY <1>1
<1> QED
  BY <1>2 DEF b, d

\* The characters a round may write behind a key or a value keep them strings.
LEMMA TerminatedLonger ==
  ASSUME NEW q \in Parser, NEW r, NEW s \in Seq(Char), Terminated(q), Longer(q, r, s),
         r.state = q.state, r.value = q.value
  PROVE  Terminated(r)
<1>1. q.buf \in Seq(Char \cup {NUL}) /\ s \in Seq(Char) /\ r.buf = q.buf \o s /\ q.value \in Nat
  BY ParserFields DEF Longer
<1>2. /\ Len(r.buf) = Len(q.buf) + Len(s) /\ Len(q.buf) \in Nat /\ Len(s) \in Nat
      /\ \A i \in 1..Len(q.buf) : r.buf[i] = q.buf[i]
      /\ \A i \in Len(q.buf) + 1..Len(r.buf) : r.buf[i] \in Char
  BY <1>1
<1>3. NUL \notin Char
  BY DEF NUL, Char, Digit, Other
<1>4. DOMAIN q.buf = 1..Len(q.buf) /\ DOMAIN r.buf = 1..Len(r.buf)
  BY <1>1
<1>5. ASSUME NEW i \in DOMAIN r.buf
      PROVE  r.buf[i] # NUL \/ (i \in DOMAIN q.buf /\ r.buf[i] = q.buf[i])
  BY <1>2, <1>3, <1>4
<1>6. r.state = "Key" => \A i \in DOMAIN r.buf : r.buf[i] # NUL
  BY <1>5 DEF Terminated
<1>7. r.state = "Value" => r.value \in 1..Len(r.buf) + 1
  BY <1>1, <1>2 DEF Terminated
<1>8. r.state = "Value" => \A i \in DOMAIN r.buf : i >= r.value => r.buf[i] # NUL
  BY <1>5 DEF Terminated
<1> QED
  BY <1>6, <1>7, <1>8 DEF Terminated

LEMMA SpaceType ==
  ASSUME NEW q \in Parser
  PROVE  /\ Space(q) \in Parser
         /\ Space(q).state = q.state /\ Space(q).buf = q.buf /\ Space(q).value = q.value
         /\ Space(q).skipping = q.skipping /\ Space(q).size = q.size
         /\ Space(q).overflow = q.overflow
         /\ Space(q).spaces \in {q.spaces, q.spaces + 1}
<1>1. q.spaces + 1 \in Nat
  BY ParserFields
<1>2. Space(q) = [q EXCEPT !.spaces = q.spaces + 1] \/ Space(q) = q
  BY DEF Space
<1> QED
  BY <1>1, <1>2 DEF Parser

Spaced(n, c) == [i \in 1..n |-> " "] \o <<c>>

LEMMA SpacedType ==
  ASSUME NEW n \in Nat, NEW c \in Char
  PROVE  Spaced(n, c) \in Seq(Char) /\ Len(Spaced(n, c)) = n + 1
<1> DEFINE blank == [i \in 1..n |-> " "]
           one == <<c>>
<1>1. " " \in Char
  BY DEF Char
<1>2. blank \in [1..n -> Char]
  BY <1>1
<1>3. blank \in Seq(Char)
  BY <1>2, SeqDef
<1>4. Len(blank) = n
  <2>1. DOMAIN blank = 1..n
    OBVIOUS
  <2> HIDE DEF blank
  <2>2. DOMAIN blank = 1..Len(blank) /\ Len(blank) \in Nat
    BY <1>3
  <2>3. Len(blank) <= n
    BY <2>1, <2>2
  <2>4. n <= Len(blank)
    BY <2>1, <2>2
  <2>5. Len(blank) \in Nat
    BY <2>2
  <2> QED
    BY <2>3, <2>4, <2>5
<1>5. one \in Seq(Char) /\ Len(one) = 1
  OBVIOUS
<1>6. Spaced(n, c) = blank \o one
  BY DEF Spaced
<1> HIDE DEF blank, one
<1>7. blank \o one \in Seq(Char) /\ Len(blank \o one) = Len(blank) + Len(one)
  BY <1>3, <1>5, ConcatProperties, Zenon
<1> QED
  BY <1>4, <1>5, <1>6, <1>7

LEMMA OrdinaryType ==
  ASSUME NEW q \in Parser, NEW c \in Char
  PROVE  \E s \in Seq(Char) :
           /\ Len(s) = q.spaces + 1
           /\ Longer(q, Ordinary(q, c), s)
           /\ Ordinary(q, c).state = q.state
           /\ Ordinary(q, c).value = q.value
           /\ Ordinary(q, c).spaces = 0
           /\ Ordinary(q, c).skipping = q.skipping
<1> DEFINE r == [q EXCEPT !.spaces = 0]
           s == Spaced(q.spaces, c)
<1>1. q.spaces \in Nat
  BY ParserFields
<1>3. s \in Seq(Char) /\ Len(s) = q.spaces + 1
  BY <1>1, SpacedType
<1>4. Ordinary(q, c) = Bounded(Put(r, s))
  BY DEF Ordinary, Spaced
<1>5. /\ r \in Parser /\ r.spaces = 0 /\ r.state = q.state /\ r.buf = q.buf
      /\ r.value = q.value /\ r.skipping = q.skipping /\ r.size = q.size
      /\ r.overflow = q.overflow
  BY DEF Parser
<1> HIDE DEF r
<1>6. s \in Seq(Char \cup {NUL})
  BY <1>3
<1> HIDE DEF s
<1>7. /\ Longer(r, Ordinary(q, c), s) /\ Ordinary(q, c).state = r.state
      /\ Ordinary(q, c).value = r.value /\ Ordinary(q, c).spaces = r.spaces
      /\ Ordinary(q, c).skipping = r.skipping
  BY <1>4, <1>5, <1>6, WriteType
<1>8. Longer(q, Ordinary(q, c), s)
  BY <1>5, <1>7 DEF Longer
<1> QED
  BY <1>3, <1>5, <1>7, <1>8

\* What a round of the reader's loop makes of where the reader is, for each
\* character: it may write more than one only when spaces are pending.
Rounded(q, c, r) ==
  /\ r \in Parser
  /\ Terminated(r)
  /\ c \notin {";", "#"} => r.skipping = q.skipping
  /\ r.size = q.size
  /\ r.overflow => q.overflow \/ Len(r.buf) > r.size
  /\ Len(r.buf) <= Len(q.buf) + q.spaces + 1
  /\ c \in {"\r", "["} => r.spaces = q.spaces
  /\ c = " " => r.spaces \in {q.spaces, q.spaces + 1}
  /\ c \notin {"\r", "[", " ", ";", "#"} => r.spaces = 0

LEMMA RoundType ==
  ASSUME NEW q \in Parser, NEW c \in Char, Terminated(q)
  PROVE  Rounded(q, c, Round(q, c))
<1> DEFINE r == Round(q, c)
<1>0. /\ q.buf \in Seq(Char \cup {NUL}) /\ Len(q.buf) \in Nat /\ q.spaces \in Nat
      /\ q.state \in {"Section", "Key", "Value", "Comment"}
      /\ <<c>> \in Seq(Char \cup {NUL}) /\ <<c>> \in Seq(Char)
  BY ParserFields
<1>1. CASE c = " "
  <2>1. r = Space(q)
    BY <1>1 DEF Round
  <2> HIDE DEF r
  <2>2. /\ r \in Parser
        /\ r.state = q.state /\ r.buf = q.buf /\ r.value = q.value
        /\ r.skipping = q.skipping /\ r.size = q.size
        /\ r.overflow = q.overflow
        /\ r.spaces \in {q.spaces, q.spaces + 1}
    BY <2>1, SpaceType
  <2>3. Terminated(r)
    BY <2>2 DEF Terminated
  <2>4. c \notin {";", "#", "\r", "["}
    BY <1>1
  <2>5. r.overflow => q.overflow
    BY <2>2
  <2>6. Len(r.buf) <= Len(q.buf) + q.spaces + 1
    BY <2>2, <1>0
  <2>7. r.skipping = q.skipping /\ r.size = q.size
    BY <2>2
  <2>9. Rounded(q, c, r)
    BY <2>2, <2>3, <2>4, <2>5, <2>6, <2>7, <1>1 DEF Rounded
  <2> QED
    BY <2>9 DEF r
<1>2. CASE c \in {";", "#"}
  <2> DEFINE t == IF q.state = "Value" THEN q
                  ELSE [q EXCEPT !.state = "Comment", !.skipping = TRUE]
  <2>1. r = Bounded(Put(t, <<c>>))
    BY <1>2 DEF Round
  <2>2. /\ t \in Parser /\ t.buf = q.buf /\ t.value = q.value /\ t.size = q.size
        /\ t.overflow = q.overflow
        /\ t.state \in {"Value", "Comment"} /\ (t.state = "Value" => q.state = "Value")
    BY DEF Parser
  <2> HIDE DEF r, t
  <2>3. /\ Longer(t, r, <<c>>) /\ r.state = t.state /\ r.value = t.value
    BY <2>1, <2>2, <1>0, WriteType
  <2>4. Terminated(t)
    BY <2>2 DEF Terminated
  <2>5. Terminated(r)
    BY <2>2, <2>3, <2>4, <1>0, TerminatedLonger
  <2>6. Len(r.buf) = Len(t.buf) + 1
    <3>1. Len(<<c>>) = 1
      OBVIOUS
    <3> QED
      BY <3>1, <2>2, <2>3, <1>0, LongerLength
  <2>7. Len(r.buf) <= Len(q.buf) + q.spaces + 1
    BY <2>2, <2>6, <1>0
  <2>8. r.overflow => q.overflow \/ Len(r.buf) > r.size
    BY <2>2, <2>3 DEF Longer
  <2>9. r \in Parser /\ r.size = q.size
    BY <2>2, <2>3 DEF Longer
  <2>10. c \notin {"\r", "[", " "}
    BY <1>2
  <2>11. Rounded(q, c, r)
    BY <2>5, <2>7, <2>8, <2>9, <2>10, <1>2 DEF Rounded
  <2> QED
    BY <2>11 DEF r
<1>3. CASE c = "\r"
  <2>1. r = q
    BY <1>3 DEF Round
  <2> QED
    BY <2>1, <1>0, <1>3 DEF Rounded
<1>4. ASSUME Cleared(q, r), c \in {"\n", "]"}
      PROVE  Rounded(q, c, r)
  <2> HIDE DEF r
  <2>1. Terminated(r) /\ Len(r.buf) = 0
    BY <1>4 DEF Terminated, Cleared
  <2>2. Len(r.buf) <= Len(q.buf) + q.spaces + 1
    BY <2>1, <1>0
  <2>3. r.overflow => q.overflow
    BY <1>4 DEF Cleared
  <2>4. c \notin {"\r", "[", " "}
    BY <1>4
  <2> QED
    BY <2>1, <2>2, <2>3, <2>4, <1>4 DEF Rounded, Cleared
<1>5. CASE c = "\n"
  <2>1. r = EndLine(q)
    BY <1>5 DEF Round
  <2> QED
    BY <2>1, <1>4, <1>5, EndLineType
<1>6. CASE c = "["
  <2>1. r = [q EXCEPT !.state = "Section"]
    BY <1>6 DEF Round
  <2> HIDE DEF r
  <2>2. /\ r \in Parser /\ r.state = "Section" /\ r.buf = q.buf /\ r.spaces = q.spaces
        /\ r.skipping = q.skipping /\ r.size = q.size /\ r.overflow = q.overflow
    BY <2>1 DEF Parser
  <2>3. Terminated(r)
    BY <2>2 DEF Terminated
  <2>9. Rounded(q, c, r)
    BY <2>2, <2>3, <1>0, <1>6 DEF Rounded
  <2> QED
    BY <2>9 DEF r
<1>7. CASE c = "]"
  <2>1. r = Reset(SectionCreate(q, BufString(q)))
    BY <1>7 DEF Round
  <2>2. /\ SectionCreate(q, BufString(q)) \in Parser
        /\ SamePlace(q, SectionCreate(q, BufString(q)))
    BY BufStringType, SectionCreateType
  <2> HIDE DEF r
  <2>3. Cleared(q, r)
    BY <2>1, <2>2, ResetType DEF Cleared, SamePlace
  <2> QED
    BY <2>3, <1>4, <1>7 DEF r
<1>8. CASE c \in {"=", ":"} /\ q.state = "Key"
  <2> DEFINE t == [q EXCEPT !.state = "Value", !.value = Len(q.buf) + 2, !.spaces = 0]
  <2>1. r = Bounded(Put(t, <<NUL>>))
    BY <1>8 DEF Round
  <2>2. Len(q.buf) + 2 \in Nat /\ <<NUL>> \in Seq(Char \cup {NUL})
    BY <1>0
  <2>3. /\ t \in Parser /\ t.state = "Value" /\ t.value = Len(q.buf) + 2 /\ t.spaces = 0
        /\ t.buf = q.buf /\ t.skipping = q.skipping /\ t.size = q.size
        /\ t.overflow = q.overflow
    BY <2>2 DEF Parser
  <2> HIDE DEF t, r
  <2>4. /\ Longer(t, r, <<NUL>>) /\ r.state = "Value" /\ r.value = Len(q.buf) + 2
        /\ r.spaces = 0 /\ r.skipping = q.skipping
    BY <2>1, <2>2, <2>3, WriteType
  <2>5. r.buf = q.buf \o <<NUL>>
    BY <2>3, <2>4 DEF Longer
  <2>6. Len(r.buf) = Len(q.buf) + 1 /\ DOMAIN r.buf = 1..Len(q.buf) + 1
    BY <2>2, <2>5, <1>0
  <2>7. Terminated(r)
    BY <2>4, <2>6, <1>0 DEF Terminated
  <2>8. Len(r.buf) <= Len(q.buf) + q.spaces + 1
    BY <2>6, <1>0
  <2>10. r.overflow => q.overflow \/ Len(r.buf) > r.size
    BY <2>3, <2>4 DEF Longer
  <2>11. r \in Parser /\ r.size = q.size /\ r.skipping = q.skipping
    BY <2>3, <2>4 DEF Longer
  <2>12. c \notin {"\r", "[", " "}
    BY <1>8
  <2>9. Rounded(q, c, r)
    BY <2>4, <2>7, <2>8, <2>10, <2>11, <2>12 DEF Rounded
  <2> QED
    BY <2>9 DEF r
<1>9. CASE /\ c \notin {" ", ";", "#", "\r", "\n", "[", "]"}
           /\ ~(c \in {"=", ":"} /\ q.state = "Key")
  <2>1. r = Ordinary(q, c)
    BY <1>9 DEF Round
  <2> HIDE DEF r
  <2>2. PICK s \in Seq(Char) :
           /\ Len(s) = q.spaces + 1 /\ Longer(q, r, s) /\ r.state = q.state
           /\ r.value = q.value /\ r.spaces = 0 /\ r.skipping = q.skipping
    BY <2>1, OrdinaryType
  <2>3. Terminated(r)
    BY <2>2, TerminatedLonger
  <2>4. s \in Seq(Char \cup {NUL})
    OBVIOUS
  <2>5. Len(r.buf) <= Len(q.buf) + q.spaces + 1
    BY <2>2, <2>4, <1>0, LongerLength
  <2>6. r.overflow => q.overflow \/ Len(r.buf) > r.size
    BY <2>2 DEF Longer
  <2>7. r \in Parser /\ r.size = q.size
    BY <2>2 DEF Longer
  <2>8. c \notin {"\r", "[", " "}
    BY <1>9
  <2>9. Rounded(q, c, r)
    BY <2>2, <2>3, <2>5, <2>6, <2>7, <2>8 DEF Rounded
  <2> QED
    BY <2>9 DEF r
<1> QED
  BY <1>1, <1>2, <1>3, <1>5, <1>6, <1>7, <1>8, <1>9

LEMMA SkipType ==
  ASSUME NEW q \in Parser, NEW c \in Char, Terminated(q)
  PROVE  Skip(q, c) \in Parser /\ Terminated(Skip(q, c))
<1> DEFINE r == Skip(q, c)
<1>1. CASE c = "\n"
  <2>1. r = [q EXCEPT !.skipping = FALSE]
    BY <1>1 DEF Skip
  <2> HIDE DEF r
  <2>2. r \in Parser /\ r.state = q.state /\ r.buf = q.buf /\ r.value = q.value
    BY <2>1 DEF Parser
  <2>3. Terminated(r)
    BY <2>2 DEF Terminated
  <2> QED
    BY <2>2, <2>3 DEF r
<1>2. CASE c # "\n"
  <2>1. r = Bounded(Put(q, <<c>>))
    BY <1>2 DEF Skip
  <2> HIDE DEF r
  <2>2. <<c>> \in Seq(Char) /\ <<c>> \in Seq(Char \cup {NUL})
    OBVIOUS
  <2>3. Longer(q, r, <<c>>) /\ r.state = q.state /\ r.value = q.value
    BY <2>1, <2>2, WriteType
  <2>4. Terminated(r)
    BY <2>2, <2>3, TerminatedLonger
  <2> QED
    BY <2>3, <2>4 DEF Longer, r
<1> QED
  BY <1>1, <1>2

\* Reading a character keeps the reader's types and its strings.
LEMMA ConsumeType ==
  ASSUME NEW q \in Parser, NEW c \in Char, Terminated(q)
  PROVE  Consume(q, c) \in Parser /\ Terminated(Consume(q, c))
<1>1. CASE q.skipping
  BY <1>1, SkipType DEF Consume
<1>2. CASE ~q.skipping
  <2>1. Consume(q, c) = Round(Grow(q), c)
    BY <1>2 DEF Consume
  <2>2. Grow(q) \in Parser /\ Terminated(Grow(q))
    BY GrowType DEF Terminated
  <2>3. Rounded(Grow(q), c, Round(Grow(q), c))
    BY <2>2, RoundType
  <2> QED
    BY <2>1, <2>3 DEF Rounded
<1> QED
  BY <1>1, <1>2

\* The reader is where one check of the buffer's size is enough for the next round.
Fits(q) ==
  /\ ~q.overflow
  /\ ~q.skipping
  /\ Len(q.buf) <= q.size
  /\ q.spaces <= 1

\* A round writes a character and the one space that may be pending.
LEMMA Room ==
  ASSUME NEW a \in Nat, NEW b \in Nat, NEW n \in Nat, NEW z \in Nat,
         n <= 1, a <= z - 2, b <= a + n + 1
  PROVE  b <= z /\ ~(b > z)
OBVIOUS

LEMMA OneSpace ==
  ASSUME NEW n \in Nat, NEW m \in Nat, n <= 1, n # 1, m \in {n, n + 1}
  PROVE  m <= 1
OBVIOUS

\* A character that starts no comment and no run of spaces.
Quiet(q, c) == c \notin {";", "#"} /\ ~(c = " " /\ q.spaces = 1)

\* Only a space leaves a space pending that was not.
StillFits(q, c, r) ==
  /\ Fits(r)
  /\ c \in {"\r", "["} => r.spaces = q.spaces
  /\ c \notin {"\r", "[", " "} => r.spaces = 0

LEMMA ConsumeFits ==
  ASSUME NEW q \in Parser, NEW c \in Char, Terminated(q), Fits(q), Quiet(q, c),
         NEW r, r = Consume(q, c)
  PROVE  StillFits(q, c, r)
<1> DEFINE g == Grow(q)
<1>1. /\ g \in Parser /\ g.state = q.state /\ g.buf = q.buf /\ g.value = q.value
      /\ g.spaces = q.spaces /\ g.skipping = q.skipping /\ g.overflow = q.overflow
      /\ Len(q.buf) <= g.size - 2
  BY GrowType DEF Fits
<1>2. r = Round(g, c)
  BY DEF Consume, Fits
<1> HIDE DEF g
<1>3. Terminated(g)
  BY <1>1 DEF Terminated
<1>4. Rounded(g, c, r)
  BY <1>1, <1>2, <1>3, RoundType
<1>5. /\ q.spaces \in Nat /\ Len(q.buf) \in Nat /\ g.size \in Nat
      /\ r.spaces \in Nat /\ Len(r.buf) \in Nat
  <2>1. r \in Parser
    BY <1>4 DEF Rounded
  <2>3. Len(q.buf) \in Nat /\ Len(r.buf) \in Nat
    BY <2>1, ParserFields
  <2>4. q.spaces \in Nat /\ g.size \in Nat /\ r.spaces \in Nat
    BY <2>1, <1>1, ParserFields
  <2> QED
    BY <2>3, <2>4
<1>6. q.spaces <= 1
  BY DEF Fits
<1>7. Len(r.buf) <= r.size /\ ~(Len(r.buf) > r.size)
  <2>1. r.size = g.size /\ Len(r.buf) <= Len(g.buf) + g.spaces + 1
    BY <1>4 DEF Rounded
  <2>2. Len(r.buf) <= Len(q.buf) + q.spaces + 1
    BY <2>1, <1>1
  <2> QED
    BY <2>1, <2>2, <1>1, <1>5, <1>6, Room, Zenon
<1>8. ~r.overflow
  <2>1. r.overflow => g.overflow \/ Len(r.buf) > r.size
    BY <1>4 DEF Rounded
  <2>2. ~g.overflow
    BY <1>1 DEF Fits
  <2> QED
    BY <2>1, <2>2, <1>7
<1>9. ~r.skipping
  <2>1. r.skipping = g.skipping
    BY <1>4 DEF Rounded, Quiet
  <2> QED
    BY <2>1, <1>1 DEF Fits
<1>10. c \in {"\r", "["} => r.spaces = q.spaces
  BY <1>1, <1>4 DEF Rounded
<1>11. ASSUME c = " "
       PROVE  r.spaces <= 1
  <2>1. r.spaces \in {q.spaces, q.spaces + 1}
    BY <1>1, <1>4, <1>11 DEF Rounded
  <2>2. q.spaces # 1
    BY <1>11 DEF Quiet
  <2> QED
    BY <2>1, <2>2, <1>5, <1>6, OneSpace, Zenon
<1>12. c \notin {"\r", "[", " "} => r.spaces = 0
  BY <1>4 DEF Rounded, Quiet
<1>13. r.spaces <= 1
  <2>1. 0 <= 1
    OBVIOUS
  <2> QED
    BY <2>1, <1>6, <1>10, <1>11, <1>12, Zenon
<1> QED
  BY <1>7, <1>8, <1>9, <1>10, <1>12, <1>13 DEF Fits, StillFits

-----------------------------------------------------------------------------
(* The reader and its file.                                                *)

LEMMA TailOfRest ==
  ASSUME NEW f \in Seq(Char), NEW k \in 0..Len(f) - 1, NEW s, s = SubSeq(f, k + 1, Len(f))
  PROVE  /\ s \in Seq(Char) /\ Len(s) = Len(f) - k
         /\ Head(s) = f[k + 1] /\ Tail(s) = SubSeq(f, k + 2, Len(f))
OBVIOUS

LEMMA LineType ==
  ASSUME NEW l \in Line
  PROVE  /\ l \in Seq(Char) /\ Len(l) \in Nat
         /\ Whole(l) \in Seq(Char) /\ Len(Whole(l)) = Len(l) + 1
         /\ \A i \in 1..Len(l) : Whole(l)[i] = l[i]
         /\ Whole(l)[Len(l) + 1] = "\n"
<1> DEFINE e == <<"\n">>
<1>1. l \in Seq(Char) /\ Len(l) \in Nat
  BY ConfigFileAssumption
<1>2. e \in Seq(Char) /\ Len(e) = 1 /\ e[1] = "\n"
  BY DEF Char
<1> HIDE DEF e
<1>3. l \o e \in Seq(Char) /\ Len(l \o e) = Len(l) + Len(e)
  BY <1>1, <1>2, ConcatProperties, Zenon
<1>4. \A i \in 1..Len(l) + Len(e) : (l \o e)[i] = IF i <= Len(l) THEN l[i] ELSE e[i - Len(l)]
  BY <1>1, <1>2, ConcatProperties, Zenon
<1>5. \A i \in 1..Len(l) : (l \o e)[i] = l[i]
  BY <1>1, <1>2, <1>4
<1>6. (l \o e)[Len(l) + 1] = "\n"
  <2> DEFINE n == Len(l) + 1
  <2>1. n \in 1..Len(l) + Len(e) /\ ~(n <= Len(l)) /\ n - Len(l) = 1
    BY <1>1, <1>2
  <2> HIDE DEF n
  <2>2. (l \o e)[n] = e[n - Len(l)]
    BY <2>1, <1>4
  <2> QED
    BY <2>1, <2>2, <1>2 DEF n
<1> QED
  BY <1>1, <1>2, <1>3, <1>5, <1>6 DEF e, Whole

\* The character that is read next and what is left behind it.
LEMMA NextCharacter ==
  ASSUME Buffered, rest # <<>>,
         NEW l, l = Last(lines), NEW f, f = Whole(l), NEW k, k = Taken
  PROVE  /\ l \in Line /\ Len(lines) \in DOMAIN lines /\ l = lines[Len(lines)]
         /\ f \in Seq(Char) /\ Len(f) = Len(l) + 1 /\ Len(l) \in Nat
         /\ k \in 0..Len(l) /\ Len(rest) = Len(l) + 1 - k
         /\ Head(rest) \in Char /\ Head(rest) = f[k + 1]
         /\ Tail(rest) = SubSeq(f, k + 2, Len(f))
         /\ Len(Tail(rest)) = Len(l) - k /\ Tail(rest) \in Seq(Char)
<1>1. /\ lines # <<>> /\ lines \in Seq(Line) /\ k \in 0..Len(l)
      /\ rest = SubSeq(f, k + 1, Len(l) + 1) /\ rest \in Seq(Char)
  BY DEF Buffered, TypeOK, RestOfLine
<1>2. Len(lines) \in 1..Len(lines) /\ DOMAIN lines = 1..Len(lines)
  BY <1>1
<1>3. l = lines[Len(lines)]
  BY DEF Last
<1>4. l \in Line
  BY <1>1, <1>2, <1>3
<1>5. f \in Seq(Char) /\ Len(f) = Len(l) + 1 /\ Len(l) \in Nat
  BY <1>4, LineType
<1>6. k \in 0..Len(f) - 1 /\ rest = SubSeq(f, k + 1, Len(f))
  BY <1>1, <1>5
<1>7. /\ Len(rest) = Len(f) - k
      /\ Head(rest) = f[k + 1] /\ Tail(rest) = SubSeq(f, k + 2, Len(f))
  BY <1>5, <1>6, TailOfRest
<1>8. Len(rest) = Len(l) + 1 - k
  <2>1. /\ Len(rest) = Len(f) - k /\ Len(f) = Len(l) + 1
        /\ Len(l) \in Nat /\ k \in 0..Len(l)
    BY <1>1, <1>5, <1>7
  <2> QED
    BY <2>1
<1>9. Len(Tail(rest)) = Len(l) - k /\ Tail(rest) \in Seq(Char) /\ Head(rest) \in Char
  BY <1>1, <1>5, <1>7, <1>8
<1> QED
  BY <1>1, <1>2, <1>3, <1>4, <1>5, <1>7, <1>8, <1>9

\* A comment's character, or a second space, explains all that follows.
LEMMA NotQuiet ==
  ASSUME Buffered, rest # <<>>, Within, ~Quiet(p, Head(rest))
  PROVE  Explained
<1> DEFINE l == Last(lines)
           f == Whole(l)
           k == Taken
           c == Head(rest)
<1>1. /\ l \in Line /\ Len(lines) \in DOMAIN lines /\ l = lines[Len(lines)]
      /\ Len(l) \in Nat /\ k \in 0..Len(l) /\ c = f[k + 1]
  BY NextCharacter
<1>2. c \in {";", "#"} \/ (c = " " /\ p.spaces = 1)
  BY DEF Quiet
<1>3. /\ \A i \in 1..Len(l) : f[i] = l[i]
      /\ f[Len(l) + 1] = "\n"
      /\ l \in Seq(Char)
  BY <1>1, LineType
<1> HIDE DEF c, f, k, l
<1>4. k # Len(l)
  BY <1>1, <1>2, <1>3
<1>5. k + 1 \in 1..Len(l) /\ DOMAIN l = 1..Len(l)
  BY <1>1, <1>3, <1>4
<1>6. c = l[k + 1]
  BY <1>1, <1>3, <1>5
<1>7. CASE c \in {";", "#"}
  <2>1. Commented(l)
    BY <1>5, <1>6, <1>7 DEF Commented, Chars
  <2> QED
    BY <2>1, <1>1 DEF Explained
<1>8. CASE c = " " /\ p.spaces = 1
  <2>1. PICK i \in 1..k : /\ l[i] = " "
                          /\ \A j \in i + 1..k : l[j] \in {"\r", "["}
    BY <1>8 DEF Within, k, l
  <2>5. k \in 0..Len(l) /\ Len(l) \in Nat /\ i \in 1..k
    BY <1>1
  <2>2. i \in DOMAIN l /\ k + 1 \in DOMAIN l /\ i < k + 1
    BY <1>5, <2>5
  <2>3. \A j \in DOMAIN l : i < j /\ j < k + 1 => j \in i + 1..k
    BY <1>5, <2>5
  <2>4. SpaceRun(l)
    BY <1>6, <1>8, <2>1, <2>2, <2>3 DEF SpaceRun
  <2> QED
    BY <2>4, <1>1 DEF Explained
<1> QED
  BY <1>2, <1>7, <1>8

\* The reader reads a character.
LEMMA GetcKeeps == Buffered /\ Getc => Buffered'
<1> SUFFICES ASSUME Buffered, Getc PROVE Buffered'
  OBVIOUS
<1> DEFINE l == Last(lines)
           f == Whole(l)
           k == Taken
           c == Head(rest)
<1>0. rest # <<>> /\ p' = Consume(p, c) /\ rest' = Tail(rest) /\ lines' = lines /\ edits' = edits
  BY DEF Getc
<1>1. /\ l \in Line /\ Len(l) \in Nat /\ f \in Seq(Char) /\ Len(f) = Len(l) + 1
      /\ k \in 0..Len(l) /\ c \in Char /\ c = f[k + 1]
      /\ rest' = SubSeq(f, k + 2, Len(f)) /\ Len(rest') = Len(l) - k /\ rest' \in Seq(Char)
  BY <1>0, NextCharacter
<1>2. p \in Parser /\ Terminated(p)
  BY DEF Buffered, TypeOK
<1>3. p' \in Parser /\ Terminated(p')
  BY <1>0, <1>1, <1>2, ConsumeType
<1>4. TypeOK'
  BY <1>0, <1>1, <1>3 DEF Buffered, TypeOK
<1>5. Taken' = k + 1 /\ Last(lines)' = l
  <2>1. Taken' = Len(l) + 1 - Len(rest')
    BY <1>0 DEF Taken
  <2>2. Len(rest') = Len(l) - k /\ k \in 0..Len(l) /\ Len(l) \in Nat
    BY <1>1
  <2> HIDE DEF k, l
  <2>3. Taken' = k + 1
    BY <2>1, <2>2
  <2> QED
    BY <2>3, <1>0 DEF l
<1>6. RestOfLine'
  <2> SUFFICES ASSUME rest' # <<>>
               PROVE  /\ lines' # <<>>
                      /\ Taken' \in 0..Len(Last(lines'))
                      /\ rest' = SubSeq(Whole(Last(lines')), Taken' + 1, Len(Last(lines')) + 1)
    BY DEF RestOfLine
  <2>1. Len(rest') # 0
    BY <1>1
  <2>2. k + 1 \in 0..Len(l)
    BY <1>1, <2>1
  <2>3. lines # <<>>
    BY <1>0 DEF Buffered, RestOfLine
  <2>4. rest' = SubSeq(f, (k + 1) + 1, Len(l) + 1)
    BY <1>1
  <2>5. Last(lines') = l /\ lines' # <<>>
    BY <1>0, <2>3
  <2>6. f = Whole(Last(lines'))
    BY <2>5
  <2> HIDE DEF k, l, f
  <2>7. rest' = SubSeq(Whole(Last(lines')), Taken' + 1, Len(Last(lines')) + 1)
    BY <1>5, <2>4, <2>5, <2>6
  <2>8. Taken' \in 0..Len(Last(lines'))
    BY <1>5, <2>2, <2>5
  <2> QED
    BY <2>5, <2>7, <2>8
<1>7. ASSUME Explained PROVE Explained'
  BY <1>0, <1>7 DEF Explained
<1>8. ASSUME Within, Quiet(p, c) PROVE Within'
  <2>1. /\ Fits(p')
        /\ c \in {"\r", "["} => p'.spaces = p.spaces
        /\ c \notin {"\r", "[", " "} => p'.spaces = 0
    <3>1. Fits(p)
      BY <1>8 DEF Within, Fits
    <3>2. c \in Char /\ p' = Consume(p, c)
      BY <1>0, <1>1
    <3> HIDE DEF c
    <3>3. StillFits(p, c, p')
      BY <3>1, <3>2, <1>2, <1>8, ConsumeFits
    <3> QED
      BY <3>3 DEF StillFits
  <2>2. ASSUME p'.spaces = 1
        PROVE  /\ rest' # <<>>
               /\ \E i \in 1..k + 1 : /\ l[i] = " "
                                      /\ \A j \in i + 1..k + 1 : l[j] \in {"\r", "["}
    <3>1. c \in {"\r", "[", " "}
      <4>1. 0 # 1
        OBVIOUS
      <4> QED
        BY <4>1, <2>1, <2>2, Zenon
    <3>2. /\ \A i \in 1..Len(l) : f[i] = l[i]
          /\ f[Len(l) + 1] = "\n"
      BY <1>1, LineType
    <3> HIDE DEF c, k, l, f
    <3>3. k # Len(l)
      BY <1>1, <3>1, <3>2
    <3>8. k \in 0..Len(l) /\ Len(l) \in Nat /\ Len(rest') = Len(l) - k
      BY <1>1
    <3>4. k + 1 \in 1..Len(l) /\ rest' # <<>>
      BY <3>3, <3>8
    <3>5. c = l[k + 1]
      BY <1>1, <3>2, <3>4
    <3>6. CASE c = " "
      <4>1. k + 1 \in 1..k + 1 /\ \A j \in (k + 1) + 1..k + 1 : FALSE
        BY <1>1
      <4> QED
        BY <3>4, <3>5, <3>6, <4>1
    <3>7. CASE c \in {"\r", "["}
      <4>1. p.spaces = 1
        BY <2>1, <2>2, <3>7
      <4>2. PICK i \in 1..k : /\ l[i] = " "
                              /\ \A j \in i + 1..k : l[j] \in {"\r", "["}
        BY <4>1, <1>8 DEF Within, k, l
      <4>3. i \in 1..k + 1 /\ \A j \in i + 1..k + 1 : j \in i + 1..k \/ j = k + 1
        BY <3>8
      <4>4. \A j \in i + 1..k + 1 : l[j] \in {"\r", "["}
        BY <3>5, <3>7, <4>2, <4>3
      <4> QED
        BY <3>4, <4>2, <4>3, <4>4
    <3> QED
      BY <3>1, <3>6, <3>7
  <2> HIDE DEF k, l, c
  <2> QED
    BY <2>1, <2>2, <1>5 DEF Within, Fits
<1>9. Within' \/ Explained'
  BY <1>0, <1>7, <1>8, NotQuiet DEF Buffered
<1> QED
  BY <1>3, <1>4, <1>6, <1>9 DEF Buffered

\* The file goes on.
LEMMA AddLineKeeps ==
  ASSUME NEW l \in Line
  PROVE  Buffered /\ AddLine(l) => Buffered'
<1> SUFFICES ASSUME Buffered, AddLine(l) PROVE Buffered'
  OBVIOUS
<1> DEFINE f == Whole(l)
<1>0. /\ rest = <<>> /\ Len(lines) < MaxLines /\ rest' = f /\ lines' = Append(lines, l)
      /\ p' = p /\ edits' = edits
  BY DEF AddLine, Whole
<1>1. f \in Seq(Char) /\ Len(f) = Len(l) + 1 /\ Len(l) \in Nat
  BY LineType
<1> HIDE DEF f
<1>2. lines \in Seq(Line) /\ Len(lines) \in Nat
  BY DEF Buffered, TypeOK
<1>3. /\ lines' \in Seq(Line) /\ Len(lines') = Len(lines) + 1 /\ lines' # <<>>
      /\ lines'[Len(lines) + 1] = l
      /\ \A i \in 1..Len(lines) : lines'[i] = lines[i]
      /\ DOMAIN lines = 1..Len(lines) /\ DOMAIN lines' = 1..Len(lines) + 1
  BY <1>0, <1>2
<1>4. Len(lines') <= MaxLines
  BY <1>0, <1>2, <1>3, ConfigFileAssumption
<1>5. TypeOK'
  BY <1>0, <1>1, <1>3, <1>4 DEF Buffered, TypeOK
<1>6. Last(lines') = l
  BY <1>3 DEF Last
<1>7. Taken' = 0
  <2>1. Taken' = Len(l) + 1 - Len(f)
    BY <1>0, <1>6 DEF Taken
  <2> QED
    BY <2>1, <1>1
<1>8. RestOfLine'
  <2>1. rest' = SubSeq(f, 1, Len(l) + 1)
    BY <1>0, <1>1
  <2>2. 0 \in 0..Len(l) /\ 0 + 1 = 1
    BY <1>1
  <2> QED
    BY <1>3, <1>6, <1>7, <2>1, <2>2 DEF RestOfLine, f
<1>9. Terminated(p')
  BY <1>0 DEF Buffered
<1>10. ASSUME Within PROVE Within'
  BY <1>0, <1>10 DEF Within
<1>11. ASSUME Explained PROVE Explained'
  <2>1. PICK i \in DOMAIN lines : Commented(lines[i]) \/ SpaceRun(lines[i])
    BY <1>11 DEF Explained
  <2>2. i \in DOMAIN lines' /\ lines'[i] = lines[i]
    BY <1>2, <1>3
  <2> QED
    BY <2>1, <2>2 DEF Explained
<1> QED
  BY <1>5, <1>8, <1>9, <1>10, <1>11 DEF Buffered

\* The table is edited.
LEMMA EditKeeps ==
  ASSUME NEW name \in Name, NEW key \in Key, NEW value \in Val
  PROVE  Buffered /\ Edit(name, key, value) => Buffered'
<1> SUFFICES ASSUME Buffered, Edit(name, key, value) PROVE Buffered'
  OBVIOUS
<1> DEFINE t == CreateEntry(p.table, name, key, value)
<1>0. /\ p' = [p EXCEPT !.table = t] /\ rest' = rest /\ lines' = lines
      /\ rest = <<>> /\ edits < MaxEdits /\ edits' = edits + 1
  BY DEF Edit
<1>1. p \in Parser /\ edits \in 0..MaxEdits
  BY DEF Buffered, TypeOK
<1>2. name \in Seq(Char) /\ key \in Seq(Char) /\ value \in Seq(Char)
  BY ConfigFileAssumption
<1>3. t \in Tables
  BY <1>1, <1>2, ParserFields, CreateEntryReplaces
<1> HIDE DEF t
<1>4. /\ p' \in Parser /\ p'.state = p.state /\ p'.buf = p.buf /\ p'.value = p.value
      /\ p'.spaces = p.spaces /\ p'.skipping = p.skipping /\ p'.size = p.size
      /\ p'.overflow = p.overflow
  BY <1>0, <1>1, <1>3 DEF Parser, Tables, Section, Entry
<1>5. edits' \in 0..MaxEdits
  BY <1>0, <1>1, ConfigFileAssumption
<1>6. TypeOK'
  BY <1>0, <1>4, <1>5 DEF Buffered, TypeOK
<1>7. Terminated(p')
  BY <1>4 DEF Buffered, Terminated
<1>8. RestOfLine'
  BY <1>0 DEF RestOfLine
<1>9. Within => Within'
  BY <1>0, <1>4 DEF Within
<1>10. Explained => Explained'
  BY <1>0 DEF Explained
<1> QED
  BY <1>6, <1>7, <1>8, <1>9, <1>10 DEF Buffered

-----------------------------------------------------------------------------
(* The theorems.                                                           *)

\* Where the reader is, its buffer is terminated as its strings need it, and
\* within its size while nothing in the file explains otherwise.
THEOREM BufferInvariance == Spec => []Buffered
<1>1. Init => Buffered
  <2> SUFFICES ASSUME Init PROVE Buffered
    OBVIOUS
  <2>1. p = ParserInit /\ rest = <<>> /\ lines = <<>> /\ edits = 0
    BY DEF Init
  <2>2. Chunk \in Nat
    BY TConfigAssumption
  <2>3. p \in Parser
    BY <2>1, <2>2 DEF ParserInit, Parser
  <2>4. TypeOK
    BY <2>1, <2>3, ConfigFileAssumption DEF TypeOK
  <2>5. p.state = "Section" /\ p.buf = <<>> /\ p.spaces = 0 /\ ~p.overflow /\ ~p.skipping
        /\ p.size = Chunk
    BY <2>1 DEF ParserInit
  <2>6. Terminated(p) /\ RestOfLine
    BY <2>1, <2>5 DEF Terminated, RestOfLine
  <2>7. Within
    BY <2>2, <2>5 DEF Within
  <2> QED
    BY <2>4, <2>6, <2>7 DEF Buffered
<1>2. Buffered /\ [Next]_vars => Buffered'
  <2>1. ASSUME Buffered, UNCHANGED vars PROVE Buffered'
    BY <2>1 DEF Buffered, TypeOK, RestOfLine, Taken, Terminated, Within, Explained, vars
  <2> QED
    BY <2>1, AddLineKeeps, GetcKeeps, EditKeeps DEF Next
<1> QED
  BY <1>1, <1>2, PTL DEF Spec

\* Types: every key, value and name the reader hands over is a string of the
\* file's characters, never one that runs over its terminator.
THEOREM TypeCorrect == Spec => []TypeOK
<1>1. Buffered => TypeOK
  BY DEF Buffered
<1> QED
  BY <1>1, BufferInvariance, PTL

\* Only a comment or a run of spaces makes the reader write past its buffer.
THEOREM OverflowsExplained == Spec => []OverflowExplained
<1>1. Buffered => OverflowExplained
  BY DEF Buffered, OverflowExplained, Within
<1> QED
  BY <1>1, BufferInvariance, PTL

\* ini_table_create_entry makes one entry readable and touches no other.
THEOREM EditsIndependent == Spec => EntriesIndependent
<1> DEFINE Same(n, k) ==
             /\ CheckEntry(p'.table, n, k) <=> CheckEntry(p.table, n, k)
             /\ CheckEntry(p.table, n, k) => GetEntry(p'.table, n, k) = GetEntry(p.table, n, k)
           Set(n, k, v) == CheckEntry(p'.table, n, k) /\ GetEntry(p'.table, n, k) = v
           Independent ==
             \A name \in Name, key \in Key, value \in Val :
               Edit(name, key, value) =>
                 \A n \in Name, k \in Key :
                   IF n = name /\ k = key THEN Set(n, k, value) ELSE Same(n, k)
<1>1. Buffered /\ [Next]_vars => [Independent]_vars
  <2> SUFFICES ASSUME Buffered, NEW name \in Name, NEW key \in Key, NEW value \in Val,
                      Edit(name, key, value), NEW n \in Name, NEW k \in Key
               PROVE  IF n = name /\ k = key THEN Set(n, k, value) ELSE Same(n, k)
    OBVIOUS
  <2>1. p \in Parser
    BY DEF Buffered, TypeOK
  <2>2. p.table \in Tables
    BY <2>1, ParserFields
  <2>3. name \in Seq(Char) /\ key \in Seq(Char) /\ value \in Seq(Char)
    BY ConfigFileAssumption
  <2>4. p'.table = CreateEntry(p.table, name, key, value)
    BY <2>1 DEF Edit, Parser
  <2> QED
    BY <2>2, <2>3, <2>4, EntryCreated
<1> QED
  BY <1>1, BufferInvariance, PTL DEF Spec, EntriesIndependent
=============================================================================

--------------------------- MODULE WrenMapProofs ---------------------------
(***************************************************************************)
(* Proofs about WrenMap: its table stays searchable and has room, it is a  *)
(* dictionary, and a loop over it is given each key that stays, once.      *)
(***************************************************************************)
EXTENDS WrenMap, NatLemmas, FiniteSetTheorems

-----------------------------------------------------------------------------
(* What makes a table searchable.                                          *)

Table(e, c) == c \in Nat /\ e \in [0..c - 1 -> Entry]

Filled(e, c) == {i \in 0..c - 1 : e[i].key # UNDEFINED}

Roomy(e, c) == \E i \in 0..c - 1 : e[i].key = UNDEFINED

\* The search for each key in the table reaches its entry.
Placed(e, c) ==
  \A i \in 0..c - 1 : e[i].key # UNDEFINED =>
    \E n \in 0..c - 1 : /\ Slot(e[i].key, c, n) = i
                        /\ \A m \in 0..n - 1 : ~Ends(e, c, e[i].key, m)

Has(e, c, k, v) == \E i \in 0..c - 1 : e[i] = [key |-> k, value |-> v]

\* A loop over the table has been given the entries up to its iterator.
LoopKeeps ==
  /\ cursor = NULL => stayed = {}
  /\ cursor # NULL =>
       \A k \in stayed : \E i \in 0..capacity - 1 :
         entries[i].key = k /\ (k \in visited <=> i <= cursor)

\* The inductive invariant.
IInv ==
  /\ TypeOK
  /\ RoomLeft
  /\ capacity = 0 \/ capacity >= MIN_CAPACITY
  /\ Placed(entries, capacity)
  /\ LoopKeeps

-----------------------------------------------------------------------------
(* Entries and slots.                                                      *)

LEMMA EntryKinds ==
  ASSUME NEW x \in Entry
  PROVE  /\ x.key \in Key \cup {UNDEFINED}
         /\ x.key # UNDEFINED => x.value \in Value /\ x = [key |-> x.key, value |-> x.value]
         /\ x.key = UNDEFINED => x = Empty \/ x = Tombstone
BY MapAssumption DEF Entry, Empty, Tombstone

LEMMA NewEntries ==
  /\ Empty \in Entry /\ Tombstone \in Entry /\ Empty # Tombstone
  /\ Empty.key = UNDEFINED /\ Tombstone.key = UNDEFINED
  /\ \A k \in Key, v \in Value :
       /\ [key |-> k, value |-> v] \in Entry
       /\ [key |-> k, value |-> v].key = k /\ k # UNDEFINED
       /\ [key |-> k, value |-> v].value = v
BY MapAssumption DEF Entry, Empty, Tombstone

LEMMA Hashes ==
  ASSUME TypeOK
  PROVE  \A k \in Key : hash[k] \in Nat
BY MapAssumption DEF TypeOK

LEMMA Slots ==
  ASSUME NEW k \in Key, hash[k] \in Nat, NEW c \in Nat \ {0}
  PROVE  /\ \A n \in Nat : Slot(k, c, n) \in 0..c - 1
         /\ \A i \in 0..c - 1 : \E n \in 0..c - 1 : Slot(k, c, n) = i
<1>1. \A n \in Nat : hash[k] + n \in Nat
  OBVIOUS
<1> QED
  BY <1>1, RemainderRange, RemainderOnto DEF Slot

\* What Min is good for.
LEMMA LeastMember ==
  ASSUME NEW S \in SUBSET Nat, S # {}
  PROVE  Min(S) \in S /\ \A n \in S : Min(S) <= n
BY LeastNatural DEF Min

-----------------------------------------------------------------------------
(* The search.                                                             *)

\* Where findEntry ends up: at an entry with the key or at one that may take it, and
\* no entry on the way there ends the search.  Its assertion does not fail.
LEMMA Search ==
  ASSUME NEW c \in Nat \ {0}, NEW e, Table(e, c), Roomy(e, c),
         NEW k \in Key, hash[k] \in Nat,
         NEW r, r = FindEntry(e, c, k)
  PROVE  /\ r.index \in 0..c - 1 /\ r.found \in BOOLEAN
         /\ \E n \in 0..c - 1 :
              /\ r.index = Slot(k, c, n)
              /\ \A m \in 0..n - 1 : ~Ends(e, c, k, m) /\ Slot(k, c, m) # r.index
         /\ r.found => e[r.index].key = k
         /\ ~r.found => /\ e[r.index].key = UNDEFINED
                        /\ \A n \in 0..c - 1 : Ends(e, c, k, n) =>
                             \E m \in 0..n : e[Slot(k, c, m)] = Empty
<1> DEFINE ends == {n \in 0..c - 1 : Ends(e, c, k, n)}
           last == IF ends = {} THEN c - 1 ELSE Min(ends)
           tombstones == {n \in 0..last : e[Slot(k, c, n)] = Tombstone}
           found == ends # {} /\ e[Slot(k, c, last)].key = k
           at == IF found \/ tombstones = {} THEN last ELSE Min(tombstones)
<1>1. r.found = found /\ r.index = Slot(k, c, at)
  BY DEF FindEntry
<1>2. /\ \A n \in Nat : Slot(k, c, n) \in 0..c - 1
      /\ \A i \in 0..c - 1 : \E n \in 0..c - 1 : Slot(k, c, n) = i
  BY Slots
<1>3. last \in 0..c - 1 /\ \A m \in 0..last - 1 : ~Ends(e, c, k, m)
  <2>1. CASE ends = {}
    BY <2>1
  <2>2. CASE ends # {}
    <3>1. ends \in SUBSET Nat
      OBVIOUS
    <3>2. Min(ends) \in ends /\ \A n \in ends : Min(ends) <= n
      BY <2>2, <3>1, LeastMember
    <3> QED
      BY <2>2, <3>2
  <2> QED
    BY <2>1, <2>2
<1>4. ends # {} => Ends(e, c, k, last)
  <2>1. ends \in SUBSET Nat
    OBVIOUS
  <2> QED
    BY <2>1, LeastMember
<1>5. ends = {} => \A m \in 0..c - 1 : ~Ends(e, c, k, m)
  OBVIOUS
<1> HIDE DEF ends
<1>6. tombstones # {} =>
        Min(tombstones) \in tombstones /\ \A n \in tombstones : Min(tombstones) <= n
  <2>1. tombstones \in SUBSET Nat
    BY <1>3
  <2> QED
    BY <2>1, LeastMember
<1>7. at \in 0..last
  BY <1>3, <1>6
<1>8. found => e[Slot(k, c, at)].key = k
  OBVIOUS
<1>9. ASSUME ~found
      PROVE  e[Slot(k, c, at)] = Empty \/ e[Slot(k, c, at)] = Tombstone
  <2>1. CASE tombstones # {}
    BY <1>6, <1>9, <2>1
  <2>2. CASE tombstones = {} /\ ends # {}
    BY <1>4, <1>9, <2>2 DEF Ends
  <2>3. CASE tombstones = {} /\ ends = {}
    <3>1. PICK i \in 0..c - 1 : e[i].key = UNDEFINED
      BY DEF Roomy
    <3>2. PICK n \in 0..c - 1 : Slot(k, c, n) = i
      BY <1>2
    <3>3. e[i] = Empty \/ e[i] = Tombstone
      BY <3>1, EntryKinds DEF Table
    <3>4. e[Slot(k, c, n)] # Tombstone
      BY <2>3
    <3>5. e[Slot(k, c, n)] # Empty
      BY <1>5, <2>3 DEF Ends
    <3> QED
      BY <3>2, <3>3, <3>4, <3>5
  <2> QED
    BY <2>1, <2>2, <2>3
<1>10. ASSUME NEW m \in 0..at - 1
       PROVE  ~Ends(e, c, k, m) /\ Slot(k, c, m) # Slot(k, c, at)
  <2>1. ~Ends(e, c, k, m)
    BY <1>3, <1>7
  <2>2. m \in 0..last /\ m < at
    BY <1>3, <1>7
  <2>3. CASE found
    BY <1>8, <2>1, <2>3 DEF Ends
  <2>4. CASE ~found /\ e[Slot(k, c, at)] = Empty
    BY <2>1, <2>4 DEF Ends
  <2>5. CASE ~found /\ e[Slot(k, c, at)] = Tombstone
    <3>1. at \in tombstones
      BY <1>7, <2>5
    <3>2. at = Min(tombstones)
      BY <2>5, <3>1
    <3>3. m \notin tombstones
      <4>1. ASSUME m \in tombstones
            PROVE  at <= m
        BY <1>6, <3>2, <4>1
      <4>2. at \in Nat /\ m \in Nat
        BY <1>3, <1>7
      <4> HIDE DEF at, tombstones
      <4> QED
        BY <2>2, <4>1, <4>2
    <3>4. e[Slot(k, c, m)] # Tombstone
      BY <2>2, <3>3
    <3> HIDE DEF at
    <3> QED
      BY <2>1, <2>5, <3>4
  <2> QED
    BY <1>9, <2>3, <2>4, <2>5
<1>11. ASSUME ~found, NEW n \in 0..c - 1, Ends(e, c, k, n)
       PROVE  \E m \in 0..n : e[Slot(k, c, m)] = Empty
  <2>1. ends # {}
    BY <1>11 DEF ends
  <2>2. e[Slot(k, c, last)] = Empty
    BY <1>4, <1>11, <2>1 DEF Ends
  <2>3. last \in 0..n
    BY <1>3, <1>11
  <2> HIDE DEF last
  <2> QED
    BY <2>2, <2>3
<1>12. at \in 0..c - 1 /\ Slot(k, c, at) \in 0..c - 1
  BY <1>2, <1>3, <1>7
<1> HIDE DEF at, found
<1>13. \E n \in 0..c - 1 :
         /\ r.index = Slot(k, c, n)
         /\ \A m \in 0..n - 1 : ~Ends(e, c, k, m) /\ Slot(k, c, m) # r.index
  BY <1>1, <1>10, <1>12
<1>14. r.found \in BOOLEAN
  BY <1>1 DEF found
<1>15. r.found => e[r.index].key = k
  BY <1>1, <1>8
<1>16. ~r.found => /\ e[r.index].key = UNDEFINED
                   /\ \A n \in 0..c - 1 : Ends(e, c, k, n) =>
                        \E m \in 0..n : e[Slot(k, c, m)] = Empty
  BY <1>1, <1>9, <1>11, NewEntries
<1> QED
  BY <1>1, <1>12, <1>13, <1>14, <1>15, <1>16

\* In a table that is searchable a key is found just where it is.
LEMMA FindsKey ==
  ASSUME NEW c \in Nat \ {0}, NEW e, Table(e, c), Roomy(e, c), Placed(e, c),
         NEW k \in Key, hash[k] \in Nat,
         NEW i \in 0..c - 1, e[i].key = k
  PROVE  FindEntry(e, c, k).found /\ FindEntry(e, c, k).index = i
<1> DEFINE r == FindEntry(e, c, k)
<1>1. k # UNDEFINED
  BY MapAssumption
<1>2. PICK n \in 0..c - 1 : Slot(k, c, n) = i /\ \A m \in 0..n - 1 : ~Ends(e, c, k, m)
  BY <1>1 DEF Placed
<1>3. Ends(e, c, k, n)
  BY <1>2 DEF Ends
<1> HIDE DEF r
<1>4. r = FindEntry(e, c, k)
  BY DEF r
<1>5. /\ \E m \in 0..c - 1 : r.index = Slot(k, c, m) /\ \A l \in 0..m - 1 : ~Ends(e, c, k, l)
      /\ r.found => e[r.index].key = k
      /\ ~r.found => \A l \in 0..c - 1 : Ends(e, c, k, l) =>
                       \E m \in 0..l : e[Slot(k, c, m)] = Empty
      /\ r.found \in BOOLEAN
  BY <1>4, Search
<1>6. r.found
  <2> SUFFICES ASSUME ~r.found PROVE FALSE
    BY <1>5
  <2>1. PICK m \in 0..n : e[Slot(k, c, m)] = Empty
    BY <1>3, <1>5
  <2>2. m = n
    BY <1>2, <2>1 DEF Ends
  <2> QED
    BY <1>1, <1>2, <2>1, <2>2, NewEntries
<1>7. PICK m \in 0..c - 1 : r.index = Slot(k, c, m) /\ \A l \in 0..m - 1 : ~Ends(e, c, k, l)
  BY <1>5
<1>8. Ends(e, c, k, m)
  BY <1>5, <1>6, <1>7 DEF Ends
<1>9. ~(m < n) /\ ~(n < m)
  BY <1>2, <1>3, <1>7, <1>8
<1> QED
  BY <1>2, <1>4, <1>6, <1>7, <1>9

\* ... so no key is in it twice.
LEMMA KeysDistinct ==
  ASSUME NEW c \in Nat \ {0}, NEW e, Table(e, c), Roomy(e, c), Placed(e, c),
         \A k \in Key : hash[k] \in Nat,
         NEW i \in 0..c - 1, NEW j \in 0..c - 1,
         e[i].key # UNDEFINED, e[i].key = e[j].key
  PROVE  i = j
<1>1. e[i].key \in Key
  BY EntryKinds DEF Table
<1> QED
  BY <1>1, FindsKey

-----------------------------------------------------------------------------
(* What the operations do to a searchable table.                           *)

\* t is e with an entry for k and v at `at', in the place of another one with this key or
\* with none, and is searchable.
Inserted(e, c, k, v, at, t) ==
  /\ Table(t, c) /\ Placed(t, c)
  /\ at \in 0..c - 1 /\ t[at] = [key |-> k, value |-> v]
  /\ \A i \in 0..c - 1 : i # at => t[i] = e[i] /\ e[i].key # k
  /\ e[at].key = IF FindEntry(e, c, k).found THEN k ELSE UNDEFINED

\* That is what insertEntry does.
LEMMA Insert ==
  ASSUME NEW c \in Nat \ {0}, NEW e, Table(e, c), Roomy(e, c), Placed(e, c),
         \A k \in Key : hash[k] \in Nat,
         NEW k \in Key, NEW v \in Value,
         NEW at, at = FindEntry(e, c, k).index,
         NEW t, t = InsertEntry(e, c, k, v)
  PROVE  Inserted(e, c, k, v, at, t)
<1> DEFINE r == FindEntry(e, c, k)
           x == [key |-> k, value |-> v]
<1>1. /\ r.index \in 0..c - 1 /\ r.found \in BOOLEAN
      /\ \E n \in 0..c - 1 :
           /\ r.index = Slot(k, c, n)
           /\ \A m \in 0..n - 1 : ~Ends(e, c, k, m) /\ Slot(k, c, m) # r.index
      /\ r.found => e[r.index].key = k
      /\ ~r.found => e[r.index].key = UNDEFINED
  BY Search
<1>2. \A i \in 0..c - 1 : e[i].key = k => r.index = i
  BY FindsKey
<1>3. t = [e EXCEPT ![at] = x] /\ r.index = at
  BY DEF InsertEntry
<1>4. x \in Entry /\ x.key = k /\ k # UNDEFINED /\ x # Empty
  BY NewEntries
<1> HIDE DEF r, x
<1>5. e \in [0..c - 1 -> Entry] /\ at \in 0..c - 1
  BY <1>1, <1>3 DEF Table
<1>6. t[at] = x /\ \A i \in 0..c - 1 : i # at => t[i] = e[i]
  BY <1>3, <1>5
<1>7. Table(t, c)
  BY <1>3, <1>4, <1>5 DEF Table
<1>8. e[at].key = k \/ e[at].key = UNDEFINED
  BY <1>1, <1>3
<1>9. ASSUME NEW i \in 0..c - 1, t[i].key # UNDEFINED
      PROVE  \E n \in 0..c - 1 : /\ Slot(t[i].key, c, n) = i
                                 /\ \A m \in 0..n - 1 : ~Ends(t, c, t[i].key, m)
  <2>1. CASE i = at
    <3>1. PICK n \in 0..c - 1 :
            /\ at = Slot(k, c, n)
            /\ \A m \in 0..n - 1 : ~Ends(e, c, k, m) /\ Slot(k, c, m) # at
      BY <1>1, <1>3
    <3>2. \A m \in 0..n - 1 : Slot(k, c, m) \in 0..c - 1
      BY Slots
    <3>3. \A m \in 0..n - 1 : ~Ends(t, c, k, m)
      BY <1>6, <3>1, <3>2 DEF Ends
    <3> QED
      BY <1>4, <1>6, <2>1, <3>1, <3>3
  <2>2. CASE i # at
    <3>1. t[i] = e[i] /\ e[i].key # UNDEFINED /\ e[i].key # k
      BY <1>2, <1>3, <1>6, <1>9, <2>2
    <3>2. e[i].key \in Key
      BY <1>5, <3>1, EntryKinds
    <3>3. PICK n \in 0..c - 1 : /\ Slot(e[i].key, c, n) = i
                                /\ \A m \in 0..n - 1 : ~Ends(e, c, e[i].key, m)
      BY <3>1 DEF Placed
    <3>4. \A m \in 0..n - 1 : Slot(e[i].key, c, m) \in 0..c - 1
      BY <3>2, Slots
    <3>5. \A m \in 0..n - 1 : ~Ends(t, c, e[i].key, m)
      BY <1>4, <1>6, <3>1, <3>3, <3>4 DEF Ends
    <3> QED
      BY <3>1, <3>3, <3>5
  <2> QED
    BY <2>1, <2>2
<1>10. Placed(t, c)
  BY <1>9 DEF Placed
<1> QED
  BY <1>1, <1>2, <1>3, <1>5, <1>6, <1>7, <1>10 DEF r, x, Inserted

\* t is e without the key at `at', and is searchable.
Buried(e, c, at, t) ==
  /\ Table(t, c) /\ Placed(t, c) /\ Roomy(t, c)
  /\ t[at].key = UNDEFINED
  /\ \A i \in 0..c - 1 : i # at => t[i] = e[i] /\ e[i].key # e[at].key

\* That is what a tombstone does.
LEMMA Bury ==
  ASSUME NEW c \in Nat \ {0}, NEW e, Table(e, c), Roomy(e, c), Placed(e, c),
         \A k \in Key : hash[k] \in Nat,
         NEW at \in 0..c - 1, e[at].key # UNDEFINED,
         NEW t, t = [e EXCEPT ![at] = Tombstone]
  PROVE  Buried(e, c, at, t)
<1>1. e \in [0..c - 1 -> Entry]
  BY DEF Table
<1>2. t[at] = Tombstone /\ \A i \in 0..c - 1 : i # at => t[i] = e[i]
  BY <1>1
<1>3. \A i \in 0..c - 1 : i # at => e[i].key # e[at].key
  BY KeysDistinct
<1>4. Table(t, c) /\ Roomy(t, c)
  BY <1>1, <1>2, NewEntries DEF Table, Roomy
<1>5. ASSUME NEW i \in 0..c - 1, t[i].key # UNDEFINED
      PROVE  \E n \in 0..c - 1 : /\ Slot(t[i].key, c, n) = i
                                 /\ \A m \in 0..n - 1 : ~Ends(t, c, t[i].key, m)
  <2>1. i # at /\ t[i] = e[i]
    BY <1>2, <1>5, NewEntries
  <2>2. e[i].key \in Key
    BY <1>1, <1>5, <2>1, EntryKinds
  <2>3. PICK n \in 0..c - 1 : /\ Slot(e[i].key, c, n) = i
                              /\ \A m \in 0..n - 1 : ~Ends(e, c, e[i].key, m)
    BY <1>5, <2>1 DEF Placed
  <2>4. \A m \in 0..n - 1 : Slot(e[i].key, c, m) \in 0..c - 1
    BY <2>2, Slots
  <2>5. \A m \in 0..n - 1 : ~Ends(t, c, e[i].key, m)
    BY <1>2, <1>5, <2>1, <2>3, <2>4, NewEntries DEF Ends
  <2> QED
    BY <2>1, <2>3, <2>5
<1>6. Placed(t, c)
  BY <1>5 DEF Placed
<1> QED
  BY <1>2, <1>3, <1>4, <1>6, NewEntries DEF Buried

\* The table of a map that has been created or emptied is searchable.
LEMMA NewTable ==
  ASSUME NEW c \in Nat, NEW e, e = [j \in 0..c - 1 |-> Empty]
  PROVE  Table(e, c) /\ Placed(e, c) /\ Filled(e, c) = {}
BY NewEntries DEF Table, Placed, Filled

LEMMA FilledFinite ==
  ASSUME NEW c \in Nat, NEW e
  PROVE  /\ IsFiniteSet(Filled(e, c))
         /\ Cardinality(Filled(e, c)) \in Nat
         /\ Cardinality(Filled(e, c)) < c => Roomy(e, c)
<1>1. IsFiniteSet(0..c - 1) /\ Cardinality(0..c - 1) = c
  BY FS_Interval
<1>2. Filled(e, c) \subseteq 0..c - 1
  BY DEF Filled
<1>3. IsFiniteSet(Filled(e, c)) /\ Cardinality(Filled(e, c)) \in Nat
  BY <1>1, <1>2, FS_Subset, FS_CardinalityType
<1>4. ~Roomy(e, c) => Filled(e, c) = 0..c - 1
  BY DEF Roomy, Filled
<1> QED
  BY <1>1, <1>3, <1>4

\* Looking for a key tells whether the table has it, and its value.
LEMMA Finding ==
  ASSUME NEW c \in Nat \ {0}, NEW e, Table(e, c), Roomy(e, c), Placed(e, c),
         NEW k \in Key, hash[k] \in Nat,
         NEW r, r = FindEntry(e, c, k)
  PROVE  /\ r.found \in BOOLEAN /\ r.index \in 0..c - 1
         /\ r.found => /\ e[r.index].key = k /\ e[r.index].value \in Value
                       /\ Has(e, c, k, e[r.index].value)
         /\ \A v : Has(e, c, k, v) => r.found /\ e[r.index].value = v
<1>1. /\ r.found \in BOOLEAN /\ r.index \in 0..c - 1
      /\ r.found => e[r.index].key = k
  BY Search
<1>2. ASSUME r.found
      PROVE  e[r.index].value \in Value /\ Has(e, c, k, e[r.index].value)
  <2>1. e[r.index] \in Entry /\ k # UNDEFINED /\ e[r.index].key = k
    BY <1>1, <1>2, MapAssumption DEF Table
  <2>2. e[r.index].value \in Value /\ e[r.index] = [key |-> k, value |-> e[r.index].value]
    BY <2>1, EntryKinds
  <2> QED
    BY <1>1, <2>2 DEF Has
<1>3. ASSUME NEW v, Has(e, c, k, v)
      PROVE  r.found /\ e[r.index].value = v
  <2>1. PICK i \in 0..c - 1 : e[i] = [key |-> k, value |-> v]
    BY <1>3 DEF Has
  <2>2. e[i].key = k /\ e[i].value = v
    BY <2>1
  <2> QED
    BY <2>2, FindsKey
<1> QED
  BY <1>1, <1>2, <1>3

\* t has the value v for k, and otherwise what e has, at the places where e has it.
Written(e, c, k, v, t) ==
  /\ Table(t, c) /\ Placed(t, c)
  /\ \A y \in Key : \A z : Has(t, c, y, z) <=> IF y = k THEN z = v ELSE Has(e, c, y, z)
  /\ Cardinality(Filled(t, c)) =
       IF \E z : Has(e, c, k, z) THEN Cardinality(Filled(e, c)) ELSE Cardinality(Filled(e, c)) + 1
  /\ \A i \in 0..c - 1 : e[i].key # UNDEFINED => t[i].key = e[i].key

\* That, too, is what insertEntry does.
LEMMA InsertEffect ==
  ASSUME NEW c \in Nat \ {0}, NEW e, Table(e, c), Roomy(e, c), Placed(e, c),
         \A k \in Key : hash[k] \in Nat,
         NEW k \in Key, NEW v \in Value,
         NEW t, t = InsertEntry(e, c, k, v)
  PROVE  Written(e, c, k, v, t)
<1> DEFINE r == FindEntry(e, c, k)
           at == FindEntry(e, c, k).index
<1>i. Inserted(e, c, k, v, at, t)
  BY Insert
<1>1. /\ Table(t, c) /\ Placed(t, c)
      /\ at \in 0..c - 1 /\ t[at] = [key |-> k, value |-> v]
      /\ \A i \in 0..c - 1 : i # at => t[i] = e[i] /\ e[i].key # k
      /\ e[at].key = IF r.found THEN k ELSE UNDEFINED
  BY <1>i DEF Inserted
<1>2. r.found <=> \E z : Has(e, c, k, z)
  BY Finding
<1> HIDE DEF r, at
<1>3. k # UNDEFINED /\ t[at].key = k
  BY <1>1, MapAssumption
<1>4. Cardinality(Filled(t, c)) =
        IF r.found THEN Cardinality(Filled(e, c)) ELSE Cardinality(Filled(e, c)) + 1
  <2>1. CASE r.found
    <3>1. Filled(t, c) = Filled(e, c)
      BY <1>1, <1>3, <2>1 DEF Filled
    <3> QED
      BY <2>1, <3>1
  <2>2. CASE ~r.found
    <3>1. Filled(t, c) = Filled(e, c) \cup {at} /\ at \notin Filled(e, c)
      BY <1>1, <1>3, <2>2 DEF Filled
    <3>2. IsFiniteSet(Filled(e, c))
      BY FilledFinite
    <3> QED
      BY <2>2, <3>1, <3>2, FS_AddElement
  <2> QED
    BY <2>1, <2>2
<1>5. ASSUME NEW y \in Key, NEW z
      PROVE  Has(t, c, y, z) <=> IF y = k THEN z = v ELSE Has(e, c, y, z)
  <2> DEFINE x == [key |-> y, value |-> z]
  <2>1. /\ Has(t, c, y, z) <=> \E i \in 0..c - 1 : t[i] = x
        /\ Has(e, c, y, z) <=> \E i \in 0..c - 1 : e[i] = x
    BY DEF Has
  <2>2. /\ x.key = y /\ y # UNDEFINED
        /\ t[at] = x <=> y = k /\ z = v
    BY <1>1, MapAssumption
  <2> HIDE DEF x
  <2>3. CASE y = k
    <3>1. \A i \in 0..c - 1 : i # at => t[i] # x
      BY <1>1, <2>2, <2>3
    <3> QED
      BY <1>1, <2>1, <2>2, <2>3, <3>1
  <2>4. CASE y # k
    <3>1. e[at] # x /\ t[at] # x
      BY <1>1, <2>2, <2>4
    <3> QED
      BY <1>1, <2>1, <2>4, <3>1
  <2> QED
    BY <2>3, <2>4
<1>6. ASSUME NEW i \in 0..c - 1, e[i].key # UNDEFINED
      PROVE  t[i].key = e[i].key
  BY <1>1, <1>3, <1>6
<1> QED
  BY <1>1, <1>2, <1>4, <1>5, <1>6 DEF Written

\* The entries that the new table has when i of the old one have been looked at.
Moved(e, c, i, t, new) ==
  /\ Table(t, new) /\ Placed(t, new)
  /\ \A k \in Key : \A v : Has(t, new, k, v) <=> Has(e, i, k, v)
  /\ Cardinality(Filled(t, new)) = Cardinality(Filled(e, i))

\* One turn of the loop of resizeMap.
LEMMA MoveOne ==
  ASSUME NEW c \in Nat, NEW e, Table(e, c), Roomy(e, c), Placed(e, c),
         \A k \in Key : hash[k] \in Nat,
         NEW new \in Nat \ {0}, Cardinality(Filled(e, c)) < new,
         NEW i \in 0..c - 1, e[i].key # UNDEFINED,
         NEW t, Moved(e, c, i, t, new),
         NEW u, u = InsertEntry(t, new, e[i].key, e[i].value)
  PROVE  Moved(e, c, i + 1, u, new)
<1> DEFINE k == e[i].key
           v == e[i].value
<1>1. k \in Key /\ v \in Value /\ e[i] = [key |-> k, value |-> v] /\ c \in Nat \ {0}
  BY EntryKinds DEF Table
<1>2. \A j \in 0..c - 1 : e[j].key = k => j = i
  BY KeysDistinct
<1> HIDE DEF k, v
<1>3. /\ Table(t, new) /\ Placed(t, new)
      /\ \A y \in Key : \A z : Has(t, new, y, z) <=> Has(e, i, y, z)
      /\ Cardinality(Filled(t, new)) = Cardinality(Filled(e, i))
  BY DEF Moved
<1>4. /\ Filled(e, i) \subseteq Filled(e, c) /\ i \in Nat /\ i \notin Filled(e, i)
      /\ Filled(e, i + 1) = Filled(e, i) \cup {i}
  BY DEF Filled
<1>5. Roomy(t, new)
  <2>1. Cardinality(Filled(e, i)) <= Cardinality(Filled(e, c))
    BY <1>4, FilledFinite, FS_Subset
  <2> QED
    BY <1>3, <1>4, <2>1, FilledFinite
<1>6. u = InsertEntry(t, new, k, v)
  BY DEF k, v
<1>7. ~\E z : Has(t, new, k, z)
  <2> SUFFICES ASSUME NEW z, Has(t, new, k, z) PROVE FALSE
    OBVIOUS
  <2>1. PICK j \in 0..i - 1 : e[j] = [key |-> k, value |-> z]
    BY <1>1, <1>3 DEF Has
  <2> QED
    BY <1>2, <2>1
<1>w. Written(t, new, k, v, u)
  BY <1>1, <1>3, <1>5, <1>6, InsertEffect
<1>8. /\ Table(u, new) /\ Placed(u, new)
      /\ \A y \in Key : \A z : Has(u, new, y, z) <=> IF y = k THEN z = v ELSE Has(t, new, y, z)
      /\ Cardinality(Filled(u, new)) = Cardinality(Filled(t, new)) + 1
  BY <1>7, <1>w DEF Written
<1>9. ASSUME NEW y \in Key, NEW z
      PROVE  Has(u, new, y, z) <=> Has(e, i + 1, y, z)
  <2> DEFINE x == [key |-> y, value |-> z]
  <2>1. e[i] = x <=> y = k /\ z = v
    BY <1>1
  <2>2. Has(e, i + 1, y, z) <=> Has(e, i, y, z) \/ e[i] = x
    <3> HIDE DEF x
    <3>1. Has(e, i + 1, y, z) <=> \E j \in 0..i : e[j] = x
      BY DEF Has, x
    <3>2. Has(e, i, y, z) <=> \E j \in 0..i - 1 : e[j] = x
      BY DEF Has, x
    <3> QED
      BY <3>1, <3>2
  <2> HIDE DEF x
  <2> QED
    BY <1>3, <1>7, <1>8, <2>1, <2>2
<1>10. Cardinality(Filled(e, i + 1)) = Cardinality(Filled(e, i)) + 1
  BY <1>4, FilledFinite, FS_AddElement
<1> QED
  BY <1>3, <1>8, <1>9, <1>10 DEF Moved

\* resizeMap: the new table is searchable and has just the entries of the old one.
LEMMA Resizing ==
  ASSUME NEW c \in Nat, NEW e, Table(e, c), c # 0 => Roomy(e, c), Placed(e, c),
         \A k \in Key : hash[k] \in Nat,
         NEW new \in Nat \ {0}, Cardinality(Filled(e, c)) < new
  PROVE  Moved(e, c, c, Resize(e, c, new), new)
<1> DEFINE none == [j \in 0..new - 1 |-> Empty]
           T == [0..new - 1 -> Entry]
           next(t, i) == IF e[i - 1].key = UNDEFINED THEN t
                         ELSE InsertEntry(t, new, e[i - 1].key, e[i - 1].value)
           step == [i \in 1..c |-> [t \in T |-> next(t, i)]]
           Is(f) == f = [i \in 0..c |-> IF i = 0 THEN none ELSE next(f[i - 1], i)]
           moved == CHOOSE f : Is(f)
<1>1. none \in T
  BY NewEntries
<1>2. step \in [1..c -> [T -> T]]
  <2> SUFFICES ASSUME NEW t \in T, NEW i \in 1..c PROVE next(t, i) \in T
    OBVIOUS
  <2>1. ASSUME e[i - 1].key # UNDEFINED
        PROVE  [key |-> e[i - 1].key, value |-> e[i - 1].value] \in Entry
    <3>1. e[i - 1] \in Entry
      BY DEF Table
    <3> QED
      BY <2>1, <3>1, EntryKinds
  <2> QED
    BY <2>1 DEF InsertEntry
<1>3. PICK f \in [0..c -> T] : Recursion(f, c, none, step)
  <2> HIDE DEF none, T, step
  <2> QED
    BY <1>1, <1>2, RecursionExists
<1>4. f[0] = none /\ \A i \in 1..c : f[i] = next(f[i - 1], i)
  <2>1. f[0] = none
    BY <1>3 DEF Recursion
  <2> SUFFICES ASSUME NEW i \in 1..c PROVE f[i] = next(f[i - 1], i)
    BY <2>1
  <2>2. f[i - 1] \in T
    BY <1>3
  <2>3. f[i] = step[i][f[i - 1]]
    BY <1>3 DEF Recursion
  <2> HIDE DEF T, next
  <2> QED
    BY <2>2, <2>3
<1>5. Is(f)
  <2> HIDE DEF T, next, none
  <2> QED
    BY <1>3, <1>4
<1>6. Is(moved)
  <2> HIDE DEF Is
  <2> QED
    BY <1>5
<1>7. moved[0] = none /\ \A i \in 1..c : moved[i] = next(moved[i - 1], i)
  <2> HIDE DEF moved, next, none
  <2> QED
    BY <1>6
<1>8. Resize(e, c, new) = moved[c]
  BY DEF Resize
<1> HIDE DEF moved
<1>9. Moved(e, c, 0, moved[0], new)
  <2>1. Table(none, new) /\ Placed(none, new) /\ Filled(none, new) = {}
    BY NewTable
  <2>2. Filled(e, 0) = {} /\ \A k, v : ~Has(e, 0, k, v)
    BY DEF Filled, Has
  <2>3. \A k \in Key : \A v : ~Has(none, new, k, v)
    BY MapAssumption DEF Has, Empty
  <2> QED
    BY <1>7, <2>1, <2>2, <2>3 DEF Moved
<1>10. ASSUME NEW i \in 0..c, i < c, Moved(e, c, i, moved[i], new)
       PROVE  Moved(e, c, i + 1, moved[i + 1], new)
  <2>1. i + 1 \in 1..c /\ (i + 1) - 1 = i /\ i \in 0..c - 1
    BY <1>10
  <2>2. moved[i + 1] = next(moved[i], i + 1)
    BY <1>7, <2>1
  <2>3. CASE e[i].key = UNDEFINED
    <3>1. moved[i + 1] = moved[i]
      BY <2>1, <2>2, <2>3
    <3>2. Filled(e, i + 1) = Filled(e, i)
      BY <2>1, <2>3 DEF Filled
    <3>3. \A k \in Key : \A v : Has(e, i + 1, k, v) <=> Has(e, i, k, v)
      BY <2>1, <2>3, MapAssumption DEF Has
    <3> QED
      BY <1>10, <3>1, <3>2, <3>3 DEF Moved
  <2>4. CASE e[i].key # UNDEFINED
    <3>1. moved[i + 1] = InsertEntry(moved[i], new, e[i].key, e[i].value)
      BY <2>1, <2>2, <2>4
    <3>2. c # 0
      BY <2>1
    <3> QED
      BY <1>10, <2>1, <2>4, <3>1, <3>2, MoveOne
  <2> QED
    BY <2>3, <2>4
<1> DEFINE S == {i \in 0..c : Moved(e, c, i, moved[i], new)}
<1>11. 0 \in S /\ \A i \in 0..c : i < c /\ i \in S => i + 1 \in S
  BY <1>9, <1>10
<1> HIDE DEF S
<1>12. 0..c \subseteq S
  BY <1>11, IntervalInduction
<1> QED
  BY <1>8, <1>12 DEF S
-----------------------------------------------------------------------------
(* How full a table gets.                                                  *)

LEMMA Larger ==
  ASSUME NEW a \in Nat, NEW b \in Nat
  PROVE  Max({a, b}) = IF a >= b THEN a ELSE b
BY DEF Max

\* A product is at least another one if its factors are.
LEMMA Products ==
  ASSUME NEW a \in Nat, NEW b \in Nat, NEW l \in Nat, a <= b
  PROVE  a * l \in Nat /\ b * l \in Nat /\ a * l <= b * l
OBVIOUS

\* A map that is within its load has an entry without a key.
LEMMA LoadLeavesRoom ==
  ASSUME NEW c \in Nat, NEW n \in Nat, n * 100 <= c * MAP_LOAD_PERCENT, c # 0
  PROVE  n < c
<1>1. MAP_LOAD_PERCENT \in 1..99
  BY MapAssumption
<1>2. c * MAP_LOAD_PERCENT <= c * 99
  BY <1>1
<1> QED
  BY <1>1, <1>2

\* One more key fits into the larger table that wrenMapSet makes, and into the one it
\* leaves alone;
LEMMA Growth ==
  ASSUME NEW c \in Nat, NEW n \in Nat, n * 100 <= c * MAP_LOAD_PERCENT,
         c = 0 \/ c >= MIN_CAPACITY,
         NEW new, new = Max({c * GROW_FACTOR, MIN_CAPACITY})
  PROVE  /\ new \in Nat \ {0} /\ new # c /\ new >= MIN_CAPACITY
         /\ (n + 1) * 100 <= new * MAP_LOAD_PERCENT
         /\ ~Crowded(n, c) => c # 0 /\ (n + 1) * 100 <= c * MAP_LOAD_PERCENT
<1> DEFINE L == MAP_LOAD_PERCENT
           G == GROW_FACTOR
           M == MIN_CAPACITY
<1>1. /\ L \in 1..99 /\ G \in Nat /\ G >= 2 /\ M \in Nat \ {0} /\ M * L >= 100
      /\ n * 100 <= c * L /\ (c = 0 \/ c >= M)
      /\ new = Max({c * G, M})
  BY MapAssumption
<1>2. Crowded(n, c) <=> n + 1 > (c * L) \div 100
  BY DEF Crowded
<1> HIDE DEF L, G, M
<1>3. c * G \in Nat /\ c * 2 <= c * G
  BY <1>1
<1>4. new = IF c * G >= M THEN c * G ELSE M
  BY <1>1, <1>3, Larger
<1>5. new \in Nat \ {0} /\ new # c /\ new >= M /\ new >= c * 2
  BY <1>1, <1>3, <1>4
<1>6. (n + 1) * 100 <= new * L
  <2>1. CASE c = 0
    <3>1. n = 0
      BY <1>1, <2>1
    <3>2. M * L <= new * L
      BY <1>1, <1>5, Products
    <3> QED
      BY <1>1, <1>5, <3>1, <3>2
  <2>2. CASE c >= M
    <3>1. M * L <= c * L /\ c * L \in Nat
      BY <1>1, <2>2, Products
    <3>2. (c * 2) * L <= new * L /\ new * L \in Nat
      BY <1>1, <1>5, Products
    <3>3. (c * 2) * L = c * L + c * L
      BY <1>1
    <3> QED
      BY <1>1, <3>1, <3>2, <3>3
  <2> QED
    BY <1>1, <2>1, <2>2
<1>7. ASSUME ~Crowded(n, c)
      PROVE  c # 0 /\ (n + 1) * 100 <= c * L
  <2>1. c * L \in Nat
    BY <1>1
  <2>2. n + 1 <= (c * L) \div 100
    BY <1>2, <1>7, <2>1
  <2>3. (n + 1) * 100 <= c * L
    BY <2>1, <2>2
  <2>4. CASE c = 0
    <3>1. c * L = 0
      BY <1>1, <2>4
    <3> QED
      BY <2>3, <3>1
  <2> QED
    BY <2>3, <2>4
<1> QED
  BY <1>5, <1>6, <1>7 DEF L, M

\* and the keys that are left fit into the smaller one wrenMapRemoveKey makes.
LEMMA Shrinking ==
  ASSUME NEW c \in Nat, NEW n \in Nat, Sparse(n, c),
         NEW new, new = Max({c \div GROW_FACTOR, MIN_CAPACITY})
  PROVE  /\ new \in Nat \ {0} /\ new # c /\ new >= MIN_CAPACITY
         /\ n * 100 <= new * MAP_LOAD_PERCENT
<1> DEFINE L == MAP_LOAD_PERCENT
           G == GROW_FACTOR
           M == MIN_CAPACITY
           q == c \div G
<1>1. /\ L \in 1..99 /\ G \in Nat /\ G >= 2 /\ M \in Nat \ {0}
      /\ c > M /\ n < (q * L) \div 100
      /\ new = Max({q, M})
  BY MapAssumption DEF Sparse
<1> HIDE DEF L, G, M
<1>2. q \in Nat /\ q < c
  BY <1>1
<1> HIDE DEF q
<1>3. new = IF q >= M THEN q ELSE M
  BY <1>1, <1>2, Larger
<1>4. new \in Nat \ {0} /\ new # c /\ new >= M /\ q <= new
  BY <1>1, <1>2, <1>3
<1>5. q * L \in Nat /\ new * L \in Nat /\ q * L <= new * L
  BY <1>1, <1>2, <1>4, Products
<1>6. n * 100 <= q * L
  BY <1>1, <1>5
<1> QED
  BY <1>4, <1>5, <1>6 DEF L, M

-----------------------------------------------------------------------------
(* The primitives.                                                         *)

\* What holds of the table between two operations, when it has n keys.
Sound(e, c, n) ==
  /\ Table(e, c) /\ Placed(e, c)
  /\ c = 0 \/ c >= MIN_CAPACITY
  /\ n = Cardinality(Filled(e, c)) /\ n * 100 <= c * MAP_LOAD_PERCENT

\* No entry of the table e but those in gone has moved in f.
Stays(e, f, c, gone) ==
  \A i \in 0..c - 1 : e[i].key \notin {UNDEFINED} \cup gone => f[i].key = e[i].key

\* f is a table of m keys with the value v for k, and with what e has for other keys.
Sets(e, c, k, v, f, d, m) ==
  /\ Sound(f, d, m)
  /\ \A y \in Key : \A z : Has(f, d, y, z) <=> IF y = k THEN z = v ELSE Has(e, c, y, z)
  /\ d = c => Stays(e, f, c, {})

\* f is a table of m keys with what e has for other keys than k.
Removes(e, c, k, f, d, m) ==
  /\ Sound(f, d, m)
  /\ \A y \in Key : \A z : Has(f, d, y, z) <=> y # k /\ Has(e, c, y, z)
  /\ d = c => Stays(e, f, c, {k})

LEMMA SoundHasRoom ==
  ASSUME NEW e, NEW c, NEW n, Sound(e, c, n)
  PROVE  /\ n \in Nat /\ n <= c /\ c \in Nat
         /\ c # 0 => Roomy(e, c)
<1>1. c \in Nat /\ n = Cardinality(Filled(e, c)) /\ n * 100 <= c * MAP_LOAD_PERCENT
  BY DEF Sound, Table
<1>2. n \in Nat
  BY <1>1, FilledFinite
<1>3. CASE c = 0
  <2>1. Filled(e, c) = {}
    BY <1>3 DEF Filled
  <2> QED
    BY <1>1, <1>3, <2>1, FS_EmptySet
<1>4. CASE c # 0
  <2>1. n < c
    BY <1>1, <1>2, <1>4, LoadLeavesRoom
  <2> QED
    BY <1>1, <1>2, <2>1, FilledFinite
<1> QED
  BY <1>3, <1>4

\* The table of a new or discarded map.
LEMMA NoTable ==
  Sound(<<>>, 0, 0) /\ \A k, v : ~Has(<<>>, 0, k, v)
<1>1. Filled(<<>>, 0) = {}
  BY DEF Filled
<1>2. Cardinality(Filled(<<>>, 0)) = 0
  BY <1>1, FS_EmptySet
<1>3. Table(<<>>, 0) /\ Placed(<<>>, 0) /\ \A k, v : ~Has(<<>>, 0, k, v)
  BY DEF Table, Placed, Has
<1>4. 0 * MAP_LOAD_PERCENT = 0
  BY MapAssumption
<1> QED
  BY <1>2, <1>3, <1>4 DEF Sound

\* wrenMapSet, for a key that the map has (found) or not.
LEMMA SetTable ==
  ASSUME NEW e, NEW c, NEW n, Sound(e, c, n), \A k \in Key : hash[k] \in Nat,
         NEW k \in Key, NEW v \in Value,
         NEW found, found <=> \E z : Has(e, c, k, z),
         NEW new, new = IF Crowded(n, c) THEN Max({c * GROW_FACTOR, MIN_CAPACITY}) ELSE c,
         NEW room, room = IF Crowded(n, c) THEN Resize(e, c, new) ELSE e,
         NEW t, t = InsertEntry(room, new, k, v)
  PROVE  Sets(e, c, k, v, t, new, IF found THEN n ELSE n + 1)
<1>1. /\ n \in Nat /\ c \in Nat /\ (c # 0 => Roomy(e, c))
      /\ Table(e, c) /\ Placed(e, c) /\ (c = 0 \/ c >= MIN_CAPACITY)
      /\ n = Cardinality(Filled(e, c)) /\ n * 100 <= c * MAP_LOAD_PERCENT
  BY SoundHasRoom DEF Sound
<1>2. /\ new \in Nat \ {0} /\ new >= MIN_CAPACITY
      /\ (n + 1) * 100 <= new * MAP_LOAD_PERCENT
      /\ Crowded(n, c) => new # c
  BY <1>1, Growth
<1>n. n * 100 <= new * MAP_LOAD_PERCENT /\ n < new
  <2>1. new * MAP_LOAD_PERCENT \in Nat
    BY <1>2, MapAssumption
  <2>2. n * 100 <= new * MAP_LOAD_PERCENT
    BY <1>1, <1>2, <2>1
  <2> QED
    BY <1>1, <1>2, <2>2, LoadLeavesRoom
<1>3. /\ Table(room, new) /\ Placed(room, new)
      /\ \A y \in Key : \A z : Has(room, new, y, z) <=> Has(e, c, y, z)
      /\ Cardinality(Filled(room, new)) = n
  <2>1. CASE Crowded(n, c)
    <3>1. Moved(e, c, c, Resize(e, c, new), new)
      BY <1>1, <1>2, <1>n, Resizing
    <3> QED
      BY <1>1, <2>1, <3>1 DEF Moved
  <2>2. CASE ~Crowded(n, c)
    BY <1>1, <2>2
  <2> QED
    BY <2>1, <2>2
<1>4. Roomy(room, new)
  BY <1>2, <1>n, <1>3, FilledFinite
<1>5. /\ Table(t, new) /\ Placed(t, new)
      /\ \A y \in Key : \A z : Has(t, new, y, z) <=> IF y = k THEN z = v ELSE Has(room, new, y, z)
      /\ Cardinality(Filled(t, new)) = IF \E z : Has(room, new, k, z) THEN n ELSE n + 1
      /\ \A i \in 0..new - 1 : room[i].key # UNDEFINED => t[i].key = room[i].key
  <2>1. new \in Nat \ {0} /\ Table(room, new) /\ Placed(room, new) /\ Roomy(room, new)
    BY <1>2, <1>3, <1>4
  <2>2. Written(room, new, k, v, t)
    BY <2>1, InsertEffect
  <2> QED
    BY <1>3, <2>2 DEF Written
<1>6. new = c => room = e
  BY <1>2
<1>7. (IF found THEN n ELSE n + 1) * 100 <= new * MAP_LOAD_PERCENT
  BY <1>1, <1>2, <1>n
<1>8. Cardinality(Filled(t, new)) = IF found THEN n ELSE n + 1
  BY <1>3, <1>5
<1>9. Sound(t, new, IF found THEN n ELSE n + 1)
  BY <1>2, <1>5, <1>7, <1>8 DEF Sound
<1>10. \A y \in Key : \A z : Has(t, new, y, z) <=> IF y = k THEN z = v ELSE Has(e, c, y, z)
  BY <1>3, <1>5
<1>11. new = c => Stays(e, t, c, {})
  BY <1>5, <1>6 DEF Stays
<1> QED
  BY <1>9, <1>10, <1>11 DEF Sets

\* wrenMapRemoveKey, for a key that the map has.
LEMMA RemoveTable ==
  ASSUME NEW e, NEW c, NEW n, Sound(e, c, n), c # 0, \A k \in Key : hash[k] \in Nat,
         NEW k \in Key, NEW r, r = FindEntry(e, c, k), r.found,
         NEW left, left = [e EXCEPT ![r.index] = Tombstone]
  PROVE  /\ n >= 1
         /\ n = 1 => \A y \in Key \ {k} : \A z : ~Has(e, c, y, z)
         /\ Removes(e, c, k, left, c, n - 1)
<1>1. c \in Nat \ {0} /\ Roomy(e, c) /\ Table(e, c) /\ Placed(e, c)
  BY SoundHasRoom DEF Sound
<1>n. /\ n \in Nat /\ c >= MIN_CAPACITY
      /\ n = Cardinality(Filled(e, c)) /\ n * 100 <= c * MAP_LOAD_PERCENT
  BY SoundHasRoom DEF Sound
<1> DEFINE at == r.index
<1>2. at \in 0..c - 1 /\ e[at].key = k /\ k # UNDEFINED /\ left = [e EXCEPT ![at] = Tombstone]
  BY <1>1, Finding, MapAssumption
<1> HIDE DEF at
<1>3. /\ Table(left, c) /\ Placed(left, c)
      /\ left[at].key = UNDEFINED
      /\ \A i \in 0..c - 1 : i # at => left[i] = e[i] /\ e[i].key # k
  <2>1. Buried(e, c, at, left)
    BY <1>1, <1>2, Bury
  <2> QED
    BY <1>2, <2>1 DEF Buried
<1>4. /\ Filled(e, c) = Filled(left, c) \cup {at} /\ at \notin Filled(left, c)
  BY <1>2, <1>3 DEF Filled
<1>5. /\ Cardinality(Filled(left, c)) \in Nat
      /\ n = Cardinality(Filled(left, c)) + 1
  <2>1. IsFiniteSet(Filled(left, c)) /\ Cardinality(Filled(left, c)) \in Nat
    BY <1>1, FilledFinite
  <2>2. Cardinality(Filled(left, c) \cup {at}) = Cardinality(Filled(left, c)) + 1
    BY <1>4, <2>1, FS_AddElement
  <2> QED
    BY <1>n, <1>4, <2>1, <2>2
<1>6. (n - 1) * 100 <= c * MAP_LOAD_PERCENT
  BY <1>1, <1>n, <1>5, MapAssumption
<1>7. ASSUME NEW y \in Key, NEW z
      PROVE  Has(left, c, y, z) <=> y # k /\ Has(e, c, y, z)
  <2> DEFINE x == [key |-> y, value |-> z]
  <2>1. /\ Has(left, c, y, z) <=> \E i \in 0..c - 1 : left[i] = x
        /\ Has(e, c, y, z) <=> \E i \in 0..c - 1 : e[i] = x
    BY DEF Has
  <2>2. x.key = y /\ y # UNDEFINED
    BY MapAssumption
  <2> HIDE DEF x
  <2>3. left[at] # x /\ (y # k => e[at] # x)
    BY <1>2, <1>3, <2>2
  <2>4. y = k => \A i \in 0..c - 1 : left[i] # x
    BY <1>3, <2>2, <2>3
  <2> QED
    BY <1>2, <1>3, <2>1, <2>3, <2>4
<1>8. ASSUME n = 1, NEW y \in Key \ {k}, NEW z
      PROVE  ~Has(e, c, y, z)
  <2>1. Filled(left, c) = {}
    <3>1. IsFiniteSet(Filled(left, c)) /\ Cardinality(Filled(left, c)) = 0
      BY <1>1, <1>5, <1>8, FilledFinite
    <3> QED
      BY <3>1, FS_EmptySet
  <2>2. ~Has(left, c, y, z)
    BY <2>1, MapAssumption DEF Has, Filled
  <2> QED
    BY <1>7, <2>2
<1>9. Sound(left, c, n - 1)
  <2>1. n - 1 = Cardinality(Filled(left, c))
    BY <1>5
  <2> QED
    BY <1>n, <1>3, <1>6, <2>1 DEF Sound
<1>10. Stays(e, left, c, {k})
  BY <1>2, <1>3 DEF Stays
<1>11. n >= 1
  BY <1>5
<1> QED
  BY <1>7, <1>8, <1>9, <1>10, <1>11 DEF Removes

\* resizeMap as wrenMapRemoveKey uses it.
LEMMA ShrinkTable ==
  ASSUME NEW e, NEW c, NEW n, Sound(e, c, n), \A k \in Key : hash[k] \in Nat, Sparse(n, c),
         NEW new, new = Max({c \div GROW_FACTOR, MIN_CAPACITY})
  PROVE  /\ Sound(Resize(e, c, new), new, n) /\ new # c
         /\ \A y \in Key : \A z : Has(Resize(e, c, new), new, y, z) <=> Has(e, c, y, z)
<1>1. /\ n \in Nat /\ c \in Nat /\ (c # 0 => Roomy(e, c))
      /\ Table(e, c) /\ Placed(e, c) /\ n = Cardinality(Filled(e, c))
  BY SoundHasRoom DEF Sound
<1>2. /\ new \in Nat \ {0} /\ new # c /\ new >= MIN_CAPACITY
      /\ n * 100 <= new * MAP_LOAD_PERCENT
  BY <1>1, Shrinking
<1>3. n < new
  BY <1>1, <1>2, LoadLeavesRoom
<1>4. Moved(e, c, c, Resize(e, c, new), new)
  BY <1>1, <1>2, <1>3, Resizing
<1> QED
  BY <1>1, <1>2, <1>4 DEF Moved, Sound

-----------------------------------------------------------------------------
(* The invariant.                                                          *)

LEMMA TableSound ==
  ASSUME IInv
  PROVE  /\ Sound(entries, capacity, count)
         /\ \A k \in Key : hash[k] \in Nat
         /\ \A k \in Key :
              /\ Found(k) <=> \E z : Has(entries, capacity, k, z)
              /\ Found(k) => At(k).value \in Value /\ Has(entries, capacity, k, At(k).value)
              /\ \A z : Has(entries, capacity, k, z) => At(k).value = z
              /\ Found(k) => capacity # 0 /\ FindEntry(entries, capacity, k).found
<1>1. TypeOK /\ RoomLeft /\ (capacity = 0 \/ capacity >= MIN_CAPACITY) /\ Placed(entries, capacity)
  BY DEF IInv
<1>2. \A k \in Key : hash[k] \in Nat
  BY <1>1, Hashes
<1>3. Sound(entries, capacity, count)
  BY <1>1 DEF TypeOK, RoomLeft, Sound, Table, Filled
<1>4. ASSUME NEW k \in Key
      PROVE  /\ Found(k) <=> \E z : Has(entries, capacity, k, z)
             /\ Found(k) => At(k).value \in Value /\ Has(entries, capacity, k, At(k).value)
             /\ \A z : Has(entries, capacity, k, z) => At(k).value = z
             /\ Found(k) => capacity # 0 /\ FindEntry(entries, capacity, k).found
  <2>1. CASE capacity = 0
    BY <2>1 DEF Found, Has
  <2>2. CASE capacity # 0
    <3>1. /\ Table(entries, capacity) /\ Placed(entries, capacity) /\ capacity \in Nat \ {0}
          /\ Roomy(entries, capacity)
      BY <1>3, <2>2, SoundHasRoom DEF Sound
    <3> DEFINE r == FindEntry(entries, capacity, k)
    <3>2. /\ r.found \in BOOLEAN
          /\ r.found => /\ entries[r.index].value \in Value
                        /\ Has(entries, capacity, k, entries[r.index].value)
          /\ \A v : Has(entries, capacity, k, v) => r.found /\ entries[r.index].value = v
      BY <1>2, <3>1, Finding
    <3>3. (Found(k) <=> r.found) /\ At(k) = entries[r.index]
      BY <2>2, <3>2 DEF Found, At
    <3> HIDE DEF r
    <3>4. Found(k) => capacity # 0 /\ FindEntry(entries, capacity, k).found
      BY DEF Found
    <3> QED
      BY <3>2, <3>3, <3>4
  <2> QED
    BY <2>1, <2>2
<1> QED
  BY <1>2, <1>3, <1>4

\* A change of the table that leaves it sound, and moves no entry within it, preserves
\* the invariant.
LEMMA TableChanges ==
  ASSUME IInv, NEW gone, Remember(gone),
         Sound(entries', capacity', count'),
         capacity' = capacity => Stays(entries, entries', capacity, gone),
         result' \in Value \cup {NULL}
  PROVE  IInv'
<1>1. hash' = hash /\ cursor' = cursor
  BY DEF Remember
<1>2. TypeOK /\ LoopKeeps
  BY DEF IInv
<1>3. /\ capacity' \in Nat /\ count' \in Nat /\ count' <= capacity'
      /\ capacity' # 0 => Roomy(entries', capacity')
  BY SoundHasRoom
<1>4. /\ Table(entries', capacity') /\ Placed(entries', capacity')
      /\ (capacity' = 0 \/ capacity' >= MIN_CAPACITY)
      /\ count' = Cardinality(Filled(entries', capacity'))
      /\ count' * 100 <= capacity' * MAP_LOAD_PERCENT
  BY DEF Sound
<1>5. stayed' \subseteq stayed /\ visited' \subseteq visited /\ visited' \subseteq stayed'
  BY <1>2 DEF Remember, TypeOK
<1>6. TypeOK'
  <2>1. capacity' \in Nat /\ entries' \in [0..capacity' - 1 -> Entry] /\ count' \in 0..capacity'
    <3>1. entries' \in [0..capacity' - 1 -> Entry]
      BY <1>4 DEF Table
    <3>2. capacity' \in Nat
      BY <1>3
    <3>3. count' \in Nat
      BY <1>3
    <3>4. count' <= capacity'
      BY <1>3
    <3>5. count' \in 0..capacity'
      BY <3>2, <3>3, <3>4
    <3> QED
      BY <3>1, <3>2, <3>5
  <2>2. stayed' \subseteq Key
    BY <1>2, <1>5 DEF TypeOK
  <2> QED
    BY <1>1, <1>2, <1>5, <2>1, <2>2 DEF TypeOK
<1>7. RoomLeft'
  <2>1. capacity' # 0 => \E i \in 0..capacity' - 1 : entries'[i].key = UNDEFINED
    BY <1>3 DEF Roomy
  <2>c. capacity' > 0 => capacity' # 0
    BY <1>3
  <2>l. count' * 100 <= capacity' * MAP_LOAD_PERCENT
    BY <1>4
  <2>2. count' = Cardinality({i \in 0..capacity' - 1 : entries'[i].key # UNDEFINED})
    BY <1>4 DEF Filled
  <2> QED
    BY <2>1, <2>c, <2>l, <2>2 DEF RoomLeft
<1>8. Placed(entries, capacity)'
  BY <1>1, <1>4 DEF Placed, Ends, Slot
<1>9. LoopKeeps'
  <2>1. CASE cursor = NULL
    BY <1>1, <1>2, <1>5, <2>1 DEF LoopKeeps
  <2>2. CASE cursor # NULL /\ capacity' # capacity
    BY <1>1, <2>2 DEF LoopKeeps, Remember
  <2>3. CASE cursor # NULL /\ capacity' = capacity
    <3>1. ASSUME NEW k \in stayed'
          PROVE  \E i \in 0..capacity' - 1 :
                   entries'[i].key = k /\ (k \in visited' <=> i <= cursor')
      <4>1. k \in stayed /\ k \in Key \ gone /\ (k \in visited' <=> k \in visited)
        BY <1>2, <1>5, <2>3 DEF Remember, TypeOK
      <4>2. PICK i \in 0..capacity - 1 : entries[i].key = k /\ (k \in visited <=> i <= cursor)
        BY <1>2, <2>3, <4>1 DEF LoopKeeps
      <4>3. entries'[i].key = k
        BY <2>3, <4>1, <4>2, MapAssumption DEF Stays
      <4> QED
        BY <1>1, <2>3, <4>1, <4>2, <4>3
    <3> QED
      BY <1>1, <2>3, <3>1 DEF LoopKeeps
  <2> QED
    BY <2>1, <2>2, <2>3
<1> QED
  BY <1>4, <1>6, <1>7, <1>8, <1>9 DEF IInv

LEMMA SetEffect ==
  ASSUME IInv, NEW k \in Key, NEW v \in Value, MapSet(k, v)
  PROVE  Sets(entries, capacity, k, v, entries', capacity', count')
<1> DEFINE room == IF Crowded(count, capacity) THEN Resize(entries, capacity, capacity') ELSE entries
<1>1. /\ capacity' = IF Crowded(count, capacity)
                     THEN Max({capacity * GROW_FACTOR, MIN_CAPACITY}) ELSE capacity
      /\ entries' = InsertEntry(room, capacity', k, v)
      /\ count' = IF Found(k) THEN count ELSE count + 1
  BY DEF MapSet
<1> HIDE DEF room
<1>2. room = IF Crowded(count, capacity) THEN Resize(entries, capacity, capacity') ELSE entries
  BY DEF room
<1>3. /\ Sound(entries, capacity, count)
      /\ \A y \in Key : hash[y] \in Nat
      /\ Found(k) <=> \E z : Has(entries, capacity, k, z)
  BY TableSound
<1>4. Sets(entries, capacity, k, v, entries', capacity', IF Found(k) THEN count ELSE count + 1)
  BY <1>1, <1>2, <1>3, SetTable
<1> QED
  BY <1>1, <1>4

LEMMA RemoveEffect ==
  ASSUME IInv, NEW k \in Key, MapRemoveKey(k), Found(k)
  PROVE  /\ Removes(entries, capacity, k, entries', capacity', count')
         /\ result' = At(k).value /\ Remember({k})
<1> DEFINE r == FindEntry(entries, capacity, k)
           left == [entries EXCEPT ![r.index] = Tombstone]
           shrunk == Max({capacity \div GROW_FACTOR, MIN_CAPACITY})
<1>1. /\ result' = entries[r.index].value
      /\ IF count = 1 THEN Discard
         ELSE IF Sparse(count - 1, capacity)
         THEN capacity' = shrunk /\ entries' = Resize(left, capacity, shrunk) /\ count' = count - 1
         ELSE entries' = left /\ count' = count - 1 /\ capacity' = capacity
      /\ Remember({k})
  BY DEF MapRemoveKey
<1>2. /\ Sound(entries, capacity, count) /\ \A y \in Key : hash[y] \in Nat
      /\ capacity # 0 /\ r.found
  BY TableSound
<1>3. result' = At(k).value
  BY <1>1 DEF At
<1> HIDE DEF r
<1>r. r = FindEntry(entries, capacity, k)
  BY DEF r
<1>l. left = [entries EXCEPT ![r.index] = Tombstone]
  OBVIOUS
<1> HIDE DEF left, shrunk
<1>4. /\ count >= 1
      /\ count = 1 => \A y \in Key \ {k} : \A z : ~Has(entries, capacity, y, z)
      /\ Removes(entries, capacity, k, left, capacity, count - 1)
  BY <1>2, <1>r, <1>l, RemoveTable
<1>5. CASE count = 1
  <2>1. entries' = <<>> /\ capacity' = 0 /\ count' = 0
    BY <1>1, <1>5 DEF Discard
  <2> QED
    BY <1>1, <1>2, <1>3, <1>4, <1>5, <2>1, NoTable DEF Removes
<1>6. CASE count # 1 /\ Sparse(count - 1, capacity)
  <2>1. capacity' = shrunk /\ entries' = Resize(left, capacity, shrunk) /\ count' = count - 1
    BY <1>1, <1>6
  <2>2. /\ Sound(Resize(left, capacity, shrunk), shrunk, count - 1) /\ shrunk # capacity
        /\ \A y \in Key : \A z : Has(Resize(left, capacity, shrunk), shrunk, y, z)
                                   <=> Has(left, capacity, y, z)
    BY <1>2, <1>4, <1>6, ShrinkTable DEF shrunk, Removes
  <2> QED
    BY <1>1, <1>3, <1>4, <2>1, <2>2 DEF Removes
<1>7. CASE count # 1 /\ ~Sparse(count - 1, capacity)
  <2>1. entries' = left /\ count' = count - 1 /\ capacity' = capacity
    BY <1>1, <1>7
  <2> QED
    BY <1>1, <1>3, <1>4, <2>1
<1> QED
  BY <1>5, <1>6, <1>7

\* What an iteration comes to: the loop ends, or it goes on at the next entry with a key.
LEMMA IterateEffect ==
  ASSUME IInv, Iterate
  PROVE  \/ /\ LoopEnds
            /\ \A i \in 0..capacity - 1 :
                 entries[i].key # UNDEFINED => cursor # NULL /\ i <= cursor
         \/ \E i \in 0..capacity - 1 :
              /\ LoopGoesTo(i) /\ entries[i].key # UNDEFINED
              /\ cursor # NULL => i > cursor
              /\ \A j \in 0..capacity - 1 :
                   entries[j].key # UNDEFINED /\ (cursor # NULL => j > cursor) => i <= j
<1> DEFINE ahead == {i \in 0..capacity - 1 : /\ cursor # NULL => i > cursor
                                             /\ entries[i].key # UNDEFINED}
<1>1. IF ahead = {} THEN LoopEnds ELSE LoopGoesTo(Min(ahead))
  BY DEF Iterate
<1>2. capacity \in Nat /\ cursor \in Nat \cup {NULL}
  BY DEF IInv, TypeOK
<1>3. CASE ahead = {}
  BY <1>1, <1>2, <1>3
<1>4. CASE ahead # {}
  <2>1. ahead \in SUBSET Nat
    BY <1>2
  <2> DEFINE i == Min(ahead)
  <2>2. i \in ahead /\ \A j \in ahead : i <= j
    BY <1>4, <2>1, LeastMember
  <2>3. LoopGoesTo(i)
    BY <1>1, <1>4
  <2> HIDE DEF i
  <2> QED
    BY <2>2, <2>3
<1> QED
  BY <1>3, <1>4

\* A key is in one place of the map's table.
LEMMA OnePlace ==
  ASSUME IInv, NEW i \in 0..capacity - 1, NEW j \in 0..capacity - 1,
         entries[i].key # UNDEFINED, entries[i].key = entries[j].key
  PROVE  i = j
<1>1. Sound(entries, capacity, count) /\ \A k \in Key : hash[k] \in Nat
  BY TableSound
<1>2. /\ Table(entries, capacity) /\ Placed(entries, capacity) /\ capacity \in Nat \ {0}
      /\ Roomy(entries, capacity)
  BY <1>1, SoundHasRoom DEF Sound
<1> QED
  BY <1>1, <1>2, KeysDistinct

LEMMA IterateKeeps ==
  ASSUME IInv, Iterate
  PROVE  IInv'
<1>1. UNCHANGED <<hash, entries, capacity, count, result>>
  BY DEF Iterate, table
<1>2. TypeOK /\ LoopKeeps
  BY DEF IInv
<1>3. RoomLeft' /\ (capacity' = 0 \/ capacity' >= MIN_CAPACITY) /\ Placed(entries, capacity)'
  BY <1>1 DEF IInv, RoomLeft, Placed, Ends, Slot
<1>4. CASE LoopEnds
  <2>1. cursor' = NULL /\ stayed' = {} /\ visited' = {}
    BY <1>4 DEF LoopEnds
  <2>2. TypeOK' /\ LoopKeeps'
    BY <1>1, <1>2, <2>1 DEF TypeOK, LoopKeeps
  <2> QED
    BY <1>3, <2>2 DEF IInv
<1>5. ASSUME NEW i \in 0..capacity - 1, LoopGoesTo(i), entries[i].key # UNDEFINED,
             cursor # NULL => i > cursor,
             \A j \in 0..capacity - 1 :
               entries[j].key # UNDEFINED /\ (cursor # NULL => j > cursor) => i <= j
      PROVE  IInv'
  <2>1. /\ cursor' = i
        /\ stayed' = IF cursor = NULL THEN {k \in Key : Found(k)} ELSE stayed
        /\ visited' = (visited \cup {entries[i].key}) \cap stayed'
    BY <1>5 DEF LoopGoesTo
  <2>2. i \in Nat /\ i # NULL /\ (cursor # NULL => cursor \in Nat) /\ capacity \in Nat
    BY <1>2, MapAssumption DEF TypeOK
  <2>3. TypeOK'
    BY <1>1, <1>2, <2>1, <2>2 DEF TypeOK
  <2>4. ASSUME NEW k \in stayed'
        PROVE  \E j \in 0..capacity - 1 : entries[j].key = k /\ (k \in visited' <=> j <= i)
    <3>k. k \in Key /\ k # UNDEFINED
      BY <2>3, <2>4, MapAssumption DEF TypeOK
    <3>v. k \in visited' <=> k \in visited \/ k = entries[i].key
      BY <2>1, <2>4
    <3>1. CASE cursor = NULL
      <4>1. k \notin visited
        BY <1>2, <3>1 DEF TypeOK, LoopKeeps
      <4>2. Has(entries, capacity, k, At(k).value)
        BY <2>1, <2>4, <3>1, <3>k, TableSound
      <4>3. PICK j \in 0..capacity - 1 : entries[j].key = k
        BY <4>2 DEF Has
      <4>4. i <= j
        BY <1>5, <3>1, <3>k, <4>3
      <4>5. j <= i <=> entries[i].key = k
        BY <1>5, <2>2, <4>3, <4>4, OnePlace
      <4> QED
        BY <3>v, <4>1, <4>3, <4>5
    <3>2. CASE cursor # NULL
      <4>1. PICK j \in 0..capacity - 1 : entries[j].key = k /\ (k \in visited <=> j <= cursor)
        BY <1>2, <2>1, <2>4, <3>2 DEF LoopKeeps
      <4>2. CASE j <= cursor
        <5>1. j <= i
          BY <1>5, <2>2, <3>2, <4>2
        <5> QED
          BY <3>v, <4>1, <4>2, <5>1
      <4>3. CASE ~(j <= cursor)
        <5>1. j > cursor
          BY <2>2, <3>2, <4>3
        <5>2. i <= j
          BY <1>5, <3>k, <4>1, <5>1
        <5>3. j <= i <=> entries[i].key = k
          BY <1>5, <2>2, <4>1, <5>2, OnePlace
        <5> QED
          BY <3>v, <4>1, <4>3, <5>3
      <4> QED
        BY <4>2, <4>3
    <3> QED
      BY <3>1, <3>2
  <2>5. LoopKeeps'
    BY <1>1, <2>1, <2>2, <2>4 DEF LoopKeeps
  <2> QED
    BY <1>3, <2>3, <2>5 DEF IInv
<1> QED
  BY <1>4, <1>5, IterateEffect

LEMMA ClearEffect ==
  ASSUME MapClear
  PROVE  /\ Sound(entries', capacity', count') /\ Remember(Key)
         /\ \A k, v : ~Has(entries', capacity', k, v)
         /\ Stays(entries, entries', capacity', Key)
<1>1. entries' = <<>> /\ capacity' = 0 /\ count' = 0 /\ Remember(Key)
  BY DEF MapClear, Discard
<1>2. Stays(entries, <<>>, 0, Key)
  BY DEF Stays
<1> QED
  BY <1>1, <1>2, NoTable

LEMMA NextKeeps ==
  ASSUME IInv, [Next]_vars
  PROVE  IInv'
<1>1. ASSUME UNCHANGED <<hash, entries, capacity, count, cursor, stayed, visited>>,
             result' \in Value \cup {NULL}
      PROVE  IInv'
  BY <1>1 DEF IInv, TypeOK, RoomLeft, LoopKeeps, Placed, Ends, Slot
<1>2. ASSUME NEW k \in Key, MapGet(k)
      PROVE  IInv'
  <2>1. result' \in Value \cup {NULL}
    BY <1>2, TableSound DEF MapGet
  <2> QED
    BY <1>1, <1>2, <2>1 DEF MapGet, table, loop
<1>3. ASSUME NEW k \in Key, MapRemoveKey(k)
      PROVE  IInv'
  <2>1. CASE Found(k)
    <3>1. /\ Sound(entries', capacity', count')
          /\ capacity' = capacity => Stays(entries, entries', capacity, {k})
          /\ result' = At(k).value /\ Remember({k})
      BY <1>3, <2>1, RemoveEffect DEF Removes
    <3>2. At(k).value \in Value
      BY <2>1, TableSound
    <3> QED
      BY <3>1, <3>2, TableChanges
  <2>2. CASE ~Found(k)
    BY <1>1, <1>3, <2>2 DEF MapRemoveKey, table, loop
  <2> QED
    BY <2>1, <2>2
<1>4. ASSUME NEW k \in Key, NEW v \in Value, MapSet(k, v)
      PROVE  IInv'
  <2>1. /\ Sound(entries', capacity', count')
        /\ capacity' = capacity => Stays(entries, entries', capacity, {})
    BY <1>4, SetEffect DEF Sets
  <2>2. Remember({}) /\ result' \in Value
    BY <1>4 DEF MapSet
  <2> QED
    BY <2>1, <2>2, TableChanges
<1>5. CASE MapClear
  <2>1. result' = NULL
    BY <1>5 DEF MapClear
  <2> QED
    BY <1>5, <2>1, ClearEffect, TableChanges
<1>6. CASE UNCHANGED vars
  <2>1. result' \in Value \cup {NULL}
    BY <1>6 DEF IInv, TypeOK, vars
  <2> QED
    BY <1>1, <1>6, <2>1 DEF vars, table, loop
<1> QED
  BY <1>2, <1>3, <1>4, <1>5, <1>6, IterateKeeps DEF Next

LEMMA InitHolds ==
  ASSUME Init
  PROVE  IInv
<1>1. /\ hash \in [Key -> HashValue] /\ entries = <<>> /\ capacity = 0 /\ count = 0
      /\ result = NULL /\ cursor = NULL /\ stayed = {} /\ visited = {}
  BY DEF Init
<1>2. Sound(entries, capacity, count)
  BY <1>1, NoTable
<1>3. Placed(entries, capacity) /\ Table(entries, capacity)
      /\ count = Cardinality(Filled(entries, capacity))
      /\ count * 100 <= capacity * MAP_LOAD_PERCENT
  BY <1>2 DEF Sound
<1>4. TypeOK
  BY <1>1, <1>3 DEF TypeOK, Table
<1>5. RoomLeft
  BY <1>1, <1>3 DEF RoomLeft, Filled
<1> QED
  BY <1>1, <1>3, <1>4, <1>5 DEF IInv, LoopKeeps

\* The inductive invariant: the search for each key reaches its entry, the table has
\* room and a true count, and the loop has been given the keys up to its iterator.
THEOREM Invariance == Spec => []IInv
<1>1. Init => IInv
  BY InitHolds
<1>2. IInv /\ [Next]_vars => IInv'
  BY NextKeeps
<1> QED
  BY <1>1, <1>2, PTL DEF Spec

\* The map's variables keep their types.
THEOREM TypeCorrect == Spec => []TypeOK
<1>1. IInv => TypeOK
  BY DEF IInv
<1> QED
  BY <1>1, Invariance, PTL

\* The assertion of findEntry holds in every search: the table is never so full that
\* a search finds neither its key nor a slot for it, and `count' counts the keys
\* (wrenMapSet, wrenMapRemoveKey, resizeMap).
THEOREM RoomIsLeft == Spec => []RoomLeft
<1>1. IInv => RoomLeft
  BY DEF IInv
<1> QED
  BY <1>1, Invariance, PTL

\* In whatever order keys came and went, a search finds each key that the table has
\* (findEntry walks over tombstones, and no entry is moved behind an empty one).
THEOREM KeysAreFound == Spec => []Placed(entries, capacity)
<1>1. IInv => Placed(entries, capacity)
  BY DEF IInv
<1> QED
  BY <1>1, Invariance, PTL

-----------------------------------------------------------------------------
(* The map is a dictionary.                                                *)

\* What the dictionary's contents are, in terms of the table.
ContentsAre ==
  /\ contents = [k \in DOMAIN contents |-> contents[k]]
  /\ DOMAIN contents = {k \in Key : \E z : Has(entries, capacity, k, z)}
  /\ \A k \in Key : \A z : Has(entries, capacity, k, z) => contents[k] = z

LEMMA MapContents == IInv => ContentsAre
<1> SUFFICES ASSUME IInv PROVE ContentsAre
  OBVIOUS
<1>1. \A k \in Key :
        /\ Found(k) <=> \E z : Has(entries, capacity, k, z)
        /\ \A z : Has(entries, capacity, k, z) => At(k).value = z
  BY TableSound
<1>2. /\ DOMAIN contents = {k \in Key : Found(k)}
      /\ \A k \in DOMAIN contents : contents[k] = At(k).value
      /\ contents = [k \in DOMAIN contents |-> contents[k]]
  BY DEF contents
<1>3. DOMAIN contents = {k \in Key : \E z : Has(entries, capacity, k, z)}
  BY <1>1, <1>2
<1>4. ASSUME NEW k \in Key, NEW z, Has(entries, capacity, k, z)
      PROVE  contents[k] = z
  BY <1>1, <1>2, <1>3, <1>4
<1> QED
  BY <1>2, <1>3, <1>4 DEF ContentsAre

\* An operation that leaves the table alone leaves the contents alone.
LEMMA ContentsKept ==
  ASSUME ContentsAre, ContentsAre', UNCHANGED <<entries, capacity>>
  PROVE  contents' = contents
<1>1. DOMAIN contents' = DOMAIN contents
  BY DEF ContentsAre
<1>2. \A k \in DOMAIN contents : contents'[k] = contents[k]
  BY DEF ContentsAre
<1>3. contents' = [k \in DOMAIN contents' |-> contents'[k]]
  BY DEF ContentsAre
<1>4. contents = [k \in DOMAIN contents |-> contents[k]]
  BY DEF ContentsAre
<1> HIDE DEF contents
<1> QED
  BY <1>1, <1>2, <1>3, <1>4

\* What an operation returns of a key is what the contents have of it.
LEMMA ResultIs ==
  ASSUME IInv, ContentsAre, NEW k \in Key
  PROVE  Abs!ValueOf(k) = IF Found(k) THEN At(k).value ELSE NULL
<1>1. /\ Found(k) <=> \E z : Has(entries, capacity, k, z)
      /\ Found(k) => Has(entries, capacity, k, At(k).value)
  BY TableSound
<1>2. k \in DOMAIN contents <=> Found(k)
  BY <1>1 DEF ContentsAre
<1>3. Found(k) => contents[k] = At(k).value
  BY <1>1 DEF ContentsAre
<1> HIDE DEF contents
<1> QED
  BY <1>2, <1>3 DEF Abs!ValueOf

LEMMA StepRefines ==
  ASSUME IInv, [Next]_vars, ContentsAre, ContentsAre'
  PROVE  [Abs!Next]_(Abs!vars)
<1>1. ASSUME NEW k \in Key, MapGet(k)
      PROVE  Abs!Get(k)
  <2>1. contents' = contents
    BY <1>1, ContentsKept DEF MapGet, table
  <2>2. result' = Abs!ValueOf(k)
    BY <1>1, ResultIs DEF MapGet
  <2> QED
    BY <2>1, <2>2 DEF Abs!Get
<1>2. ASSUME NEW k \in Key, MapRemoveKey(k)
      PROVE  Abs!Delete(k)
  <2>1. result' = Abs!ValueOf(k)
    <3>1. CASE Found(k)
      BY <1>2, <3>1, RemoveEffect, ResultIs
    <3>2. CASE ~Found(k)
      BY <1>2, <3>2, ResultIs DEF MapRemoveKey
    <3> QED
      BY <3>1, <3>2
  <2>2. \A y \in Key : \A z : Has(entries', capacity', y, z) <=> y # k /\ Has(entries, capacity, y, z)
    <3>1. CASE Found(k)
      BY <1>2, <3>1, RemoveEffect DEF Removes
    <3>2. CASE ~Found(k)
      <4>1. UNCHANGED <<entries, capacity>>
        BY <1>2, <3>2 DEF MapRemoveKey, table
      <4>2. \A z : ~Has(entries, capacity, k, z)
        BY <3>2, TableSound
      <4> QED
        BY <4>1, <4>2
    <3> QED
      BY <3>1, <3>2
  <2>3. /\ contents' = [x \in DOMAIN contents' |-> contents'[x]]
        /\ DOMAIN contents' = DOMAIN contents \ {k}
        /\ \A x \in DOMAIN contents' : contents'[x] = contents[x]
    BY <2>2 DEF ContentsAre
  <2> HIDE DEF contents
  <2>4. contents' = [x \in DOMAIN contents \ {k} |-> contents[x]]
    BY <2>3
  <2> QED
    BY <2>1, <2>4 DEF Abs!Delete
<1>3. ASSUME NEW k \in Key, NEW v \in Value, MapSet(k, v)
      PROVE  Abs!Put(k, v)
  <2>1. result' = v
    BY <1>3 DEF MapSet
  <2>2. \A y \in Key : \A z : Has(entries', capacity', y, z)
                                <=> IF y = k THEN z = v ELSE Has(entries, capacity, y, z)
    BY <1>3, SetEffect DEF Sets
  <2>3. /\ contents' = [x \in DOMAIN contents' |-> contents'[x]]
        /\ DOMAIN contents' = DOMAIN contents \cup {k}
        /\ \A x \in DOMAIN contents' : contents'[x] = IF x = k THEN v ELSE contents[x]
    <3>1. Has(entries', capacity', k, v)
      BY <2>2
    <3>2. contents' = [x \in DOMAIN contents' |-> contents'[x]] /\ contents'[k] = v
      BY <3>1 DEF ContentsAre
    <3>3. DOMAIN contents' = DOMAIN contents \cup {k}
      BY <2>2, <3>1 DEF ContentsAre
    <3>4. \A x \in DOMAIN contents' : x # k => contents'[x] = contents[x]
      BY <2>2 DEF ContentsAre
    <3> HIDE DEF contents
    <3> QED
      BY <3>2, <3>3, <3>4
  <2> HIDE DEF contents
  <2>4. contents' = [x \in DOMAIN contents \cup {k} |-> IF x = k THEN v ELSE contents[x]]
    BY <2>3
  <2> QED
    BY <2>1, <2>4 DEF Abs!Put
<1>4. ASSUME MapClear
      PROVE  Abs!Clear
  <2>1. result' = NULL
    BY <1>4 DEF MapClear
  <2>2. DOMAIN contents' = {} /\ contents' = [x \in DOMAIN contents' |-> contents'[x]]
    BY <1>4, ClearEffect DEF ContentsAre
  <2> HIDE DEF contents
  <2>3. contents' = <<>>
    BY <2>2
  <2> QED
    BY <2>1, <2>3 DEF Abs!Clear
<1>5. CASE Iterate \/ UNCHANGED vars
  <2>1. UNCHANGED <<entries, capacity, result>>
    BY <1>5 DEF Iterate, table, vars
  <2>2. contents' = contents
    BY <2>1, ContentsKept
  <2> QED
    BY <2>1, <2>2 DEF Abs!vars
<1> QED
  BY <1>1, <1>2, <1>3, <1>4, <1>5 DEF Next, Abs!Next

\* The map with its table, tombstones and resizing implements a partial function
\* (wrenMapGet, wrenMapSet, wrenMapRemoveKey, wrenMapClear).
THEOREM MapIsDictionary == Spec => IsDictionary
<1>1. Init => Abs!Init
  <2> SUFFICES ASSUME Init PROVE Abs!Init
    OBVIOUS
  <2>1. ContentsAre /\ entries = <<>> /\ capacity = 0 /\ result = NULL
    BY InitHolds, MapContents DEF Init
  <2>2. DOMAIN contents = {} /\ contents = [x \in DOMAIN contents |-> contents[x]]
    BY <2>1, NoTable DEF ContentsAre
  <2> HIDE DEF contents
  <2>3. contents = <<>>
    BY <2>2
  <2> QED
    BY <2>1, <2>3 DEF Abs!Init
<1>2. IInv /\ [Next]_vars /\ ContentsAre /\ ContentsAre' => [Abs!Next]_(Abs!vars)
  BY StepRefines
<1> QED
  BY <1>1, <1>2, Invariance, MapContents, PTL DEF Spec, IsDictionary, Abs!Spec

-----------------------------------------------------------------------------
(* The loop.                                                               *)

\* A key that stays in the map while a loop runs over it is given to the loop, unless
\* the entries were moved to a table of another size (map_iterate).
THEOREM LoopIsComplete == Spec => LoopComplete
<1>1. ASSUME IInv, [Next]_vars, cursor # NULL, cursor' = NULL
      PROVE  stayed \subseteq visited
  <2>1. Iterate
    BY <1>1 DEF Next, MapGet, MapRemoveKey, MapSet, MapClear, Remember, vars, loop
  <2>2. cursor \in Nat
    BY <1>1 DEF IInv, TypeOK
  <2>3. \A i \in 0..capacity - 1 : entries[i].key # UNDEFINED => i <= cursor
    <3>1. ASSUME NEW i \in 0..capacity - 1, LoopGoesTo(i)
          PROVE  FALSE
      BY <1>1, <3>1, MapAssumption DEF LoopGoesTo
    <3> QED
      BY <1>1, <2>1, <3>1, IterateEffect
  <2>4. ASSUME NEW k \in stayed
        PROVE  k \in visited
    <3>1. PICK i \in 0..capacity - 1 : entries[i].key = k /\ (k \in visited <=> i <= cursor)
      BY <1>1 DEF IInv, LoopKeeps
    <3>2. k # UNDEFINED
      BY <1>1, MapAssumption DEF IInv, TypeOK
    <3> QED
      BY <2>3, <3>1, <3>2
  <2> QED
    BY <2>4
<1>2. IInv /\ [Next]_vars => [cursor # NULL /\ cursor' = NULL => stayed \subseteq visited]_vars
  BY <1>1
<1> QED
  BY <1>2, Invariance, PTL DEF Spec, LoopComplete

\* ... and no such key is given to the loop twice.
THEOREM LoopIsOnce == Spec => LoopOnce
<1>1. ASSUME IInv, [Next]_vars, cursor # NULL, cursor' \notin {NULL, cursor}
      PROVE  entries[cursor'].key \notin visited
  <2>1. Iterate
    BY <1>1 DEF Next, MapGet, MapRemoveKey, MapSet, MapClear, Remember, vars, loop
  <2>2. cursor \in Nat /\ visited \subseteq stayed
    BY <1>1 DEF IInv, TypeOK
  <2>3. PICK i \in 0..capacity - 1 : LoopGoesTo(i) /\ entries[i].key # UNDEFINED /\ i > cursor
    BY <1>1, <2>1, IterateEffect DEF LoopEnds
  <2>4. cursor' = i
    BY <2>3 DEF LoopGoesTo
  <2>5. ASSUME entries[i].key \in visited
        PROVE  FALSE
    <3>1. PICK j \in 0..capacity - 1 : entries[j].key = entries[i].key /\ j <= cursor
      BY <1>1, <2>2, <2>5 DEF IInv, LoopKeeps
    <3>2. i = j
      BY <1>1, <2>3, <3>1, OnePlace
    <3> QED
      BY <2>2, <2>3, <3>1, <3>2
  <2> QED
    BY <2>4, <2>5
<1>2. IInv /\ [Next]_vars =>
        [cursor # NULL /\ cursor' \notin {NULL, cursor} => entries[cursor'].key \notin visited]_vars
  BY <1>1
<1> QED
  BY <1>2, Invariance, PTL DEF Spec, LoopOnce
=============================================================================

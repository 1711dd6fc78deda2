------------------------------ MODULE WrenMap ------------------------------
(***************************************************************************)
(* ObjMap of the Wren VM: a hash table with open addressing, linear        *)
(* probing and tombstones (lib/wren_value.c), the primitives of class Map  *)
(* (lib/wren_core.c) that change it, and one `for' loop over it, in whose  *)
(* body the map may be changed.                                            *)
(*                                                                         *)
(* A key is a value validateKey accepts, up to wrenValuesEqual; what it    *)
(* hashes to is chosen once.  Sizes are natural numbers: that they are     *)
(* uint32_t shows only in tables of 2^26 entries and more.                 *)
(***************************************************************************)
EXTENDS Naturals, FiniteSetsExt

CONSTANTS
  Key, Value,
  NULL,
  UNDEFINED,        \* the key of an entry that holds none
  HashValue,        \* what keys may hash to
  MIN_CAPACITY, GROW_FACTOR, MAP_LOAD_PERCENT

ASSUME MapAssumption ==
  /\ UNDEFINED \notin Key
  /\ NULL \notin Nat
  /\ HashValue \subseteq Nat
  /\ MIN_CAPACITY \in Nat \ {0} /\ GROW_FACTOR \in Nat \ {0, 1}
  /\ MAP_LOAD_PERCENT \in 1..99
  /\ MIN_CAPACITY * MAP_LOAD_PERCENT >= 100

VARIABLES
  hash,             \* hashValue
  entries,          \* map->entries, indexed from 0
  capacity, count,
  result,           \* what the last operation returned
  cursor,           \* the loop's iterator; NULL outside the loop
  stayed,           \* history: the keys that have been in the map since the loop
                    \* began (none, once they have been moved to another table),
  visited           \* and those of them that the loop has been given

table == <<entries, capacity, count>>
loop == <<cursor, stayed, visited>>
vars == <<hash, table, result, loop>>

Empty == [key |-> UNDEFINED, value |-> FALSE]
Tombstone == [key |-> UNDEFINED, value |-> TRUE]
Entry == [key : Key, value : Value] \cup {Empty, Tombstone}

TypeOK ==
  /\ hash \in [Key -> HashValue]
  /\ capacity \in Nat
  /\ entries \in [0..capacity - 1 -> Entry]
  /\ count \in 0..capacity
  /\ result \in Value \cup {NULL}
  /\ cursor \in Nat \cup {NULL}
  /\ visited \subseteq stayed /\ stayed \subseteq Key

\* wrenNewMap
Init ==
  /\ hash \in [Key -> HashValue]
  /\ entries = <<>>
  /\ capacity = 0
  /\ count = 0
  /\ result = NULL
  /\ cursor = NULL
  /\ stayed = {} /\ visited = {}

-----------------------------------------------------------------------------
(* The table.  These operators are given the entries e of a table of       *)
(* capacity c.                                                             *)

\* The n-th slot a search for k looks at.
Slot(k, c, n) == (hash[k] + n) % c

\* (wrong on purpose) a search ends at a deleted entry
EndsAtTombstone(e, c, k, n) == e[Slot(k, c, n)].key \in {k, UNDEFINED}

\* A search for k ends at k or at an empty entry, not at a tombstone.
Ends(e, c, k, n) == e[Slot(k, c, n)] = Empty \/ e[Slot(k, c, n)].key = k

\* (wrong on purpose) the first tombstone is taken although k comes after it
FindEntryEarly(e, c, k) ==
  LET stops == {n \in 0..c - 1 : Ends(e, c, k, n) \/ e[Slot(k, c, n)] = Tombstone}
      index == Slot(k, c, Min(stops))
  IN  [found |-> stops # {} /\ e[index].key = k, index |-> index]

\* findEntry: the entry of k, or the one to put it in, which is the first
\* tombstone on the way if there is one.
FindEntry(e, c, k) ==
  LET ends == {n \in 0..c - 1 : Ends(e, c, k, n)}
      last == IF ends = {} THEN c - 1 ELSE Min(ends)
      tombstones == {n \in 0..last : e[Slot(k, c, n)] = Tombstone}
      found == ends # {} /\ e[Slot(k, c, last)].key = k
  IN  [found |-> found,
       index |-> Slot(k, c, IF found \/ tombstones = {} THEN last ELSE Min(tombstones))]

InsertEntry(e, c, k, v) ==
  [e EXCEPT ![FindEntry(e, c, k).index] = [key |-> k, value |-> v]]

\* resizeMap: the entries are inserted again, in their order; moved[i] is the new
\* table when i entries have been looked at.
Resize(e, c, new) ==
  LET moved[i \in 0..c] ==
        IF i = 0 THEN [j \in 0..new - 1 |-> Empty]
        ELSE IF e[i - 1].key = UNDEFINED THEN moved[i - 1]
        ELSE InsertEntry(moved[i - 1], new, e[i - 1].key, e[i - 1].value)
  IN  moved[c]

\* (wrong on purpose) there is room as long as there is a slot
CrowdedWhenFull(n, c) == n >= c

\* wrenMapSet: is the map too full for one more key?
Crowded(n, c) == n + 1 > (c * MAP_LOAD_PERCENT) \div 100

\* wrenMapRemoveKey: is it empty enough for a smaller table?
Sparse(n, c) ==
  c > MIN_CAPACITY /\ n < ((c \div GROW_FACTOR) * MAP_LOAD_PERCENT) \div 100

-----------------------------------------------------------------------------
(* The primitives.                                                         *)

Found(k) == capacity # 0 /\ FindEntry(entries, capacity, k).found
At(k) == entries[FindEntry(entries, capacity, k).index]

\* A change of the map lets the keys in gone leave it.  The loop keeps its iterator,
\* whatever becomes of the entries.
Remember(gone) ==
  LET kept == IF capacity' = capacity THEN Key \ gone ELSE {}
  IN  /\ stayed' = stayed \cap kept
      /\ visited' = visited \cap kept
      /\ UNCHANGED <<hash, cursor>>

\* wrenMapSet
MapSet(k, v) ==
  LET grown == Max({capacity * GROW_FACTOR, MIN_CAPACITY})
      new == IF Crowded(count, capacity) THEN grown ELSE capacity
      room == IF Crowded(count, capacity) THEN Resize(entries, capacity, new) ELSE entries
  IN  /\ capacity' = new
      /\ entries' = InsertEntry(room, new, k, v)
      /\ count' = IF Found(k) THEN count ELSE count + 1
      /\ result' = v
      /\ Remember({})

\* wrenMapGet
MapGet(k) ==
  /\ result' = IF Found(k) THEN At(k).value ELSE NULL
  /\ UNCHANGED <<hash, table, loop>>

Discard ==
  /\ entries' = <<>>
  /\ capacity' = 0
  /\ count' = 0

\* wrenMapClear
MapClear ==
  /\ Discard
  /\ result' = NULL
  /\ Remember(Key)

\* wrenMapRemoveKey
MapRemoveKey(k) ==
  LET index == FindEntry(entries, capacity, k).index
      left == [entries EXCEPT ![index] = Tombstone]
      shrunk == Max({capacity \div GROW_FACTOR, MIN_CAPACITY})
  IN  IF ~Found(k) THEN result' = NULL /\ UNCHANGED <<hash, table, loop>>
      ELSE /\ result' = entries[index].value
           /\ IF count = 1 THEN Discard
              ELSE IF Sparse(count - 1, capacity)
              THEN /\ capacity' = shrunk
                   /\ entries' = Resize(left, capacity, shrunk)
                   /\ count' = count - 1
              ELSE /\ entries' = left
                   /\ count' = count - 1
                   /\ UNCHANGED capacity
           /\ Remember({k})

LoopEnds ==
  /\ cursor' = NULL
  /\ stayed' = {} /\ visited' = {}

LoopGoesTo(i) ==
  /\ cursor' = i
  /\ stayed' = IF cursor = NULL THEN {k \in Key : Found(k)} ELSE stayed
  /\ visited' = (visited \cup {entries[i].key}) \cap stayed'

\* (wrong on purpose) the loop goes on after the next entry
IterateSkips ==
  LET ahead == {i \in 0..capacity - 1 : /\ cursor # NULL => i > cursor + 1
                                        /\ entries[i].key # UNDEFINED}
  IN  /\ IF ahead = {} THEN LoopEnds ELSE LoopGoesTo(Min(ahead))
      /\ UNCHANGED <<hash, table, result>>

\* map_iterate, and map_keyIteratorValue for the entry it gives: the loop begins,
\* goes on, or ends.
Iterate ==
  LET ahead == {i \in 0..capacity - 1 : /\ cursor # NULL => i > cursor
                                        /\ entries[i].key # UNDEFINED}
  IN  /\ IF ahead = {} THEN LoopEnds ELSE LoopGoesTo(Min(ahead))
      /\ UNCHANGED <<hash, table, result>>

Next ==
  \/ \E k \in Key : MapGet(k) \/ MapRemoveKey(k) \/ \E v \in Value : MapSet(k, v)
  \/ MapClear
  \/ Iterate

Spec == Init /\ [][Next]_vars

-----------------------------------------------------------------------------
(* Properties.                                                             *)

\* The table is never so full that a search could find neither its key nor a slot
\* for it ("Map should have tombstones or empty entries"), in whatever order keys
\* have been inserted and removed, and `count' counts its keys.
RoomLeft ==
  /\ capacity > 0 => \E i \in 0..capacity - 1 : entries[i].key = UNDEFINED
  /\ count = Cardinality({i \in 0..capacity - 1 : entries[i].key # UNDEFINED})
  /\ count * 100 <= capacity * MAP_LOAD_PERCENT

\* What a search finds
contents == [k \in {x \in Key : Found(x)} |-> At(k).value]

Abs == INSTANCE Dictionary

\* The map behaves as a partial function from keys to values.
IsDictionary == Abs!Spec

\* A loop over a map that is changed meanwhile is given every key that stays in
\* the map, unless a change moves the entries to a table of another size ...
LoopComplete ==
  [][cursor # NULL /\ cursor' = NULL => stayed \subseteq visited]_vars

\* ... and none of them twice: a set or a removal that leaves the table where it is
\* moves no entry from behind the iterator to before it.
LoopOnce ==
  [][cursor # NULL /\ cursor' \notin {NULL, cursor}
       => entries[cursor'].key \notin visited]_vars
=============================================================================

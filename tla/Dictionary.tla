----------------------------- MODULE Dictionary -----------------------------
(***************************************************************************)
(* What a Wren Map promises: it is a partial function from keys to values. *)
(***************************************************************************)
CONSTANTS Key, Value, NULL

VARIABLES
  contents,         \* a function whose domain is the set of keys present
  result            \* what the last operation returned

vars == <<contents, result>>

ValueOf(k) == IF k \in DOMAIN contents THEN contents[k] ELSE NULL

Init ==
  /\ contents = <<>>
  /\ result = NULL

Put(k, v) ==
  /\ contents' = [x \in DOMAIN contents \cup {k} |-> IF x = k THEN v ELSE contents[x]]
  /\ result' = v

Get(k) ==
  /\ result' = ValueOf(k)
  /\ UNCHANGED contents

Delete(k) ==
  /\ contents' = [x \in DOMAIN contents \ {k} |-> contents[x]]
  /\ result' = ValueOf(k)

Clear ==
  /\ contents' = <<>>
  /\ result' = NULL

Next ==
  \/ \E k \in Key : Get(k) \/ Delete(k) \/ \E v \in Value : Put(k, v)
  \/ Clear

Spec == Init /\ [][Next]_vars
=============================================================================

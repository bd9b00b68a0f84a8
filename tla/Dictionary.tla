----------------------------- MODULE Dictionary -----------------------------
(***************************************************************************)
(* What hash.h promises: a map from keys to values.  A lookup of a key     *)
(* that was never inserted, or not since the last clear, gives NULL.       *)
(***************************************************************************)
CONSTANTS Keys, Values, NoValue

VARIABLES map, found

dvars == <<map, found>>

Init == map = <<>> /\ found = NoValue

Insert(k, v) ==
  /\ map' = [l \in DOMAIN map \cup {k} |-> IF l = k THEN v ELSE map[l]]
  /\ UNCHANGED found

Lookup(k) ==
  /\ found' = IF k \in DOMAIN map THEN map[k] ELSE NoValue
  /\ UNCHANGED map

Clear == map' = <<>> /\ UNCHANGED found

Next == \/ \E k \in Keys, v \in Values : Insert(k, v)
        \/ \E k \in Keys : Lookup(k)
        \/ Clear

Spec == Init /\ [][Next]_dvars
=============================================================================

---------------------------- MODULE MCHashTable ----------------------------
(***************************************************************************)
(* HashTable with four keys: two with the same hash, one that meets them   *)
(* in the small tables only, and one whose probing wraps around the end.   *)
(***************************************************************************)
EXTENDS HashTable

MCKeys == {"a", "b", "c", "d"}
MCHash(k) == CASE k = "a" -> 3
               [] k = "b" -> 3
               [] k = "c" -> 5
               [] k = "d" -> 2147483647
=============================================================================

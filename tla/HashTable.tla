----------------------------- MODULE HashTable -----------------------------
(***************************************************************************)
(* hash.c: a table with linear probing that doubles when it is half full   *)
(* and never deletes a key.  copy_subgraph keeps the nodes it has copied   *)
(* in one, which it clears before each copy.                               *)
(*                                                                         *)
(* A call is one action, except that hash_resize moves one old slot at a   *)
(* time: while it does, hash_index searches a table that is incomplete.    *)
(* The probing of hash_index is the operator Index.                        *)
(***************************************************************************)
EXTENDS Integers, FiniteSets

CONSTANTS
  Keys, Values,
  Hash(_),         \* hash_func: 32 bits, as hash_t.hashes keeps them
  InitAllocated,   \* the slots hash_init makes: 10 in the code
  NoKey, NoValue   \* what malloc leaves in a slot; the NULL of hash_lookup

ASSUME HashAssumption == \A k \in Keys : Hash(k) \in Nat
ASSUME InitAllocatedAssumption == InitAllocated \in Nat /\ InitAllocated >= 2
ASSUME NoKeyAssumption == NoKey \notin Keys /\ NoValue \notin Values

VARIABLES
  allocated, slots, count,   \* hash_t; the four arrays are one array of records
  resize,                    \* hash_resize under way: the old array and the next index,
                             \* with the key and value of the hash_insert that called it
  found                      \* what the last hash_lookup returned

vars == <<allocated, slots, count, resize, found>>

-----------------------------------------------------------------------------
Slot == [defined : BOOLEAN, hash : Nat, key : Keys \cup {NoKey}, value : Values \cup {NoValue}]
EmptySlot == [defined |-> FALSE, hash |-> 0, key |-> NoKey, value |-> NoValue]
Filled(k, v) == [defined |-> TRUE, hash |-> Hash(k), key |-> k, value |-> v]

NoResize == [old |-> <<>>, next |-> 0, key |-> NoKey, value |-> NoValue]
Resizing == resize.key # NoKey

(* hash_index: from the slot of the hash on, around the end, the first     *)
(* that is free or holds the key.  Without one the loop does not end.      *)
Probe(k, d) == ((Hash(k) % allocated) + d) % allocated
Stops(k, i) == slots[i].defined => slots[i].hash = Hash(k) /\ slots[i].key = k
Hit(k, d) == Stops(k, Probe(k, d)) /\ \A e \in 0..(d - 1) : ~Stops(k, Probe(k, e))
SearchEnds(k) == \E d \in 0..(allocated - 1) : Stops(k, Probe(k, d))
Index(k) == Probe(k, CHOOSE d \in 0..(allocated - 1) : Hit(k, d))

Holds(k) == slots[Index(k)].defined

(* Mutant: the table grows only when it is full. *)
HalfFullLate == count > allocated
HalfFull == count * 2 >= allocated

-----------------------------------------------------------------------------
Init ==
  /\ allocated = InitAllocated
  /\ slots = [i \in 0..(InitAllocated - 1) |-> EmptySlot]
  /\ count = 0
  /\ resize = NoResize
  /\ found = NoValue

(* hash_insert of a key that is there: the key pointer stays the old one. *)
Update(k, v) ==
  /\ ~Resizing /\ SearchEnds(k) /\ Holds(k)
  /\ slots' = [slots EXCEPT ![Index(k)].value = v]
  /\ UNCHANGED <<allocated, count, resize, found>>

(* hash_insert of a new key, with room for it. *)
Put(k, v) ==
  /\ ~Resizing /\ SearchEnds(k) /\ ~Holds(k) /\ ~HalfFull
  /\ slots' = [slots EXCEPT ![Index(k)] = Filled(k, v)]
  /\ count' = count + 1
  /\ UNCHANGED <<allocated, resize, found>>

(* Mutant: the new arrays have the size of the old ones. *)
GrowSameArrays(k, v) ==
  /\ ~Resizing /\ SearchEnds(k) /\ ~Holds(k) /\ HalfFull
  /\ allocated' = allocated * 2
  /\ slots' = [i \in 0..(allocated - 1) |-> EmptySlot]
  /\ resize' = [old |-> slots, next |-> 0, key |-> k, value |-> v]
  /\ UNCHANGED <<count, found>>

(* hash_insert of a new key in a table that is half full: hash_resize      *)
(* makes new arrays.                                                       *)
Grow(k, v) ==
  /\ ~Resizing /\ SearchEnds(k) /\ ~Holds(k) /\ HalfFull
  /\ allocated' = allocated * 2
  /\ slots' = [i \in 0..(allocated * 2 - 1) |-> EmptySlot]
  /\ resize' = [old |-> slots, next |-> 0, key |-> k, value |-> v]
  /\ UNCHANGED <<count, found>>

(* Mutant: a slot is moved to where it was. *)
MoveInPlace ==
  /\ Resizing /\ resize.next \in DOMAIN resize.old
  /\ LET s == resize.old[resize.next] IN
     slots' = IF s.defined THEN [slots EXCEPT ![resize.next] = s] ELSE slots
  /\ resize' = [resize EXCEPT !.next = @ + 1]
  /\ UNCHANGED <<allocated, count, found>>

(* One turn of hash_resize's loop. *)
Move ==
  /\ Resizing /\ resize.next \in DOMAIN resize.old
  /\ LET s == resize.old[resize.next] IN
     slots' = IF s.defined THEN [slots EXCEPT ![Index(s.key)] = s] ELSE slots
  /\ resize' = [resize EXCEPT !.next = @ + 1]
  /\ UNCHANGED <<allocated, count, found>>

(* hash_resize has moved all; hash_insert looks for the place again. *)
PutAfterResize ==
  /\ Resizing /\ resize.next \notin DOMAIN resize.old /\ SearchEnds(resize.key)
  /\ slots' = [slots EXCEPT ![Index(resize.key)] = Filled(resize.key, resize.value)]
  /\ count' = count + 1
  /\ resize' = NoResize
  /\ UNCHANGED <<allocated, found>>

Lookup(k) ==
  /\ ~Resizing /\ SearchEnds(k)
  /\ found' = IF Holds(k) THEN slots[Index(k)].value ELSE NoValue
  /\ UNCHANGED <<allocated, slots, count, resize>>

(* Mutant: the last slot is not cleared. *)
ClearButLast ==
  /\ ~Resizing /\ count > 0
  /\ slots' = [i \in DOMAIN slots |->
                 [slots[i] EXCEPT !.defined = @ /\ i = allocated - 1]]
  /\ count' = 0
  /\ UNCHANGED <<allocated, resize, found>>

(* hash_clear keeps the memory and what is in it; it returns at once from  *)
(* an empty table.                                                         *)
Clear ==
  /\ ~Resizing /\ count > 0
  /\ slots' = [i \in DOMAIN slots |-> [slots[i] EXCEPT !.defined = FALSE]]
  /\ count' = 0
  /\ UNCHANGED <<allocated, resize, found>>

Next ==
  \/ \E k \in Keys, v \in Values : Update(k, v) \/ Put(k, v) \/ Grow(k, v)
  \/ Move
  \/ PutAfterResize
  \/ \E k \in Keys : Lookup(k)
  \/ Clear

Spec == Init /\ [][Next]_vars

-----------------------------------------------------------------------------
(* Types: the arrays always have the allocated size, also between the      *)
(* allocation and the end of hash_resize.                                  *)
TypeOK ==
  /\ allocated \in Nat /\ allocated >= 2
  /\ slots \in [0..(allocated - 1) -> Slot]
  /\ count \in Nat
  /\ found \in Values \cup {NoValue}
  /\ resize.key \in Keys \cup {NoKey} /\ resize.value \in Values \cup {NoValue}
  /\ resize.next \in Nat
  /\ Resizing => \A i \in DOMAIN resize.old : resize.old[i] \in Slot

(* Every key is where hash_index looks for it, in a half moved table too:  *)
(* no free slot lies between a key and the slot of its hash, and no key is *)
(* in two slots (hash_index, hash_resize).                                 *)
FoundWhereLooked ==
  \A i \in DOMAIN slots : slots[i].defined =>
    slots[i].hash = Hash(slots[i].key) /\ SearchEnds(slots[i].key) /\ Index(slots[i].key) = i

(* The loop of hash_index ends whatever key it is given: the table is never *)
(* full of other keys.                                                     *)
EverySearchEnds == \A k \in Keys : SearchEnds(k)

(* The table is the map of the calls made, through every resize, clear,    *)
(* collision and wrap around.                                              *)
Entries(table) == {i \in DOMAIN table : table[i].defined}
Contents(table) ==
  [k \in {table[i].key : i \in Entries(table)} |->
     table[CHOOSE i \in Entries(table) : table[i].key = k].value]

Dict == INSTANCE Dictionary WITH map <- Contents(IF Resizing THEN resize.old ELSE slots)
IsDictionary == Dict!Spec
=============================================================================

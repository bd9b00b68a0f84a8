-------------------------- MODULE HashTableProofs --------------------------
(***************************************************************************)
(* Proofs about HashTable, for every set of keys and values, every hash    *)
(* function and every initial size.                                        *)
(***************************************************************************)
EXTENDS HashTable, NatFacts, FiniteSetTheorems

-----------------------------------------------------------------------------
(* The invariant.                                                          *)

(* A slot in use holds a key, its hash and its value. *)
Sound(table) ==
  \A i \in Entries(table) :
    /\ table[i].key \in Keys /\ table[i].value \in Values
    /\ table[i].hash = Hash(table[i].key)

OncePerKey(table) ==
  \A i, j \in Entries(table) : table[i].key = table[j].key => i = j

(* The slot of a key is the first one of its probing that stops it. *)
Placed ==
  \A i \in Entries(slots) :
    \E d \in 0..(allocated - 1) : Hit(slots[i].key, d) /\ Probe(slots[i].key, d) = i

(* A table that hash_index may search. *)
TableOK ==
  /\ allocated \in Nat /\ allocated >= 2
  /\ slots \in [0..(allocated - 1) -> Slot]
  /\ Sound(slots) /\ Placed
  /\ Cardinality(Entries(slots)) < allocated

(* hash_resize: the old array has half the size of the new one, which      *)
(* holds the entries before next and nothing else.                         *)
Moved == {j \in Entries(resize.old) : j < resize.next}
HalfMoved ==
  /\ resize.key \in Keys /\ resize.value \in Values
  /\ \A i \in DOMAIN resize.old : resize.old[i] \in Slot
  /\ Sound(resize.old) /\ OncePerKey(resize.old)
  /\ \A j \in Entries(resize.old) : resize.old[j].key # resize.key
  /\ \E n \in 0..allocated : /\ allocated = 2 * n /\ DOMAIN resize.old = 0..(n - 1)
                             /\ n >= 2 /\ 2 * count <= n + 1 /\ resize.next <= n
  /\ count = Cardinality(Entries(resize.old))
  /\ Cardinality(Entries(slots)) = Cardinality(Moved)
  /\ \A i \in Entries(slots) : \E j \in Moved : resize.old[j] = slots[i]
  /\ \A j \in Moved : \E i \in Entries(slots) : resize.old[j] = slots[i]

HashInv ==
  /\ TableOK
  /\ count \in Nat
  /\ found \in Values \cup {NoValue}
  /\ resize = [old |-> resize.old, next |-> resize.next, key |-> resize.key, value |-> resize.value]
  /\ resize.next \in Nat
  /\ Resizing => HalfMoved
  /\ ~Resizing => /\ resize = NoResize
                  /\ count = Cardinality(Entries(slots))
                  /\ 2 * count <= allocated + 1

-----------------------------------------------------------------------------
(* hash_index.                                                             *)

LEMMA ProbeInTable ==
  ASSUME NEW k \in Keys, allocated \in Nat, allocated >= 2, NEW d \in Nat
  PROVE  /\ Hash(k) % allocated \in 0..(allocated - 1)
         /\ Probe(k, d) \in 0..(allocated - 1)
<1>1. Hash(k) % allocated \in 0..(allocated - 1)
  BY HashAssumption, ModRange
<1> DEFINE x == (Hash(k) % allocated) + d
<1>2. x \in Nat
  BY <1>1
<1> HIDE DEF x
<1>3. x % allocated \in 0..(allocated - 1)
  BY <1>2, ModRange
<1> QED
  BY <1>1, <1>3 DEF Probe, x

(* The probing visits every slot, and none twice. *)
LEMMA ProbeEverySlot ==
  ASSUME NEW k \in Keys, allocated \in Nat, allocated >= 2
  PROVE  /\ \A i \in 0..(allocated - 1) : \E d \in 0..(allocated - 1) : Probe(k, d) = i
         /\ \A d, e \in 0..(allocated - 1) : Probe(k, d) = Probe(k, e) => d = e
<1> DEFINE h == Hash(k) % allocated
<1>1. h \in 0..(allocated - 1)
  BY ProbeInTable
<1>2. \A d \in 0..(allocated - 1) :
        Probe(k, d) = IF h + d < allocated THEN h + d ELSE h + d - allocated
  <2> TAKE d \in 0..(allocated - 1)
  <2> DEFINE x == h + d
  <2>1. Probe(k, d) = x % allocated
    BY DEF Probe
  <2> HIDE DEF h
  <2>2. x \in 0..(2 * allocated - 1) /\ allocated \in Nat \ {0}
    BY <1>1
  <2>3. Probe(k, d) = IF x < allocated THEN x ELSE x - allocated
    <3> HIDE DEF x
    <3> QED
      BY <2>1, <2>2, ModOnce
  <2> QED
    BY <1>1, <2>2, <2>3 DEF x
<1> HIDE DEF h
<1>3. ASSUME NEW i \in 0..(allocated - 1)
      PROVE  \E d \in 0..(allocated - 1) : Probe(k, d) = i
  <2>1. CASE i >= h
    <3>1. i - h \in 0..(allocated - 1) /\ Probe(k, i - h) = i
      BY <1>1, <1>2, <2>1
    <3> QED
      BY <3>1
  <2>2. CASE i < h
    <3>1. i - h + allocated \in 0..(allocated - 1) /\ Probe(k, i - h + allocated) = i
      BY <1>1, <1>2, <2>2
    <3> QED
      BY <3>1
  <2> QED
    BY <1>1, <2>1, <2>2
<1> QED
  BY <1>1, <1>2, <1>3

(* hash_index returns from a table that has a free slot. *)
LEMMA FreeSlotEndsSearch ==
  ASSUME TableOK, NEW k \in Keys
  PROVE  SearchEnds(k)
<1>1. DOMAIN slots = 0..(allocated - 1) /\ allocated \in Nat /\ allocated >= 2
  BY DEF TableOK
<1>2. PICK i \in 0..(allocated - 1) : ~slots[i].defined
  <2> SUFFICES ASSUME \A i \in 0..(allocated - 1) : slots[i].defined PROVE FALSE
    OBVIOUS
  <2>1. Entries(slots) = 0..(allocated - 1)
    BY <1>1 DEF Entries
  <2>2. Cardinality(0..(allocated - 1)) = allocated
    BY <1>1, FS_Interval
  <2> QED
    BY <1>1, <2>1, <2>2 DEF TableOK
<1>3. PICK d \in 0..(allocated - 1) : Probe(k, d) = i
  BY <1>1, ProbeEverySlot
<1> QED
  BY <1>2, <1>3 DEF SearchEnds, Stops

LEMMA SearchHits ==
  ASSUME NEW k, allocated \in Nat, SearchEnds(k)
  PROVE  \E d \in 0..(allocated - 1) : Hit(k, d)
<1> DEFINE T == {d \in 0..(allocated - 1) : Stops(k, Probe(k, d))}
<1>1. T # {} /\ T \subseteq Nat
  BY DEF SearchEnds
<1>2. PICK d \in T : \A e \in T : d <= e
  BY <1>1, LeastNat
<1>3. \A e \in 0..(d - 1) : ~Stops(k, Probe(k, e))
  BY <1>2
<1> QED
  BY <1>2, <1>3 DEF Hit

LEMMA IndexIsHit ==
  ASSUME NEW k, NEW d \in 0..(allocated - 1), Hit(k, d)
  PROVE  Index(k) = Probe(k, d)
<1>1. ASSUME NEW e \in 0..(allocated - 1), Hit(k, e) PROVE e = d
  BY <1>1 DEF Hit
<1>2. (CHOOSE e \in 0..(allocated - 1) : Hit(k, e)) = d
  BY <1>1
<1> QED
  BY <1>2 DEF Index

(* A key that is there is found where it is, and no other slot has it. *)
LEMMA KeyIsFound ==
  ASSUME TableOK, NEW i \in Entries(slots)
  PROVE  Index(slots[i].key) = i
BY IndexIsHit DEF TableOK, Placed

LEMMA KeysOnce ==
  ASSUME TableOK
  PROVE  OncePerKey(slots)
BY KeyIsFound DEF OncePerKey

LEMMA KeysOnceNext == TableOK' => OncePerKey(slots')
<1>1. TableOK => OncePerKey(slots)
  BY KeysOnce
<1>2. TableOK' => OncePerKey(slots)'
  BY <1>1, PTL
<1> QED
  BY <1>2 DEF OncePerKey, Entries

(* What hash_index returns: a slot that is free or has the key; it is free *)
(* only if no slot has the key.                                            *)
LEMMA IndexStops ==
  ASSUME TableOK, NEW k \in Keys
  PROVE  /\ Index(k) \in DOMAIN slots
         /\ Holds(k) <=> \E i \in Entries(slots) : slots[i].key = k
         /\ Holds(k) => Index(k) \in Entries(slots) /\ slots[Index(k)].key = k
<1>1. allocated \in Nat /\ allocated >= 2 /\ DOMAIN slots = 0..(allocated - 1)
  BY DEF TableOK
<1>2. PICK d \in 0..(allocated - 1) : Hit(k, d)
  BY <1>1, FreeSlotEndsSearch, SearchHits
<1>3. Index(k) = Probe(k, d) /\ Stops(k, Index(k))
  BY <1>2, IndexIsHit DEF Hit
<1>4. Index(k) \in DOMAIN slots
  BY <1>1, <1>3, ProbeInTable
<1>5. Holds(k) => Index(k) \in Entries(slots) /\ slots[Index(k)].key = k
  BY <1>3, <1>4 DEF Holds, Stops, Entries
<1>6. ASSUME NEW i \in Entries(slots), slots[i].key = k PROVE Holds(k)
  BY <1>6, KeyIsFound DEF Holds, Entries
<1> QED
  BY <1>4, <1>5, <1>6

LEMMA EntriesFinite ==
  ASSUME TableOK
  PROVE  IsFiniteSet(Entries(slots)) /\ Cardinality(Entries(slots)) \in Nat
<1>1. IsFiniteSet(0..(allocated - 1)) /\ Entries(slots) \subseteq 0..(allocated - 1)
  BY FS_Interval DEF TableOK, Entries
<1> QED
  BY <1>1, FS_Subset, FS_CardinalityType

(* A key is put into the free slot that hash_index returns for it: every   *)
(* other key stays where it is looked for.                                 *)
LEMMA FillSlot ==
  ASSUME TableOK, NEW k \in Keys, ~Holds(k), NEW s \in Slot,
         s.defined, s.key = k, s.hash = Hash(k), s.value \in Values,
         allocated' = allocated, slots' = [slots EXCEPT ![Index(k)] = s],
         Cardinality(Entries(slots)) + 1 < allocated
  PROVE  /\ TableOK'
         /\ Entries(slots') = Entries(slots) \cup {Index(k)}
         /\ Index(k) \notin Entries(slots)
         /\ slots'[Index(k)] = s
         /\ \A i \in Entries(slots) : slots'[i] = slots[i]
         /\ Cardinality(Entries(slots')) = Cardinality(Entries(slots)) + 1
<1> DEFINE x == Index(k)
<1>1. /\ allocated \in Nat /\ allocated >= 2
      /\ slots \in [0..(allocated - 1) -> Slot] /\ DOMAIN slots = 0..(allocated - 1)
  BY DEF TableOK
<1>2. x \in 0..(allocated - 1) /\ ~slots[x].defined
  BY <1>1, IndexStops DEF Holds
<1>3. slots' = [slots EXCEPT ![x] = s]
  OBVIOUS
<1>4. PICK d \in 0..(allocated - 1) : Hit(k, d) /\ x = Probe(k, d)
  BY <1>1, FreeSlotEndsSearch, SearchHits, IndexIsHit
<1> HIDE DEF x
<1>5. slots' \in [0..(allocated - 1) -> Slot] /\ slots'[x] = s
      /\ \A i \in 0..(allocated - 1) : i # x => slots'[i] = slots[i]
  BY <1>1, <1>2, <1>3
<1>6. Entries(slots') = Entries(slots) \cup {x} /\ x \notin Entries(slots)
  BY <1>1, <1>2, <1>5 DEF Entries
<1>7. \A i \in Entries(slots) : slots'[i] = slots[i]
  BY <1>1, <1>5, <1>6 DEF Entries
<1>8. Cardinality(Entries(slots')) = Cardinality(Entries(slots)) + 1
  BY <1>6, EntriesFinite, FS_AddElement
<1>9. Sound(slots)'
  BY <1>5, <1>6, <1>7 DEF TableOK, Sound
<1>10. \A l, e : Probe(l, e)' = Probe(l, e)
  BY DEF Probe
<1>11. \A l \in Keys : \A e \in Nat : ~Stops(l, Probe(l, e)) => ~Stops(l, Probe(l, e))'
  <2> TAKE l \in Keys
  <2> TAKE e \in Nat
  <2> HAVE ~Stops(l, Probe(l, e))
  <2>1. Probe(l, e) \in 0..(allocated - 1)
    BY <1>1, ProbeInTable
  <2>2. Probe(l, e) # x /\ slots'[Probe(l, e)] = slots[Probe(l, e)]
    BY <1>2, <1>5, <2>1 DEF Stops
  <2> QED
    BY <1>10, <2>2 DEF Stops
<1>12. Placed'
  <2> SUFFICES ASSUME NEW i \in Entries(slots')
               PROVE  \E l \in Keys : /\ l = slots'[i].key
                                      /\ \E e \in 0..(allocated - 1) : Hit(l, e)' /\ Probe(l, e)' = i
    BY Zenon DEF Placed
  <2>1. CASE i = x
    <3>1. Stops(k, Probe(k, d))'
      BY <1>4, <1>5, <1>10 DEF Stops
    <3>2. \A e \in 0..(d - 1) : ~Stops(k, Probe(k, e))'
      BY <1>1, <1>4, <1>11 DEF Hit
    <3>3. Hit(k, d)'
      BY <3>1, <3>2 DEF Hit
    <3>4. Probe(k, d)' = x /\ slots'[i].key = k
      BY <1>4, <1>5, <1>10, <2>1
    <3> QED
      BY <2>1, <3>3, <3>4
  <2>2. CASE i # x
    <3>1. i \in Entries(slots) /\ slots'[i] = slots[i] /\ slots[i].key \in Keys
      BY <1>6, <1>7, <2>2 DEF TableOK, Sound
    <3>2. PICK l \in Keys : l = slots[i].key /\ l = slots'[i].key
      BY <3>1
    <3>3. PICK e \in 0..(allocated - 1) : Hit(l, e) /\ Probe(l, e) = i
      BY <3>1, <3>2 DEF TableOK, Placed
    <3>4. Stops(l, Probe(l, e))'
      BY <1>10, <3>1, <3>3 DEF Stops, Hit
    <3>5. \A f \in 0..(e - 1) : ~Stops(l, Probe(l, f))'
      BY <1>1, <1>11, <3>3 DEF Hit
    <3>6. Hit(l, e)'
      BY <3>4, <3>5 DEF Hit
    <3> QED
      BY <1>10, <3>2, <3>3, <3>6
  <2> QED
    BY <2>1, <2>2
<1>13. TableOK'
  BY <1>1, <1>5, <1>8, <1>9, <1>12 DEF TableOK
<1> QED
  BY <1>5, <1>6, <1>7, <1>8, <1>13 DEF x

-----------------------------------------------------------------------------
(* The invariant is one.                                                   *)

LEMMA InitHashInv == Init => HashInv
<1> SUFFICES ASSUME Init PROVE HashInv
  OBVIOUS
<1>1. /\ allocated = InitAllocated /\ count = 0 /\ found = NoValue /\ resize = NoResize
      /\ slots = [i \in 0..(InitAllocated - 1) |-> EmptySlot]
  BY DEF Init
<1>2. EmptySlot \in Slot /\ ~EmptySlot.defined
  BY DEF EmptySlot, Slot
<1>3. Entries(slots) = {}
  BY <1>1, <1>2 DEF Entries
<1>4. Cardinality(Entries(slots)) = 0
  BY <1>3, FS_EmptySet
<1>5. TableOK
  BY <1>1, <1>2, <1>3, <1>4, InitAllocatedAssumption DEF TableOK, Sound, Placed
<1>6. ~Resizing
  BY <1>1 DEF Resizing, NoResize
<1> QED
  BY <1>1, <1>4, <1>5, <1>6, InitAllocatedAssumption DEF HashInv, NoResize

(* What a call finds when no resize is under way. *)
LEMMA BetweenCalls ==
  ASSUME HashInv, ~Resizing
  PROVE  /\ TableOK /\ resize = NoResize
         /\ count \in Nat /\ count = Cardinality(Entries(slots)) /\ 2 * count <= allocated + 1
         /\ allocated \in Nat /\ allocated >= 2
BY DEF HashInv, TableOK

LEMMA StepUpdate ==
  ASSUME HashInv, NEW k \in Keys, NEW v \in Values, Update(k, v)
  PROVE  /\ HashInv'
         /\ Index(k) \in Entries(slots) /\ slots[Index(k)].key = k
         /\ Entries(slots') = Entries(slots)
         /\ slots'[Index(k)].value = v
         /\ \A i \in Entries(slots) : /\ slots'[i].key = slots[i].key
                                      /\ i # Index(k) => slots'[i].value = slots[i].value
<1> DEFINE x == Index(k)
<1>1. TableOK /\ x \in Entries(slots) /\ slots[x].key = k
  BY BetweenCalls, IndexStops DEF Update
<1>2. /\ allocated \in Nat /\ allocated >= 2
      /\ slots \in [0..(allocated - 1) -> Slot] /\ DOMAIN slots = 0..(allocated - 1)
  BY <1>1 DEF TableOK
<1>3. slots' = [slots EXCEPT ![x].value = v] /\ UNCHANGED <<allocated, count, resize, found>>
  BY DEF Update
<1> HIDE DEF x
<1>4. x \in 0..(allocated - 1)
  BY <1>1, <1>2 DEF Entries
<1>5. /\ slots' \in [0..(allocated - 1) -> Slot]
      /\ slots'[x] = [slots[x] EXCEPT !.value = v]
      /\ \A i \in 0..(allocated - 1) : i # x => slots'[i] = slots[i]
  BY <1>2, <1>3, <1>4 DEF Slot
<1>6. \A i \in 0..(allocated - 1) :
        /\ slots'[i].defined = slots[i].defined /\ slots'[i].hash = slots[i].hash
        /\ slots'[i].key = slots[i].key
        /\ slots'[i].value = IF i = x THEN v ELSE slots[i].value
  BY <1>2, <1>4, <1>5 DEF Slot
<1>7. Entries(slots') = Entries(slots)
  BY <1>2, <1>5, <1>6 DEF Entries
<1>8. Sound(slots)'
  BY <1>1, <1>2, <1>6, <1>7 DEF TableOK, Sound, Entries
<1>9. \A l \in Keys : \A e \in Nat : /\ Probe(l, e)' = Probe(l, e)
                                      /\ Stops(l, Probe(l, e))' = Stops(l, Probe(l, e))
  <2> TAKE l \in Keys
  <2> TAKE e \in Nat
  <2>1. Probe(l, e) \in 0..(allocated - 1) /\ Probe(l, e)' = Probe(l, e)
    BY <1>2, <1>3, ProbeInTable DEF Probe
  <2> QED
    BY <1>6, <2>1 DEF Stops
<1>10. Placed'
  <2> SUFFICES ASSUME NEW i \in Entries(slots')
               PROVE  \E l \in Keys : /\ l = slots'[i].key
                                      /\ \E e \in 0..(allocated - 1) : Hit(l, e)' /\ Probe(l, e)' = i
    BY <1>3, Zenon DEF Placed
  <2>1. i \in Entries(slots) /\ slots[i].key \in Keys /\ slots'[i].key = slots[i].key
    BY <1>1, <1>2, <1>6, <1>7 DEF TableOK, Sound, Entries
  <2>2. PICK l \in Keys : l = slots[i].key /\ l = slots'[i].key
    BY <2>1
  <2>3. PICK e \in 0..(allocated - 1) : Hit(l, e) /\ Probe(l, e) = i
    BY <1>1, <2>1, <2>2 DEF TableOK, Placed
  <2>4. Hit(l, e)'
    BY <1>2, <1>9, <2>3 DEF Hit
  <2> QED
    BY <1>9, <1>2, <2>2, <2>3, <2>4
<1>11. TableOK'
  BY <1>1, <1>2, <1>3, <1>5, <1>7, <1>8, <1>10 DEF TableOK
<1>12. HashInv'
  BY <1>3, <1>7, <1>11, BetweenCalls DEF HashInv, Update, Resizing
<1> QED
  BY <1>1, <1>2, <1>4, <1>6, <1>7, <1>12 DEF Entries, x

LEMMA StepPut ==
  ASSUME HashInv, NEW k \in Keys, NEW v \in Values, Put(k, v)
  PROVE  /\ HashInv'
         /\ \A i \in Entries(slots) : slots[i].key # k
         /\ Entries(slots') = Entries(slots) \cup {Index(k)}
         /\ slots'[Index(k)] = Filled(k, v)
         /\ \A i \in Entries(slots) : slots'[i] = slots[i]
<1>1. /\ TableOK /\ resize = NoResize
      /\ count \in Nat /\ count = Cardinality(Entries(slots))
      /\ allocated \in Nat /\ allocated >= 2
  BY BetweenCalls DEF Put
<1>2. ~Holds(k) /\ ~(count * 2 >= allocated)
      /\ slots' = [slots EXCEPT ![Index(k)] = Filled(k, v)]
      /\ count' = count + 1 /\ UNCHANGED <<allocated, resize, found>>
  BY DEF Put, HalfFull
<1>3. /\ Filled(k, v) \in Slot /\ Filled(k, v).defined /\ Filled(k, v).key = k
      /\ Filled(k, v).hash = Hash(k) /\ Filled(k, v).value \in Values
  BY HashAssumption DEF Filled, Slot
<1>4. Cardinality(Entries(slots)) + 1 < allocated
  BY <1>1, <1>2
<1>5. /\ TableOK' /\ Entries(slots') = Entries(slots) \cup {Index(k)}
      /\ slots'[Index(k)] = Filled(k, v)
      /\ \A i \in Entries(slots) : slots'[i] = slots[i]
      /\ Cardinality(Entries(slots')) = Cardinality(Entries(slots)) + 1
  BY <1>1, <1>2, <1>3, <1>4, FillSlot
<1>6. \A i \in Entries(slots) : slots[i].key # k
  BY <1>1, <1>2, IndexStops
<1>7. HashInv'
  BY <1>1, <1>2, <1>5 DEF HashInv, Resizing, Put
<1> QED
  BY <1>5, <1>6, <1>7

(* hash_resize begins: nothing has been moved. *)
LEMMA StepGrow ==
  ASSUME HashInv, NEW k \in Keys, NEW v \in Values, Grow(k, v)
  PROVE  HashInv' /\ Resizing' /\ resize'.old = slots
<1>1. /\ TableOK /\ resize = NoResize
      /\ count \in Nat /\ count = Cardinality(Entries(slots)) /\ 2 * count <= allocated + 1
      /\ allocated \in Nat /\ allocated >= 2 /\ DOMAIN slots = 0..(allocated - 1)
      /\ slots \in [0..(allocated - 1) -> Slot]
  BY BetweenCalls DEF Grow, TableOK
<1>2. /\ ~Holds(k)
      /\ allocated' = allocated * 2 /\ slots' = [i \in 0..(allocated * 2 - 1) |-> EmptySlot]
      /\ resize' = [old |-> slots, next |-> 0, key |-> k, value |-> v]
      /\ UNCHANGED <<count, found>>
  BY DEF Grow
<1>3. EmptySlot \in Slot /\ ~EmptySlot.defined
  BY DEF EmptySlot, Slot
<1>4. Entries(slots') = {} /\ Cardinality(Entries(slots')) = 0
  BY <1>2, <1>3, FS_EmptySet DEF Entries
<1>5. TableOK'
  <2>1. allocated' \in Nat /\ allocated' >= 2 /\ slots' \in [0..(allocated' - 1) -> Slot]
        /\ 0 < allocated'
    BY <1>1, <1>2, <1>3
  <2> QED
    BY <1>4, <2>1 DEF TableOK, Sound, Placed
<1>6. Moved' = {} /\ Cardinality(Moved') = 0
  <2>1. \A j \in Entries(slots) : j \in Nat
    BY <1>1 DEF Entries
  <2>2. Moved' = {}
    BY <1>2, <2>1 DEF Moved
  <2> QED
    BY <2>2, FS_EmptySet
<1>7. \A i \in Entries(slots) : slots[i].key # k
  BY <1>1, <1>2, IndexStops
<1>8. Resizing' /\ resize'.old = slots /\ resize'.next = 0 /\ resize'.key = k /\ resize'.value = v
  BY <1>2, NoKeyAssumption DEF Resizing
<1>9. HalfMoved'
  <2>1. OncePerKey(slots) /\ Sound(slots)
    BY <1>1, KeysOnce DEF TableOK
  <2>2. /\ allocated' = 2 * allocated /\ allocated \in 0..allocated'
        /\ 2 * count' <= allocated + 1 /\ resize'.next <= allocated
    BY <1>1, <1>2, <1>8
  <2>3. \E n \in 0..allocated' : /\ allocated' = 2 * n /\ DOMAIN resize'.old = 0..(n - 1)
                                 /\ n >= 2 /\ 2 * count' <= n + 1 /\ resize'.next <= n
    BY <1>1, <1>8, <2>2
  <2>4. \A i \in DOMAIN slots : slots[i] \in Slot
    BY <1>1
  <2>5. count' = Cardinality(Entries(slots))
    BY <1>1, <1>2
  <2> QED
    BY <1>4, <1>6, <1>7, <1>8, <2>1, <2>3, <2>4, <2>5 DEF HalfMoved
<1>10. HashInv'
  BY <1>1, <1>2, <1>5, <1>8, <1>9 DEF HashInv
<1> QED
  BY <1>8, <1>10

(* What hash_resize knows in the middle of its loop. *)
LEMMA MovedFacts ==
  ASSUME HashInv, Resizing
  PROVE  /\ TableOK /\ HalfMoved
         /\ IsFiniteSet(Entries(resize.old)) /\ IsFiniteSet(Moved)
         /\ Cardinality(Moved) \in Nat /\ Cardinality(Moved) <= Cardinality(Entries(resize.old))
         /\ Cardinality(Entries(slots)) \in Nat /\ Cardinality(Entries(slots)) + 1 < allocated
<1>1. TableOK /\ HalfMoved
  BY DEF HashInv
<1>2. PICK n \in 0..allocated : /\ allocated = 2 * n /\ DOMAIN resize.old = 0..(n - 1) /\ n >= 2
  BY <1>1 DEF HalfMoved
<1>3. allocated \in Nat /\ n \in Nat
  BY <1>1 DEF TableOK
<1>4. IsFiniteSet(0..(n - 1)) /\ Cardinality(0..(n - 1)) = n
  BY <1>3, <1>2, FS_Interval
<1>5. Moved \subseteq Entries(resize.old) /\ Entries(resize.old) \subseteq 0..(n - 1)
  BY <1>2 DEF Moved, Entries
<1>6. IsFiniteSet(Entries(resize.old)) /\ Cardinality(Entries(resize.old)) <= n
  BY <1>4, <1>5, FS_Subset
<1>7. IsFiniteSet(Moved) /\ Cardinality(Moved) <= Cardinality(Entries(resize.old))
  BY <1>5, <1>6, FS_Subset
<1>8. Cardinality(Moved) \in Nat /\ Cardinality(Entries(resize.old)) \in Nat
  BY <1>6, <1>7, FS_CardinalityType
<1>9. Cardinality(Entries(slots)) = Cardinality(Moved)
  BY <1>1 DEF HalfMoved
<1> QED
  BY <1>1, <1>2, <1>3, <1>6, <1>7, <1>8, <1>9

LEMMA StepMove ==
  ASSUME HashInv, Move
  PROVE  HashInv' /\ Resizing' /\ resize'.old = resize.old
<1>1. /\ Resizing /\ resize.next \in DOMAIN resize.old
      /\ resize' = [resize EXCEPT !.next = @ + 1]
      /\ UNCHANGED <<allocated, count, found>>
  BY DEF Move
<1> DEFINE s == resize.old[resize.next]
<1>2. slots' = IF s.defined THEN [slots EXCEPT ![Index(s.key)] = s] ELSE slots
  BY DEF Move
<1>3. TableOK /\ HalfMoved /\ resize.next \in Nat
  BY <1>1 DEF HashInv
<1>4. /\ resize'.old = resize.old /\ resize'.next = resize.next + 1
      /\ resize'.key = resize.key /\ resize'.value = resize.value /\ Resizing'
      /\ resize' = [old |-> resize'.old, next |-> resize'.next, key |-> resize'.key, value |-> resize'.value]
  BY <1>1 DEF HashInv, Resizing
<1>5. \E n \in 0..allocated' : /\ allocated' = 2 * n /\ DOMAIN resize'.old = 0..(n - 1)
                               /\ n >= 2 /\ 2 * count' <= n + 1 /\ resize'.next <= n
  <2>1. PICK n \in 0..allocated : /\ allocated = 2 * n /\ DOMAIN resize.old = 0..(n - 1)
                                  /\ n >= 2 /\ 2 * count <= n + 1 /\ resize.next <= n
    BY <1>3 DEF HalfMoved
  <2>2. resize.next + 1 <= n
    BY <1>1, <2>1
  <2> QED
    BY <1>1, <1>4, <2>1, <2>2
<1>6. \A j \in Entries(resize.old) : j \in Nat
  BY <1>3 DEF HalfMoved, Entries
<1>7. CASE ~s.defined
  <2>1. slots' = slots
    BY <1>2, <1>7
  <2>2. Moved' = Moved
    <3>1. resize.next \notin Entries(resize.old)
      BY <1>7 DEF Entries
    <3> QED
      BY <1>3, <1>4, <1>6, <3>1 DEF Moved
  <2>3. TableOK'
    BY <1>1, <1>3, <2>1 DEF TableOK, Sound, Placed, Hit, Stops, Probe
  <2>4. HalfMoved'
    BY <1>1, <1>3, <1>4, <1>5, <2>1, <2>2 DEF HalfMoved
  <2> QED
    BY <1>1, <1>3, <1>4, <2>3, <2>4 DEF HashInv
<1>8. CASE s.defined
  <2>1. resize.next \in Entries(resize.old)
    BY <1>1, <1>8 DEF Entries
  <2>2. /\ s \in Slot /\ s.key \in Keys /\ s.value \in Values /\ s.hash = Hash(s.key)
    BY <1>1, <1>3, <2>1 DEF HalfMoved, Sound
  <2>3. ~Holds(s.key)
    <3> SUFFICES ASSUME Holds(s.key) PROVE FALSE
      OBVIOUS
    <3>1. PICK i \in Entries(slots) : slots[i].key = s.key
      BY <1>3, <2>2, IndexStops
    <3>2. PICK j \in Moved : resize.old[j] = slots[i]
      BY <1>3, <3>1 DEF HalfMoved
    <3>3. j = resize.next
      BY <1>3, <2>1, <3>1, <3>2 DEF HalfMoved, OncePerKey, Moved
    <3> QED
      BY <1>3, <3>2, <3>3 DEF Moved
  <2> DEFINE x == Index(s.key)
  <2>4. slots' = [slots EXCEPT ![x] = s]
    BY <1>2, <1>8
  <2>5. /\ TableOK' /\ Entries(slots') = Entries(slots) \cup {x} /\ slots'[x] = s
        /\ \A i \in Entries(slots) : slots'[i] = slots[i]
        /\ Cardinality(Entries(slots')) = Cardinality(Entries(slots)) + 1
    BY <1>1, <1>3, <1>8, <2>2, <2>3, <2>4, MovedFacts, FillSlot
  <2>6. Moved' = Moved \cup {resize.next} /\ resize.next \notin Moved
    BY <1>3, <1>4, <1>6, <2>1 DEF Moved
  <2>7. Cardinality(Moved') = Cardinality(Moved) + 1
    BY <1>1, <2>6, MovedFacts, FS_AddElement
  <2> HIDE DEF x
  <2>8. \A i \in Entries(slots') : \E j \in Moved' : resize'.old[j] = slots'[i]
    <3> TAKE i \in Entries(slots')
    <3>1. CASE i = x
      BY <1>4, <2>5, <2>6, <3>1
    <3>2. CASE i # x
      <4>1. i \in Entries(slots) /\ slots'[i] = slots[i]
        BY <2>5, <3>2
      <4>2. PICK j \in Moved : resize.old[j] = slots[i]
        BY <1>3, <4>1 DEF HalfMoved
      <4> QED
        BY <1>4, <2>6, <4>1, <4>2
    <3> QED
      BY <3>1, <3>2
  <2>9. \A j \in Moved' : \E i \in Entries(slots') : resize'.old[j] = slots'[i]
    <3> TAKE j \in Moved'
    <3>1. CASE j = resize.next
      BY <1>4, <2>5, <3>1
    <3>2. CASE j # resize.next
      <4>1. j \in Moved
        BY <2>6, <3>2
      <4>2. PICK i \in Entries(slots) : resize.old[j] = slots[i]
        BY <1>3, <4>1 DEF HalfMoved
      <4> QED
        BY <1>4, <2>5, <4>2
    <3> QED
      BY <3>1, <3>2
  <2>10. HalfMoved'
    BY <1>1, <1>3, <1>4, <1>5, <2>5, <2>7, <2>8, <2>9 DEF HalfMoved
  <2> QED
    BY <1>1, <1>3, <1>4, <2>5, <2>10 DEF HashInv
<1> QED
  BY <1>4, <1>7, <1>8

(* hash_resize is done: all that was there has been moved. *)
LEMMA StepPutAfterResize ==
  ASSUME HashInv, PutAfterResize
  PROVE  /\ HashInv' /\ Resizing /\ ~Resizing'
         /\ Moved = Entries(resize.old)
         /\ Entries(slots') = Entries(slots) \cup {Index(resize.key)}
         /\ slots'[Index(resize.key)] = Filled(resize.key, resize.value)
         /\ \A i \in Entries(slots) : slots'[i] = slots[i]
<1> DEFINE k == resize.key
           x == Index(k)
           s == Filled(k, resize.value)
<1>1. /\ Resizing /\ resize.next \notin DOMAIN resize.old
      /\ slots' = [slots EXCEPT ![x] = s]
      /\ count' = count + 1 /\ resize' = NoResize
      /\ UNCHANGED <<allocated, found>>
  BY DEF PutAfterResize
<1>2. TableOK /\ HalfMoved /\ k \in Keys /\ resize.value \in Values /\ count \in Nat
      /\ resize.next \in Nat
  BY <1>1 DEF HashInv, HalfMoved
<1>3. PICK n \in 0..allocated : /\ allocated = 2 * n /\ DOMAIN resize.old = 0..(n - 1)
                                /\ n >= 2 /\ 2 * count <= n + 1 /\ resize.next <= n
  BY <1>2 DEF HalfMoved
<1>4. resize.next = n /\ allocated \in Nat
  BY <1>1, <1>2, <1>3 DEF TableOK
<1>5. Moved = Entries(resize.old)
  BY <1>3, <1>4 DEF Moved, Entries
<1>6. /\ s \in Slot /\ s.defined /\ s.key = k
      /\ s.hash = Hash(k) /\ s.value \in Values
  BY <1>2, HashAssumption DEF Filled, Slot
<1>7. ~Holds(k)
  <2> SUFFICES ASSUME Holds(k) PROVE FALSE
    OBVIOUS
  <2>1. PICK i \in Entries(slots) : slots[i].key = k
    BY <1>2, IndexStops
  <2>2. PICK j \in Moved : resize.old[j] = slots[i]
    BY <1>2, <2>1 DEF HalfMoved
  <2> QED
    BY <1>2, <1>5, <2>1, <2>2 DEF HalfMoved
<1> HIDE DEF s, k
<1>8. /\ TableOK' /\ Entries(slots') = Entries(slots) \cup {x} /\ slots'[x] = s
      /\ \A i \in Entries(slots) : slots'[i] = slots[i]
      /\ Cardinality(Entries(slots')) = Cardinality(Entries(slots)) + 1
  BY <1>1, <1>2, <1>6, <1>7, MovedFacts, FillSlot
<1>9. ~Resizing'
  BY <1>1 DEF Resizing, NoResize
<1>10. count' = Cardinality(Entries(slots')) /\ count' \in Nat
  BY <1>1, <1>2, <1>5, <1>8 DEF HalfMoved
<1>11. 2 * count' <= allocated' + 1
  BY <1>1, <1>2, <1>3
<1>12. HashInv'
  BY <1>1, <1>8, <1>9, <1>10, <1>11 DEF HashInv, NoResize
<1> QED
  BY <1>1, <1>5, <1>8, <1>9, <1>12 DEF k, x, s

LEMMA StepClear ==
  ASSUME HashInv, Clear
  PROVE  HashInv' /\ ~Resizing' /\ Entries(slots') = {}
<1>1. /\ TableOK /\ resize = NoResize /\ allocated \in Nat /\ allocated >= 2
      /\ slots \in [0..(allocated - 1) -> Slot]
  BY BetweenCalls DEF Clear, TableOK
<1>2. /\ slots' = [i \in DOMAIN slots |-> [slots[i] EXCEPT !.defined = FALSE]]
      /\ count' = 0 /\ UNCHANGED <<allocated, resize, found>>
  BY DEF Clear
<1>3. /\ slots' \in [0..(allocated - 1) -> Slot]
      /\ \A i \in 0..(allocated - 1) : ~slots'[i].defined
  BY <1>1, <1>2 DEF Slot
<1>4. Entries(slots') = {} /\ Cardinality(Entries(slots')) = 0
  BY <1>3, FS_EmptySet DEF Entries
<1>5. TableOK'
  BY <1>1, <1>2, <1>3, <1>4 DEF TableOK, Sound, Placed
<1>6. ~Resizing'
  BY <1>1, <1>2 DEF Resizing, NoResize
<1> QED
  BY <1>1, <1>2, <1>4, <1>5, <1>6 DEF HashInv

(* What hash_lookup returns is what the table holds. *)
LEMMA StepLookup ==
  ASSUME HashInv, NEW k \in Keys, Lookup(k)
  PROVE  /\ HashInv' /\ ~Resizing /\ UNCHANGED <<slots, resize>>
         /\ \A i \in Entries(slots) : slots[i].key = k => found' = slots[i].value
         /\ (\A i \in Entries(slots) : slots[i].key # k) => found' = NoValue
<1>1. TableOK /\ ~Resizing /\ UNCHANGED <<allocated, slots, count, resize>>
  BY BetweenCalls DEF Lookup
<1>2. found' = IF Holds(k) THEN slots[Index(k)].value ELSE NoValue
  BY DEF Lookup
<1>3. \A i \in Entries(slots) : slots[i].key = k => Holds(k) /\ Index(k) = i
  BY <1>1, KeyIsFound, IndexStops
<1>4. (\A i \in Entries(slots) : slots[i].key # k) => ~Holds(k)
  BY <1>1, IndexStops
<1>5. found' \in Values \cup {NoValue}
  <2>1. Holds(k) => slots[Index(k)].value \in Values
    BY <1>1, IndexStops DEF TableOK, Sound
  <2> QED
    BY <1>2, <2>1
<1>6. TableOK'
  BY <1>1 DEF TableOK, Sound, Placed, Hit, Stops, Probe
<1>7. HashInv'
  BY <1>1, <1>5, <1>6 DEF HashInv, Resizing
<1> QED
  BY <1>1, <1>2, <1>3, <1>4, <1>7

LEMMA StutterHashInv ==
  ASSUME HashInv, UNCHANGED vars
  PROVE  HashInv'
<1>1. UNCHANGED <<allocated, slots, count, resize, found>>
  BY DEF vars
<1>2. TableOK /\ (Resizing => HalfMoved)
  BY DEF HashInv
<1>3. TableOK'
  BY <1>1, <1>2 DEF TableOK, Sound, Placed, Hit, Stops, Probe
<1>4. Resizing' => HalfMoved'
  BY <1>1, <1>2 DEF HalfMoved, Moved, Resizing
<1> QED
  BY <1>1, <1>3, <1>4 DEF HashInv, Resizing

LEMMA StepHashInv ==
  ASSUME HashInv, [Next]_vars
  PROVE  HashInv'
<1>1. CASE \E k \in Keys, v \in Values : Update(k, v) \/ Put(k, v) \/ Grow(k, v)
  BY <1>1, StepUpdate, StepPut, StepGrow
<1>2. CASE \E k \in Keys : Lookup(k)
  BY <1>2, StepLookup
<1> QED
  BY <1>1, <1>2, StepMove, StepPutAfterResize, StepClear, StutterHashInv DEF Next

-----------------------------------------------------------------------------
(* Type correctness of hash.c: the index that hash_index returns is always *)
(* one of the arrays, through every resize.                                *)
THEOREM HashTypes == Spec => []TypeOK
<1>1. HashInv /\ [Next]_vars => HashInv'
  BY StepHashInv
<1>2. HashInv => TypeOK
  <2> SUFFICES ASSUME HashInv PROVE TypeOK
    OBVIOUS
  <2>1. CASE Resizing
    BY <2>1 DEF HashInv, TableOK, HalfMoved, TypeOK
  <2>2. CASE ~Resizing
    BY <2>2 DEF HashInv, TableOK, TypeOK, NoResize
  <2> QED
    BY <2>1, <2>2
<1> QED
  BY InitHashInv, <1>1, <1>2, PTL DEF Spec

(* Every key is where hash_index looks for it, also in a half moved table. *)
THEOREM KeysWhereLooked == Spec => []FoundWhereLooked
<1>1. HashInv /\ [Next]_vars => HashInv'
  BY StepHashInv
<1>2. HashInv => FoundWhereLooked
  <2> SUFFICES ASSUME HashInv, NEW i \in Entries(slots)
               PROVE  /\ slots[i].hash = Hash(slots[i].key)
                      /\ SearchEnds(slots[i].key) /\ Index(slots[i].key) = i
    BY DEF FoundWhereLooked, Entries
  <2>1. TableOK /\ slots[i].key \in Keys /\ slots[i].hash = Hash(slots[i].key)
    BY DEF HashInv, TableOK, Sound
  <2> QED
    BY <2>1, KeyIsFound, FreeSlotEndsSearch
<1> QED
  BY InitHashInv, <1>1, <1>2, PTL DEF Spec

(* The loop of hash_index ends, whatever key it is given: the table always *)
(* has a free slot.                                                        *)
THEOREM SearchesEnd == Spec => []EverySearchEnds
<1>1. HashInv /\ [Next]_vars => HashInv'
  BY StepHashInv
<1>2. HashInv => EverySearchEnds
  BY FreeSlotEndsSearch DEF HashInv, EverySearchEnds
<1> QED
  BY InitHashInv, <1>1, <1>2, PTL DEF Spec

-----------------------------------------------------------------------------
(* hash.c implements Dictionary.                                           *)

(* The contents of a table in which no key is twice are known by its       *)
(* entries.                                                                *)
LEMMA ContentsAre ==
  ASSUME NEW table, OncePerKey(table), NEW map,
         map = [k \in DOMAIN map |-> map[k]],
         DOMAIN map = {table[i].key : i \in Entries(table)},
         \A i \in Entries(table) : map[table[i].key] = table[i].value
  PROVE  Contents(table) = map
<1>1. ASSUME NEW k \in DOMAIN map
      PROVE  map[k] = table[CHOOSE i \in Entries(table) : table[i].key = k].value
  <2>1. PICK i \in Entries(table) : table[i].key = k
    OBVIOUS
  <2>2. (CHOOSE j \in Entries(table) : table[j].key = k) = i
    BY <2>1 DEF OncePerKey
  <2> QED
    BY <2>1, <2>2
<1> QED
  BY <1>1 DEF Contents

LEMMA ContentsAt ==
  ASSUME NEW table, OncePerKey(table)
  PROVE  /\ DOMAIN Contents(table) = {table[i].key : i \in Entries(table)}
         /\ \A i \in Entries(table) : Contents(table)[table[i].key] = table[i].value
<1>1. ASSUME NEW i \in Entries(table)
      PROVE  Contents(table)[table[i].key] = table[i].value
  <2>1. (CHOOSE j \in Entries(table) : table[j].key = table[i].key) = i
    BY DEF OncePerKey
  <2> QED
    BY <2>1 DEF Contents
<1> QED
  BY <1>1 DEF Contents

LEMMA EmptyContents ==
  ASSUME NEW table, Entries(table) = {}
  PROVE  Contents(table) = <<>>
<1>1. Contents(table) = [k \in {} |-> table[CHOOSE i \in Entries(table) : table[i].key = k].value]
  BY DEF Contents
<1> QED
  BY <1>1

(* A table that holds what another one holds, and k with v besides.        *)
HoldsBesides(before, after, k, v) ==
  /\ \A i \in Entries(before) : before[i].key # k =>
       \E j \in Entries(after) : after[j].key = before[i].key /\ after[j].value = before[i].value
  /\ \A j \in Entries(after) : after[j].key # k =>
       \E i \in Entries(before) : after[j].key = before[i].key /\ after[j].value = before[i].value
  /\ \E j \in Entries(after) : after[j].key = k /\ after[j].value = v

Inserted(map, k, v) == [l \in DOMAIN map \cup {k} |-> IF l = k THEN v ELSE map[l]]

LEMMA OneMoreEntry ==
  ASSUME NEW before, NEW after, NEW k, NEW v, OncePerKey(before), OncePerKey(after),
         HoldsBesides(before, after, k, v)
  PROVE  Contents(after) = Inserted(Contents(before), k, v)
<1> DEFINE map == [l \in DOMAIN Contents(before) \cup {k} |->
                     IF l = k THEN v ELSE Contents(before)[l]]
<1>1. /\ DOMAIN Contents(before) = {before[i].key : i \in Entries(before)}
      /\ \A i \in Entries(before) : Contents(before)[before[i].key] = before[i].value
  BY ContentsAt
<1>2. DOMAIN map = {after[j].key : j \in Entries(after)}
  BY <1>1 DEF HoldsBesides
<1>3. ASSUME NEW j \in Entries(after) PROVE map[after[j].key] = after[j].value
  <2>1. CASE after[j].key = k
    BY <2>1 DEF OncePerKey, HoldsBesides
  <2>2. CASE after[j].key # k
    <3>1. PICK i \in Entries(before) :
            after[j].key = before[i].key /\ after[j].value = before[i].value
      BY <2>2 DEF HoldsBesides
    <3>2. after[j].key \in DOMAIN Contents(before)
          /\ Contents(before)[after[j].key] = after[j].value
      BY <1>1, <3>1
    <3> QED
      BY <2>2, <3>2
  <2> QED
    BY <2>1, <2>2
<1>4. map = [l \in DOMAIN map |-> map[l]]
  OBVIOUS
<1> HIDE DEF map
<1>5. Contents(after) = map
  BY <1>2, <1>3, <1>4, ContentsAre
<1> QED
  BY <1>5 DEF map, Inserted

LEMMA InitMap == Init => Dict!Init
<1> SUFFICES ASSUME Init PROVE Dict!Init
  OBVIOUS
<1>1. ~Resizing /\ found = NoValue
  BY DEF Init, Resizing, NoResize
<1>2. Entries(slots) = {}
  BY DEF Init, EmptySlot, Entries
<1> QED
  BY <1>1, <1>2, EmptyContents DEF Dict!Init

(* The map that the table stands for is, while hash_resize runs, what the  *)
(* old arrays hold.  Every step of the table is a step of the dictionary,  *)
(* or none: Update, Put and the end of a resize insert, Grow and Move      *)
(* change nothing.                                                         *)
LEMMA StepMap ==
  ASSUME HashInv, [Next]_vars
  PROVE  [Dict!Next]_(Dict!dvars)
<1> USE DEF Dict!dvars
<1>1. ASSUME NEW k \in Keys, NEW v \in Values, Update(k, v)
      PROVE  Dict!Insert(k, v)
  <2>1. ~Resizing /\ ~Resizing' /\ TableOK /\ TableOK' /\ UNCHANGED found
    BY <1>1, StepUpdate DEF Update, HashInv, Resizing
  <2>2. OncePerKey(slots) /\ OncePerKey(slots')
    BY <2>1, KeysOnce, KeysOnceNext
  <2>3. /\ Index(k) \in Entries(slots) /\ slots[Index(k)].key = k
        /\ Entries(slots') = Entries(slots)
        /\ slots'[Index(k)].value = v
        /\ \A i \in Entries(slots) : /\ slots'[i].key = slots[i].key
                                     /\ i # Index(k) => slots'[i].value = slots[i].value
    BY <1>1, StepUpdate
  <2>4. HoldsBesides(slots, slots', k, v)
    BY <2>3 DEF HoldsBesides
  <2>5. Contents(slots') = Inserted(Contents(slots), k, v)
    BY <2>2, <2>4, OneMoreEntry
  <2> QED
    BY <2>1, <2>5 DEF Dict!Insert, Inserted
<1>2. ASSUME NEW k \in Keys, NEW v \in Values, Put(k, v)
      PROVE  Dict!Insert(k, v)
  <2>1. ~Resizing /\ ~Resizing' /\ TableOK /\ TableOK' /\ UNCHANGED found
    BY <1>2, StepPut DEF Put, HashInv, Resizing
  <2>2. OncePerKey(slots) /\ OncePerKey(slots')
    BY <2>1, KeysOnce, KeysOnceNext
  <2>3. /\ \A i \in Entries(slots) : slots[i].key # k
        /\ Entries(slots') = Entries(slots) \cup {Index(k)}
        /\ slots'[Index(k)] = Filled(k, v)
        /\ \A i \in Entries(slots) : slots'[i] = slots[i]
    BY <1>2, StepPut
  <2>4. slots'[Index(k)].key = k /\ slots'[Index(k)].value = v
    BY <2>3 DEF Filled
  <2>5. HoldsBesides(slots, slots', k, v)
    BY <2>3, <2>4 DEF HoldsBesides
  <2>6. Contents(slots') = Inserted(Contents(slots), k, v)
    BY <2>2, <2>5, OneMoreEntry
  <2> QED
    BY <2>1, <2>6 DEF Dict!Insert, Inserted
<1>3. ASSUME NEW k \in Keys, NEW v \in Values, Grow(k, v)
      PROVE  UNCHANGED Dict!dvars
  BY <1>3, StepGrow DEF Grow
<1>4. ASSUME Move PROVE UNCHANGED Dict!dvars
  BY <1>4, StepMove DEF Move
<1>5. ASSUME PutAfterResize
      PROVE  \E k \in Keys, v \in Values : Dict!Insert(k, v)
  <2> DEFINE k == resize.key
             v == resize.value
  <2>1. Resizing /\ ~Resizing' /\ TableOK /\ TableOK' /\ UNCHANGED found
        /\ HalfMoved /\ k \in Keys /\ v \in Values /\ Moved = Entries(resize.old)
    BY <1>5, StepPutAfterResize DEF PutAfterResize, HashInv, HalfMoved
  <2>2. OncePerKey(resize.old) /\ OncePerKey(slots')
    BY <2>1, KeysOnceNext DEF HalfMoved
  <2>3. /\ Entries(slots') = Entries(slots) \cup {Index(k)}
        /\ slots'[Index(k)] = Filled(k, v)
        /\ \A i \in Entries(slots) : slots'[i] = slots[i]
    BY <1>5, StepPutAfterResize
  <2>4. slots'[Index(k)].key = k /\ slots'[Index(k)].value = v
    BY <2>3 DEF Filled
  <2>5. /\ \A i \in Entries(resize.old) : \E j \in Entries(slots') : slots'[j] = resize.old[i]
        /\ \A j \in Entries(slots') : slots'[j].key # k =>
             \E i \in Entries(resize.old) : slots'[j] = resize.old[i]
    BY <2>1, <2>3, <2>4 DEF HalfMoved
  <2> HIDE DEF k, v
  <2>6. HoldsBesides(resize.old, slots', k, v)
    BY <2>3, <2>4, <2>5 DEF HoldsBesides
  <2>7. Contents(slots') = Inserted(Contents(resize.old), k, v)
    BY <2>2, <2>6, OneMoreEntry
  <2>8. Dict!Insert(k, v)
    BY <2>1, <2>7 DEF Dict!Insert, Inserted
  <2> QED
    BY <2>1, <2>8
<1>6. ASSUME NEW k \in Keys, Lookup(k)
      PROVE  Dict!Lookup(k)
  <2>1. TableOK /\ ~Resizing /\ UNCHANGED <<slots, resize>>
    BY <1>6, StepLookup DEF HashInv
  <2>2. ~Resizing'
    BY <2>1 DEF Resizing
  <2>3. /\ DOMAIN Contents(slots) = {slots[i].key : i \in Entries(slots)}
        /\ \A i \in Entries(slots) : Contents(slots)[slots[i].key] = slots[i].value
    BY <2>1, KeysOnce, ContentsAt
  <2>4. found' = IF k \in DOMAIN Contents(slots) THEN Contents(slots)[k] ELSE NoValue
    BY <1>6, <2>3, StepLookup
  <2> QED
    BY <2>1, <2>2, <2>4 DEF Dict!Lookup
<1>7. ASSUME Clear PROVE Dict!Clear
  <2>1. ~Resizing' /\ Entries(slots') = {} /\ UNCHANGED found
    BY <1>7, StepClear DEF Clear
  <2> QED
    BY <2>1, EmptyContents DEF Dict!Clear
<1>8. ASSUME UNCHANGED vars PROVE UNCHANGED Dict!dvars
  BY <1>8 DEF vars, Resizing, Contents, Entries
<1> QED
  BY <1>1, <1>2, <1>3, <1>4, <1>5, <1>6, <1>7, <1>8 DEF Next, Dict!Next

(* hash.c is the map of the calls made: what hash_lookup returns is what   *)
(* was inserted last under the key since the last clear, or NULL, through  *)
(* every collision, resize and wrap around.                                *)
THEOREM ImplementsDictionary == Spec => IsDictionary
<1>1. HashInv /\ [Next]_vars => HashInv'
  BY StepHashInv
<1>2. HashInv /\ [Next]_vars => [Dict!Next]_(Dict!dvars)
  BY StepMap
<1> QED
  BY InitHashInv, InitMap, <1>1, <1>2, PTL DEF Spec, IsDictionary, Dict!Spec
=============================================================================

--------------------------- MODULE MatcherProofs ---------------------------
(***************************************************************************)
(* Proofs about Matcher, for every set of well formed graphs and every set *)
(* of strings.                                                             *)
(***************************************************************************)
EXTENDS Matcher, NatFacts, SequenceTheorems

-----------------------------------------------------------------------------
(* Facts about the data.                                                   *)

(* Every edge of a program leads to a node of the program. *)
LEMMA ProgramFacts ==
  ASSUME NEW g \in Programs
  PROVE  /\ g \in Rx /\ g.start \in DOMAIN g.nodes /\ g.cap_count \in Nat
         /\ \A n \in DOMAIN g.nodes :
              /\ g.nodes[n] \in Node
              /\ g.nodes[n].type \notin {"MATCH_END", "VISITED"} => g.nodes[n].next \in DOMAIN g.nodes
              /\ g.nodes[n].type = "BRANCH" => g.nodes[n].u \in DOMAIN g.nodes
<1>1. WellFormed(g)
  BY ProgramsAssumption
<1>2. g \in Rx /\ g.start \in DOMAIN g.nodes
  BY <1>1 DEF WellFormed
<1>3. g.nodes \in Seq(Node) /\ g.cap_count \in Nat
  BY <1>2 DEF Rx
<1>4. ASSUME NEW n \in DOMAIN g.nodes
      PROVE  /\ g.nodes[n] \in Node
             /\ g.nodes[n].type \notin {"MATCH_END", "VISITED"} => g.nodes[n].next \in DOMAIN g.nodes
             /\ g.nodes[n].type = "BRANCH" => g.nodes[n].u \in DOMAIN g.nodes
  <2>1. g.nodes[n] \in Node
    BY <1>3
  <2>2. Successors(g.nodes[n]) \subseteq DOMAIN g.nodes
    BY <1>1 DEF WellFormed
  <2>3. g.nodes[n].type \notin {"MATCH_END", "VISITED"} => g.nodes[n].next \in Successors(g.nodes[n])
    BY DEF Successors
  <2>4. g.nodes[n].type = "BRANCH" => g.nodes[n].u \in Successors(g.nodes[n])
    BY DEF Successors
  <2> QED
    BY <2>1, <2>2, <2>3, <2>4
<1> QED
  BY <1>2, <1>3, <1>4

(* A node never consumes past the end of the string. *)
LEMMA WidthBound ==
  ASSUME NEW g, NEW nd, NEW s \in Strings, NEW p \in 0..Len(s)
  PROVE  Width(g, nd, s, p) \in Nat /\ p + Width(g, nd, s, p) <= Len(s)
<1>1. Len(s) \in Nat
  BY StringsAssumption
<1>2. CASE p >= Len(s)
  BY <1>1, <1>2 DEF Width
<1>3. CASE p < Len(s)
  <2>1. Announced(s[p + 1]) \in Nat
    BY DEF Announced
  <2>2. Utf8CharSize(s, p) \in Nat /\ p + Utf8CharSize(s, p) <= Len(s)
    BY <1>1, <1>3, <2>1 DEF Utf8CharSize
  <2> QED
    BY <1>1, <1>3, <2>2 DEF Width
<1> QED
  BY <1>1, <1>2, <1>3

(* What try_alternative leaves of the path. *)
LEMMA Truncated ==
  ASSUME NEW S, NEW q \in Seq(S), NEW i \in DOMAIN q
  PROVE  /\ i \in 1..Len(q) /\ Len(q) \in Nat /\ DOMAIN q = 1..Len(q)
         /\ SubSeq(q, 1, i - 1) \in Seq(S)
         /\ Len(SubSeq(q, 1, i - 1)) = i - 1
         /\ DOMAIN SubSeq(q, 1, i - 1) = 1..(i - 1)
         /\ \A k \in 1..(i - 1) : SubSeq(q, 1, i - 1)[k] = q[k]
<1>1. i \in 1..Len(q) /\ Len(q) \in Nat /\ DOMAIN q = 1..Len(q)
  OBVIOUS
<1> QED
  BY <1>1, SubSeqProperties

(* The entries of a path. *)
LEMMA Entries ==
  ASSUME NEW S, NEW q \in Seq(S)
  PROVE  \A i \in DOMAIN q : q[i] \in S
OBVIOUS

(* Facts about the state of a running call. *)
LEMMA RunningFacts ==
  ASSUME TypeOK, Running
  PROVE  /\ rx \in Programs /\ str \in Strings /\ Len(str) \in Nat
         /\ node \in DOMAIN rx.nodes /\ Here \in Node
         /\ arg_pos \in 0..Len(str) /\ start_pos \in arg_pos..Len(str) /\ pos \in 0..Len(str)
         /\ path \in Seq([node : DOMAIN rx.nodes, pos : 0..Len(str)])
         /\ \A i \in DOMAIN path : path[i] \in [node : DOMAIN rx.nodes, pos : 0..Len(str)]
<1>1. /\ rx \in Programs /\ str \in Strings /\ node \in DOMAIN rx.nodes
      /\ arg_pos \in 0..Len(str) /\ start_pos \in arg_pos..Len(str) /\ pos \in 0..Len(str)
      /\ path \in Seq([node : DOMAIN rx.nodes, pos : 0..Len(str)])
  BY DEF TypeOK, Running
<1>2. Len(str) \in Nat
  BY <1>1, StringsAssumption
<1>3. Here \in Node
  BY <1>1, ProgramFacts DEF Here
<1>4. \A i \in DOMAIN path : path[i] \in [node : DOMAIN rx.nodes, pos : 0..Len(str)]
  BY <1>1, Entries
<1> QED
  BY <1>1, <1>2, <1>3, <1>4

(* Falling back keeps the part of the path before the last BRANCH.         *)
LEMMA BacktrackFacts ==
  ASSUME TypeOK, Backtrack
  PROVE  /\ Running /\ Fails /\ UNCHANGED <<rx, str, arg_pos, start_pos, status>>
         /\ \E i \in DOMAIN path :
              /\ IsBranch(path[i])
              /\ \A j \in DOMAIN path : IsBranch(path[j]) => j <= i
              /\ node' = rx.nodes[path[i].node].u /\ pos' = path[i].pos
              /\ i \in 1..Len(path) /\ Len(path) \in Nat /\ DOMAIN path = 1..Len(path)
              /\ path' \in Seq([node : DOMAIN rx.nodes, pos : 0..Len(str)])
              /\ Len(path') = i - 1 /\ DOMAIN path' = 1..(i - 1)
              /\ \A k \in 1..(i - 1) : path'[k] = path[k]
<1>1. Running /\ Fails /\ UNCHANGED <<rx, str, arg_pos, start_pos, status>>
  BY DEF Backtrack
<1>2. PICK i \in DOMAIN path : /\ IsBranch(path[i])
                               /\ \A j \in (i + 1)..Len(path) : ~IsBranch(path[j])
                               /\ node' = rx.nodes[path[i].node].u
                               /\ pos' = path[i].pos
                               /\ path' = SubSeq(path, 1, i - 1)
  BY DEF Backtrack
<1>3. path \in Seq([node : DOMAIN rx.nodes, pos : 0..Len(str)])
  BY <1>1, RunningFacts
<1> DEFINE kept == SubSeq(path, 1, i - 1)
<1>4. /\ i \in 1..Len(path) /\ Len(path) \in Nat /\ DOMAIN path = 1..Len(path)
      /\ kept \in Seq([node : DOMAIN rx.nodes, pos : 0..Len(str)])
      /\ Len(kept) = i - 1 /\ DOMAIN kept = 1..(i - 1)
      /\ \A k \in 1..(i - 1) : kept[k] = path[k]
  <2> DEFINE Entry == [node : DOMAIN rx.nodes, pos : 0..Len(str)]
  <2>1. path \in Seq(Entry)
    BY <1>3
  <2> HIDE DEF Entry
  <2>2. /\ i \in 1..Len(path) /\ Len(path) \in Nat /\ DOMAIN path = 1..Len(path)
        /\ SubSeq(path, 1, i - 1) \in Seq(Entry)
        /\ Len(SubSeq(path, 1, i - 1)) = i - 1
        /\ DOMAIN SubSeq(path, 1, i - 1) = 1..(i - 1)
        /\ \A k \in 1..(i - 1) : SubSeq(path, 1, i - 1)[k] = path[k]
    BY <2>1, Truncated
  <2> QED
    BY <2>2 DEF Entry
<1>5. \A j \in DOMAIN path : IsBranch(path[j]) => j <= i
  BY <1>2, <1>4
<1> QED
  BY <1>1, <1>2, <1>4, <1>5

-----------------------------------------------------------------------------
(* Type correctness.                                                       *)

LEMMA TypeInit == Init => TypeOK
<1> SUFFICES ASSUME Init PROVE TypeOK
  OBVIOUS
<1>1. Unset \in [defined : BOOLEAN, start : Nat, end : Nat, size : Int]
  BY DEF Unset
<1>2. path \in Seq([node : DOMAIN rx.nodes, pos : 0..Len(str)])
  BY DEF Init
<1> QED
  BY <1>1, <1>2, CapAllocatedAssumption DEF Init, TypeOK

(* An action of the loop that leaves the call, the captures and the value  *)
(* alone keeps the types if what it moves stays in its range.              *)
LEMMA TypeMove ==
  ASSUME TypeOK, Running,
         UNCHANGED <<rx, str, arg_pos, caps, cap_count, value>>,
         status' \in {"running", "failed"},
         node' \in DOMAIN rx.nodes, pos' \in 0..Len(str), start_pos' \in arg_pos..Len(str),
         path' \in Seq([node : DOMAIN rx.nodes, pos : 0..Len(str)])
  PROVE  TypeOK'
BY DEF TypeOK, Running

(* Every step keeps the types. *)
LEMMA TypeStep == TypeOK /\ [Next]_vars => TypeOK'
<1> SUFFICES ASSUME TypeOK, [Next]_vars PROVE TypeOK'
  OBVIOUS
<1> DEFINE Entry == [node : DOMAIN rx.nodes, pos : 0..Len(str)]
           Slot == [defined : BOOLEAN, start : Nat, end : Nat, size : Int]
<1>1. ASSUME NEW g \in Programs, NEW s \in Strings, NEW p \in 0..Len(s), Call(g, s, p)
      PROVE  TypeOK'
  <2>1. g.start \in DOMAIN g.nodes
    BY ProgramFacts
  <2>2. Len(s) \in Nat
    BY StringsAssumption
  <2>3. path' \in Seq([node : DOMAIN g.nodes, pos : 0..Len(s)])
    BY <1>1 DEF Call
  <2> QED
    BY <1>1, <2>1, <2>2, <2>3 DEF Call, TypeOK
<1>2. CASE Consume
  <2>1. Running /\ Here.type \in Consuming
    BY <1>2 DEF Consume
  <2>2. pos' \in 0..Len(str)
    <3>1. /\ Width(rx, Here, str, pos) \in Nat
          /\ pos + Width(rx, Here, str, pos) <= Len(str)
      BY <2>1, RunningFacts, WidthBound
    <3> QED
      BY <1>2, <2>1, <3>1, RunningFacts DEF Consume
  <2>3. node' \in DOMAIN rx.nodes
    BY <1>2, <2>1, RunningFacts, ProgramFacts DEF Consume, Consuming, Here
  <2> QED
    BY <1>2, <2>1, <2>2, <2>3, RunningFacts, TypeMove DEF Consume, Running
<1>3. CASE Remember
  <2>1. Running /\ Here.type \in Remembered
    BY <1>3 DEF Remember
  <2>2. path' \in Seq(Entry)
    BY <1>3, <2>1, RunningFacts, AppendProperties DEF Remember
  <2>3. node' \in DOMAIN rx.nodes
    BY <1>3, <2>1, RunningFacts, ProgramFacts DEF Remember, Remembered, Here
  <2> QED
    BY <1>3, <2>1, <2>2, <2>3, RunningFacts, TypeMove DEF Remember, Running
<1>4. CASE Pass
  <2>1. Running /\ Here.type \in Passed \cup {"ASSERTION"}
    BY <1>4 DEF Pass, Passes
  <2>2. node' \in DOMAIN rx.nodes
    BY <1>4, <2>1, RunningFacts, ProgramFacts DEF Pass, Passed, Here
  <2> QED
    BY <1>4, <2>1, <2>2, RunningFacts, TypeMove DEF Pass, Running
<1>5. CASE AnchorFail
  BY <1>5, RunningFacts, TypeMove DEF AnchorFail
<1>6. CASE Backtrack
  <2>1. Running
    BY <1>6 DEF Backtrack
  <2>2. PICK i \in DOMAIN path : /\ IsBranch(path[i])
                                 /\ node' = rx.nodes[path[i].node].u /\ pos' = path[i].pos
                                 /\ path' \in Seq(Entry)
    BY <1>6, BacktrackFacts
  <2>3. path[i] \in Entry
    BY <2>1, RunningFacts
  <2>4. node' \in DOMAIN rx.nodes
    BY <2>1, <2>2, <2>3, RunningFacts, ProgramFacts DEF IsBranch
  <2> QED
    BY <1>6, <2>1, <2>2, <2>3, <2>4, RunningFacts, TypeMove DEF Backtrack, Running
<1>7. CASE NextStart
  <2>1. Running /\ rx.start \in DOMAIN rx.nodes
    BY <1>7, RunningFacts, ProgramFacts DEF NextStart
  <2>2. start_pos' \in arg_pos..Len(str) /\ pos' \in 0..Len(str)
    BY <1>7, <2>1, RunningFacts DEF NextStart
  <2>3. path' \in Seq(Entry)
    BY <1>7 DEF NextStart
  <2> QED
    BY <1>7, <2>1, <2>2, <2>3, TypeMove DEF NextStart, Running
<1>8. CASE Exhausted
  BY <1>8, RunningFacts, TypeMove DEF Exhausted
<1>9. CASE MatchEnd
  <2>1. Running
    BY <1>9 DEF MatchEnd
  <2>2. rx.cap_count \in Nat /\ Here.u \in Int
    BY <2>1, RunningFacts, ProgramFacts DEF Node
  <2>3. ASSUME NEW k PROVE PosAt(k) \in Nat
    BY <2>1, RunningFacts DEF PosAt
  <2>4. ASSUME NEW j \in Slots PROVE caps'[j] \in Slot
    <3>1. Whole \in Slot
      BY <2>1, RunningFacts DEF Whole
    <3>2. Captured(j) \in Slot
      BY <2>3 DEF Captured
    <3>3. j \in DOMAIN caps => caps[j] \in Slot
      BY DEF TypeOK
    <3>4. j \notin 0..rx.cap_count => j \in DOMAIN caps
      BY DEF Slots
    <3> QED
      BY <1>9, <2>2, <3>1, <3>2, <3>3, <3>4 DEF MatchEnd
  <2>5. DOMAIN caps' = Slots
    BY <1>9 DEF MatchEnd
  <2>6. cap_count' \in Nat /\ 0..(cap_count' - 1) \subseteq Slots
    BY <1>9, <2>2 DEF MatchEnd, Slots
  <2>7. 0..(CapAllocated - 1) \subseteq Slots
    BY DEF TypeOK, Slots
  <2> QED
    BY <1>9, <2>1, <2>2, <2>4, <2>5, <2>6, <2>7, RunningFacts DEF MatchEnd, TypeOK
<1>10. CASE Return
  <2>1. path' \in Seq([node : DOMAIN rx'.nodes, pos : 0..Len(str')])
    BY <1>10 DEF Return
  <2> QED
    BY <1>10, <2>1 DEF Return, TypeOK
<1>11. CASE UNCHANGED vars
  BY <1>11 DEF vars, TypeOK
<1> QED
  BY <1>1, <1>2, <1>3, <1>4, <1>5, <1>6, <1>7, <1>8, <1>9, <1>10, <1>11 DEF Next, Step

(* The walk never leaves the graph, the string or the capture slots. *)
THEOREM TypeCorrect == Spec => []TypeOK
BY TypeInit, TypeStep, PTL DEF Spec

-----------------------------------------------------------------------------
(* The path.                                                               *)

(* A step keeps the positions of the path in order. *)
LEMMA PathStep == TypeOK /\ PathInOrder /\ [Next]_vars => PathInOrder'
<1> SUFFICES ASSUME TypeOK, PathInOrder, [Next]_vars PROVE PathInOrder'
  OBVIOUS
<1>1. ASSUME NEW g \in Programs, NEW s \in Strings, NEW p \in 0..Len(s), Call(g, s, p)
      PROVE  PathInOrder'
  <2>1. Len(s) \in Nat
    BY StringsAssumption
  <2> QED
    BY <1>1, <2>1 DEF Call, PathInOrder
<1>2. CASE Consume
  <2>1. Running
    BY <1>2 DEF Consume
  <2>2. Width(rx, Here, str, pos) \in Nat
    BY <2>1, RunningFacts, WidthBound
  <2>3. pos' >= pos
    BY <1>2, <2>1, <2>2, RunningFacts DEF Consume
  <2> QED
    BY <1>2, <2>1, <2>2, <2>3, RunningFacts DEF Consume, PathInOrder, Running
<1>3. CASE Remember
  <2>1. Running /\ Here.type \in Remembered
    BY <1>3 DEF Remember
  <2> DEFINE e == [node |-> node, pos |-> pos]
  <2>2. /\ Len(path) \in Nat /\ DOMAIN path = 1..Len(path)
        /\ Len(path') = Len(path) + 1 /\ DOMAIN path' = 1..(Len(path) + 1)
        /\ \A i \in DOMAIN path : path'[i] = path[i]
        /\ path'[Len(path) + 1] = e
    BY <1>3, <2>1, RunningFacts, AppendProperties DEF Remember
  <2>3. e.node = node /\ e.pos = pos /\ rx.nodes[e.node].type \in Remembered
    BY <2>1 DEF Here
  <2>4. /\ start_pos <= pos /\ start_pos \in Nat /\ pos \in Nat
        /\ \A i \in DOMAIN path :
             /\ path[i].pos \in Nat
             /\ rx.nodes[path[i].node].type \in Remembered
             /\ start_pos <= path[i].pos /\ path[i].pos <= pos
             /\ \A j \in i..Len(path) : path[i].pos <= path[j].pos
    BY <2>1, RunningFacts DEF PathInOrder, Running
  <2>5. UNCHANGED <<rx, start_pos, pos, status>>
    BY <1>3 DEF Remember
  <2>6. ASSUME NEW i \in DOMAIN path'
        PROVE  /\ rx.nodes[path'[i].node].type \in Remembered
               /\ start_pos <= path'[i].pos /\ path'[i].pos <= pos
               /\ \A j \in i..Len(path') : path'[i].pos <= path'[j].pos
    <3>1. CASE i \in DOMAIN path
      <4>1. \A j \in i..Len(path') : j \in i..Len(path) \/ j = Len(path) + 1
        BY <2>2
      <4>2. \A j \in i..Len(path) : j \in DOMAIN path
        BY <2>2, <3>1
      <4> QED
        BY <2>2, <2>3, <2>4, <3>1, <4>1, <4>2
    <3>2. CASE i = Len(path) + 1
      <4>1. \A j \in i..Len(path') : j = i
        BY <2>2, <3>2
      <4> QED
        BY <2>2, <2>3, <2>4, <3>2, <4>1
    <3> QED
      BY <2>2, <3>1, <3>2
  <2> QED
    BY <2>4, <2>5, <2>6 DEF PathInOrder
<1>4. CASE Pass
  BY <1>4 DEF Pass, PathInOrder, Running
<1>5. CASE AnchorFail
  BY <1>5 DEF AnchorFail, PathInOrder, Running
<1>6. CASE Backtrack
  <2>1. Running /\ UNCHANGED <<rx, start_pos, status>>
    BY <1>6, BacktrackFacts
  <2>2. PICK i \in DOMAIN path :
          /\ pos' = path[i].pos /\ i \in 1..Len(path) /\ Len(path) \in Nat
          /\ DOMAIN path = 1..Len(path)
          /\ Len(path') = i - 1 /\ DOMAIN path' = 1..(i - 1)
          /\ \A k \in 1..(i - 1) : path'[k] = path[k]
    BY <1>6, BacktrackFacts
  <2> QED
    BY <2>1, <2>2 DEF PathInOrder, Running
<1>7. CASE NextStart
  <2>1. Running /\ start_pos \in Nat
    BY <1>7, RunningFacts DEF NextStart
  <2> QED
    BY <1>7, <2>1 DEF NextStart, PathInOrder
<1>8. CASE Exhausted
  BY <1>8 DEF Exhausted, PathInOrder, Running
<1>9. CASE MatchEnd
  BY <1>9 DEF MatchEnd, PathInOrder, Running
<1>10. CASE Return
  BY <1>10 DEF Return, PathInOrder
<1>11. CASE UNCHANGED vars
  BY <1>11 DEF vars, PathInOrder
<1> QED
  BY <1>1, <1>2, <1>3, <1>4, <1>5, <1>6, <1>7, <1>8, <1>9, <1>10, <1>11 DEF Next, Step

(* Whatever is pushed and popped, the path holds only BRANCH and CAPTURE   *)
(* nodes, at positions that never go back.                                 *)
THEOREM PathOrdered == Spec => []PathInOrder
<1>1. Init => PathInOrder
  BY DEF Init, PathInOrder
<1> QED
  BY <1>1, PathStep, TypeCorrect, PTL DEF Spec

-----------------------------------------------------------------------------
(* What a turn of the loop does to the configuration.                      *)

LEMMA ConsumeSteps ==
  ASSUME TypeOK, Consume
  PROVE  /\ Steps(rx, str, start_pos, <<node, pos>>) = {<<node', pos'>>}
         /\ ~Accepting(rx, <<node, pos>>)
BY DEF Consume, Consuming, Steps, Accepting, Here

LEMMA RememberSteps ==
  ASSUME TypeOK, Remember
  PROVE  /\ Steps(rx, str, start_pos, <<node, pos>>) =
              {<<node', pos'>>} \cup (IF Here.type = "BRANCH" THEN {<<Here.u, pos>>} ELSE {})
         /\ ~Accepting(rx, <<node, pos>>)
<1>1. Here.type \in Remembered /\ pos' = pos /\ node' = Here.next
  BY DEF Remember
<1>2. CASE Here.type = "BRANCH"
  BY <1>1, <1>2 DEF Steps, Accepting, Here
<1>3. CASE Here.type # "BRANCH"
  <2>1. Here.type \notin Consuming
    BY <1>1 DEF Consuming, Remembered
  <2> QED
    BY <1>1, <1>3, <2>1 DEF Steps, Accepting, Here, Remembered
<1> QED
  BY <1>2, <1>3

LEMMA PassSteps ==
  ASSUME TypeOK, Pass
  PROVE  /\ Steps(rx, str, start_pos, <<node, pos>>) = {<<node', pos'>>}
         /\ ~Accepting(rx, <<node, pos>>)
<1>1. Passes(Here, str, start_pos, pos) /\ pos' = pos /\ node' = Here.next
  BY DEF Pass
<1>2. Here.type \in Passed \cup {"ASSERTION"}
  BY <1>1 DEF Passes
<1>3. Here.type \notin Consuming /\ Here.type # "BRANCH" /\ Here.type # "MATCH_END"
  BY <1>2 DEF Passed, Consuming
<1> QED
  BY <1>1, <1>3 DEF Steps, Accepting, Here

(* A node that fails has nothing after it. *)
LEMMA FailsSteps ==
  ASSUME TypeOK, Running, Fails
  PROVE  /\ Steps(rx, str, start_pos, <<node, pos>>) = {}
         /\ ~Accepting(rx, <<node, pos>>)
<1>1. CASE Here.type \in Consuming /\ Width(rx, Here, str, pos) = 0
  BY <1>1 DEF Steps, Accepting, Here, Consuming, Remembered, Passes, Passed
<1>2. CASE Here.type = "ASSERTION" /\ ~MatchAssertion(Here.u, start_pos, str, pos)
  BY <1>2 DEF Steps, Accepting, Here, Consuming, Remembered, Passes, Passed
<1>3. CASE Here.type = "VISITED"
  BY <1>3 DEF Steps, Accepting, Here, Consuming, Remembered, Passes, Passed
<1> QED
  BY <1>1, <1>2, <1>3 DEF Fails

(* A configuration from which nothing follows is not viable. *)
LEMMA DeadEnd ==
  ASSUME NEW g \in Programs, NEW s \in Strings, NEW t \in 0..Len(s), NEW c,
         Steps(g, s, t, c) = {}, ~Accepting(g, c)
  PROVE  c \notin Viable(g, s, t)
BY ViableAssumption

(* Where the walk can still go after it has remembered a node: along its   *)
(* next edge at once, along the other edge of a BRANCH later.              *)
LEMMA Append1 ==
  ASSUME NEW S, NEW q \in Seq(S), NEW e
  PROVE  /\ Len(q) \in Nat /\ DOMAIN q = 1..Len(q)
         /\ DOMAIN Append(q, e) = 1..(Len(q) + 1)
         /\ \A i \in DOMAIN q : i \in DOMAIN Append(q, e) /\ Append(q, e)[i] = q[i]
         /\ Append(q, e)[Len(q) + 1] = e
OBVIOUS

LEMMA FailsDead ==
  ASSUME TypeOK, Running, Fails
  PROVE  <<node, pos>> \notin Viable(rx, str, start_pos)
<1>1. rx \in Programs /\ str \in Strings /\ start_pos \in 0..Len(str)
  BY RunningFacts
<1>2. Steps(rx, str, start_pos, <<node, pos>>) = {} /\ ~Accepting(rx, <<node, pos>>)
  BY FailsSteps
<1> QED
  BY <1>1, <1>2, DeadEnd

-----------------------------------------------------------------------------
(* A match is real: what is on the walk, or may be fallen back to, is       *)
(* reachable.                                                              *)

RealInv == status # "idle" => \A c : Pending(c) => c \in Reached(rx, str, start_pos)

(* A configuration reachable from a reachable one is reachable. *)
LEMMA ReachedClosed ==
  ASSUME TypeOK, Running, NEW n \in DOMAIN rx.nodes, NEW p \in 0..Len(str),
         <<n, p>> \in Reached(rx, str, start_pos)
  PROVE  Steps(rx, str, start_pos, <<n, p>>) \subseteq Reached(rx, str, start_pos)
<1>1. rx \in Programs /\ str \in Strings /\ start_pos \in 0..Len(str)
  BY RunningFacts
<1>2. <<n, p>> \in Configs(rx, str)
  BY DEF Configs
<1> QED
  BY <1>1, <1>2, ReachedAssumption

LEMMA RealStep == TypeOK /\ RealInv /\ [Next]_vars => RealInv'
<1> SUFFICES ASSUME TypeOK, RealInv, [Next]_vars PROVE RealInv'
  OBVIOUS
<1>1. ASSUME NEW g \in Programs, NEW s \in Strings, NEW p \in 0..Len(s), Call(g, s, p)
      PROVE  RealInv'
  <2>1. <<g.start, p>> \in Reached(g, s, p)
    BY ReachedAssumption
  <2>2. rx' = g /\ str' = s /\ start_pos' = p /\ pos' = p /\ node' = g.start /\ path' = <<>>
    BY <1>1 DEF Call
  <2> QED
    BY <2>1, <2>2 DEF RealInv, Pending
<1>2. CASE Consume
  <2>1. Running /\ <<node, pos>> \in Reached(rx, str, start_pos)
    BY <1>2 DEF Consume, RealInv, Running, Pending
  <2>2. <<node', pos'>> \in Reached(rx, str, start_pos)
    BY <1>2, <2>1, RunningFacts, ConsumeSteps, ReachedClosed
  <2>3. UNCHANGED <<rx, str, start_pos, path, status>>
    BY <1>2 DEF Consume
  <2> QED
    BY <2>1, <2>2, <2>3 DEF RealInv, Pending, IsBranch, Running
<1>3. CASE Remember
  <2>1. Running /\ <<node, pos>> \in Reached(rx, str, start_pos)
    BY <1>3 DEF Remember, RealInv, Running, Pending
  <2>2. Steps(rx, str, start_pos, <<node, pos>>) \subseteq Reached(rx, str, start_pos)
    BY <2>1, RunningFacts, ReachedClosed
  <2>3. <<node', pos'>> \in Reached(rx, str, start_pos)
    BY <1>3, <2>2, RememberSteps
  <2>4. Here.type = "BRANCH" => <<Here.u, pos>> \in Reached(rx, str, start_pos)
    BY <1>3, <2>2, RememberSteps
  <2>5. UNCHANGED <<rx, str, start_pos, status>>
    BY <1>3 DEF Remember
  <2>6. ASSUME NEW i \in DOMAIN path', IsBranch(path[i])'
        PROVE  <<rx.nodes[path'[i].node].u, path'[i].pos>> \in Reached(rx, str, start_pos)
    <3> DEFINE e == [node |-> node, pos |-> pos]
    <3>1. /\ Len(path) \in Nat /\ DOMAIN path = 1..Len(path)
          /\ DOMAIN path' = 1..(Len(path) + 1)
          /\ \A k \in DOMAIN path : path'[k] = path[k]
          /\ path'[Len(path) + 1] = e
      BY <1>3, <2>1, RunningFacts, Append1 DEF Remember
    <3>2. CASE i \in DOMAIN path
      BY <2>1, <2>5, <2>6, <3>1, <3>2 DEF RealInv, Pending, IsBranch, Running
    <3>3. CASE i = Len(path) + 1
      BY <2>4, <2>5, <2>6, <3>1, <3>3 DEF IsBranch, Here
    <3> QED
      BY <3>1, <3>2, <3>3
  <2> QED
    BY <2>3, <2>5, <2>6 DEF RealInv, Pending
<1>4. CASE Pass
  <2>1. Running /\ <<node, pos>> \in Reached(rx, str, start_pos)
    BY <1>4 DEF Pass, RealInv, Running, Pending
  <2>2. <<node', pos'>> \in Reached(rx, str, start_pos)
    BY <1>4, <2>1, RunningFacts, PassSteps, ReachedClosed
  <2>3. UNCHANGED <<rx, str, start_pos, path, status>>
    BY <1>4 DEF Pass
  <2> QED
    BY <2>1, <2>2, <2>3 DEF RealInv, Pending, IsBranch, Running
<1>5. CASE AnchorFail
  BY <1>5 DEF AnchorFail, RealInv, Pending, IsBranch, Running
<1>6. CASE Backtrack
  <2>1. Running /\ UNCHANGED <<rx, str, start_pos, status>>
    BY <1>6, BacktrackFacts
  <2>2. PICK i \in DOMAIN path :
          /\ IsBranch(path[i]) /\ node' = rx.nodes[path[i].node].u /\ pos' = path[i].pos
          /\ i \in 1..Len(path) /\ Len(path) \in Nat /\ DOMAIN path = 1..Len(path)
          /\ DOMAIN path' = 1..(i - 1) /\ \A k \in 1..(i - 1) : path'[k] = path[k]
    BY <1>6, BacktrackFacts
  <2>3. \A c : Pending(c) => c \in Reached(rx, str, start_pos)
    BY <2>1 DEF RealInv, Running
  <2>4. <<node', pos'>> \in Reached(rx, str, start_pos)
    BY <2>2, <2>3 DEF Pending
  <2>5. \A k \in DOMAIN path' : k \in DOMAIN path /\ path'[k] = path[k]
    BY <2>2
  <2>6. \A k \in DOMAIN path' : IsBranch(path[k])' =>
          <<rx'.nodes[path'[k].node].u, path'[k].pos>> \in Reached(rx, str, start_pos)
    BY <2>1, <2>3, <2>5 DEF Pending, IsBranch
  <2> QED
    BY <2>1, <2>4, <2>6 DEF RealInv, Pending
<1>7. CASE NextStart
  <2>1. Running /\ UNCHANGED <<rx, str>>
    BY <1>7 DEF NextStart
  <2>2. start_pos' \in 0..Len(str) /\ rx \in Programs /\ str \in Strings
    BY <1>7, <2>1, RunningFacts DEF NextStart
  <2>3. <<rx.start, start_pos'>> \in Reached(rx, str, start_pos')
    BY <2>2, ReachedAssumption
  <2>4. node' = rx.start /\ pos' = start_pos' /\ path' = <<>>
    BY <1>7 DEF NextStart
  <2> QED
    BY <2>1, <2>3, <2>4 DEF RealInv, Pending
<1>8. CASE Exhausted
  BY <1>8 DEF Exhausted, RealInv, Pending, IsBranch, Running
<1>9. CASE MatchEnd
  BY <1>9 DEF MatchEnd, RealInv, Pending, IsBranch, Running
<1>10. CASE Return
  BY <1>10 DEF Return, RealInv
<1>11. CASE UNCHANGED vars
  BY <1>11 DEF vars, RealInv, Pending, IsBranch
<1> QED
  BY <1>1, <1>2, <1>3, <1>4, <1>5, <1>6, <1>7, <1>8, <1>9, <1>10, <1>11 DEF Next, Step

(* Every configuration the walk is in or may fall back to is reachable     *)
(* from the start of the attempt: a reported match is a match.             *)
THEOREM MatchesAreReal == Spec => []MatchIsReal
<1>1. Init => RealInv
  BY DEF Init, RealInv
<1>2. RealInv => MatchIsReal
  BY DEF RealInv, MatchIsReal
<1> QED
  BY <1>1, <1>2, RealStep, TypeCorrect, PTL DEF Spec

-----------------------------------------------------------------------------
(* The search is complete: no alternative and no start position is lost.   *)

(* An attempt whose graph begins with its anchor is at the anchor only at  *)
(* its start.  Without this, AnchorFail would say nothing of later starts. *)
StartFresh == Running /\ AnchorsLead(rx) /\ node = rx.start => pos = start_pos

LEMMA FreshStep == TypeOK /\ StartFresh /\ [Next]_vars => StartFresh'
<1> SUFFICES ASSUME TypeOK, StartFresh, [Next]_vars, StartFresh!1' PROVE (pos = start_pos)'
  BY DEF StartFresh
<1>1. ASSUME NEW n \in DOMAIN rx.nodes, UNCHANGED rx
      PROVE  /\ rx.nodes[n].type \notin {"MATCH_END", "VISITED"} => rx.nodes[n].next # rx.start
             /\ rx.nodes[n].type = "BRANCH" => rx.nodes[n].u # rx.start
  BY <1>1 DEF AnchorsLead, Successors
<1>2. ASSUME NEW g \in Programs, NEW s \in Strings, NEW p \in 0..Len(s), Call(g, s, p)
      PROVE  pos' = start_pos'
  BY <1>2 DEF Call
<1>3. CASE Consume \/ Remember \/ Pass
  <2>1. node' = Here.next /\ Here.type \notin {"MATCH_END", "VISITED"} /\ Running /\ UNCHANGED rx
    BY <1>3 DEF Consume, Remember, Pass, Passes, Consuming, Remembered, Passed
  <2>2. node' # rx.start
    BY <1>1, <2>1, RunningFacts DEF Here
  <2> QED
    BY <2>1, <2>2
<1>4. CASE AnchorFail \/ Exhausted \/ MatchEnd \/ Return
  BY <1>4 DEF AnchorFail, Exhausted, MatchEnd, Return, Running
<1>5. CASE Backtrack
  <2>1. PICK i \in DOMAIN path : IsBranch(path[i]) /\ node' = rx.nodes[path[i].node].u
    BY <1>5, BacktrackFacts
  <2>2. UNCHANGED rx /\ path[i].node \in DOMAIN rx.nodes
    BY <1>5, BacktrackFacts, RunningFacts
  <2>3. node' # rx.start
    BY <1>1, <2>1, <2>2 DEF IsBranch
  <2> QED
    BY <2>2, <2>3
<1>6. CASE NextStart
  BY <1>6 DEF NextStart
<1>7. CASE UNCHANGED vars
  BY <1>7 DEF vars, StartFresh, Running, AnchorsLead
<1> QED
  BY <1>2, <1>3, <1>4, <1>5, <1>6, <1>7 DEF Next, Step

(* When nothing is left to try, the attempt had no match. *)
LEMMA NoneLeft ==
  ASSUME TypeOK, NothingLost, Running, Fails, NoAlternative
  PROVE  <<rx.start, start_pos>> \notin Viable(rx, str, start_pos)
<1>1. <<node, pos>> \notin Viable(rx, str, start_pos)
  BY FailsDead
<1>2. \A c : Pending(c) => c = <<node, pos>>
  BY DEF Pending, NoAlternative
<1> QED
  BY <1>1, <1>2 DEF NothingLost

(* If the walk is at a viable configuration, one of its successors is. *)
LEMMA ViableSuccessor ==
  ASSUME TypeOK, Running, <<node, pos>> \in Viable(rx, str, start_pos),
         ~Accepting(rx, <<node, pos>>)
  PROVE  \E d \in Steps(rx, str, start_pos, <<node, pos>>) : d \in Viable(rx, str, start_pos)
BY RunningFacts, ViableAssumption

LEMMA LostStep == TypeOK /\ NothingLost /\ [Next]_vars => NothingLost'
<1> SUFFICES ASSUME TypeOK, NothingLost, [Next]_vars, NothingLost!1'
             PROVE  (\E c \in Viable(rx, str, start_pos) : Pending(c))'
  BY DEF NothingLost
<1> DEFINE V == Viable(rx, str, start_pos)
<1>1. ASSUME NEW g \in Programs, NEW s \in Strings, NEW p \in 0..Len(s), Call(g, s, p)
      PROVE  (\E c \in V : Pending(c))'
  BY <1>1 DEF Call, Pending
<1>2. CASE Consume \/ Pass
  <2>1. /\ Running /\ UNCHANGED <<rx, str, start_pos, path>>
        /\ Steps(rx, str, start_pos, <<node, pos>>) = {<<node', pos'>>}
        /\ ~Accepting(rx, <<node, pos>>)
    BY <1>2, ConsumeSteps, PassSteps DEF Consume, Pass
  <2>2. PICK c \in V : Pending(c)
    BY <2>1 DEF NothingLost
  <2>3. CASE c = <<node, pos>>
    <3>1. <<node', pos'>> \in V
      BY <2>1, <2>2, <2>3, ViableSuccessor
    <3> QED
      BY <2>1, <3>1 DEF Pending
  <2>4. CASE c # <<node, pos>>
    BY <2>1, <2>2, <2>4 DEF Pending, IsBranch
  <2> QED
    BY <2>3, <2>4
<1>3. CASE Remember
  <2>1. /\ Running /\ UNCHANGED <<rx, str, start_pos>> /\ pos' = pos
        /\ ~Accepting(rx, <<node, pos>>)
        /\ \A d \in Steps(rx, str, start_pos, <<node, pos>>) :
             d = <<node', pos'>> \/ (Here.type = "BRANCH" /\ d = <<Here.u, pos>>)
    BY <1>3, RememberSteps DEF Remember
  <2> DEFINE e == [node |-> node, pos |-> pos]
  <2>2. /\ Len(path) \in Nat /\ DOMAIN path' = 1..(Len(path) + 1)
        /\ \A k \in DOMAIN path : k \in DOMAIN path' /\ path'[k] = path[k]
        /\ path'[Len(path) + 1] = e
    BY <1>3, <2>1, RunningFacts, Append1 DEF Remember
  <2>3. PICK c \in V : Pending(c)
    BY <2>1 DEF NothingLost
  <2>4. CASE c = <<node, pos>>
    <3>1. PICK d \in V : d = <<node', pos'>> \/ (Here.type = "BRANCH" /\ d = <<Here.u, pos>>)
      BY <2>1, <2>3, <2>4, ViableSuccessor
    <3>2. CASE d = <<node', pos'>>
      BY <2>1, <3>1, <3>2 DEF Pending
    <3>3. CASE Here.type = "BRANCH" /\ d = <<Here.u, pos>>
      <4>1. PICK k \in DOMAIN path' : path'[k] = e
        BY <2>2
      <4>2. IsBranch(path[k])' /\ d = <<rx'.nodes[path'[k].node].u, path'[k].pos>>
        BY <2>1, <3>3, <4>1 DEF IsBranch, Here
      <4> QED
        BY <2>1, <3>1, <4>1, <4>2 DEF Pending
    <3> QED
      BY <3>1, <3>2, <3>3
  <2>5. CASE c # <<node, pos>>
    <3>1. PICK i \in DOMAIN path :
            IsBranch(path[i]) /\ c = <<rx.nodes[path[i].node].u, path[i].pos>>
      BY <2>3, <2>5 DEF Pending
    <3> QED
      BY <2>1, <2>2, <2>3, <3>1 DEF Pending, IsBranch
  <2> QED
    BY <2>4, <2>5
<1>4. CASE AnchorFail \/ Exhausted \/ MatchEnd \/ Return
  BY <1>4 DEF AnchorFail, Exhausted, MatchEnd, Return, Running
<1>5. CASE Backtrack
  <2>1. Running /\ Fails /\ UNCHANGED <<rx, str, start_pos>>
    BY <1>5, BacktrackFacts
  <2>2. PICK i \in DOMAIN path :
          /\ \A j \in DOMAIN path : IsBranch(path[j]) => j <= i
          /\ node' = rx.nodes[path[i].node].u /\ pos' = path[i].pos
          /\ i \in 1..Len(path) /\ Len(path) \in Nat /\ DOMAIN path = 1..Len(path)
          /\ DOMAIN path' = 1..(i - 1) /\ \A k \in 1..(i - 1) : path'[k] = path[k]
    BY <1>5, BacktrackFacts
  <2>3. PICK c \in V : Pending(c)
    BY <2>1 DEF NothingLost
  <2>4. c # <<node, pos>>
    BY <2>1, <2>3, FailsDead
  <2>5. PICK j \in DOMAIN path :
          IsBranch(path[j]) /\ c = <<rx.nodes[path[j].node].u, path[j].pos>>
    BY <2>3, <2>4 DEF Pending
  <2>6. CASE j = i
    BY <2>1, <2>2, <2>3, <2>5, <2>6 DEF Pending
  <2>7. CASE j # i
    <3>1. j \in DOMAIN path' /\ path'[j] = path[j]
      BY <2>2, <2>5, <2>7
    <3> QED
      BY <2>1, <2>3, <2>5, <3>1 DEF Pending, IsBranch
  <2> QED
    BY <2>6, <2>7
<1>6. CASE NextStart
  BY <1>6 DEF NextStart, Pending
<1>7. CASE UNCHANGED vars
  BY <1>7 DEF vars, NothingLost, Pending, IsBranch, Running
<1> QED
  BY <1>1, <1>2, <1>3, <1>4, <1>5, <1>6, <1>7 DEF Next, Step

(* A start that was given up could not match, and when the call ends       *)
(* without a match neither could any other.                                *)
LEMMA LeftmostStep ==
  TypeOK /\ NothingLost /\ Leftmost /\ [Next]_vars => Leftmost'
<1> SUFFICES ASSUME TypeOK, NothingLost, Leftmost, [Next]_vars, Leftmost!1'
             PROVE  (\A t \in arg_pos..(start_pos - 1) : <<rx.start, t>> \notin Viable(rx, str, t))'
  BY DEF Leftmost
<1>1. ASSUME NEW g \in Programs, NEW s \in Strings, NEW p \in 0..Len(s), Call(g, s, p)
      PROVE  (\A t \in arg_pos..(start_pos - 1) : <<rx.start, t>> \notin Viable(rx, str, t))'
  <2>1. Len(s) \in Nat
    BY StringsAssumption
  <2>2. arg_pos' = p /\ start_pos' = p /\ p \in Nat
    BY <1>1, <2>1 DEF Call
  <2> QED
    BY <2>2
<1>2. CASE Consume \/ Remember \/ Pass \/ Backtrack \/ MatchEnd
  BY <1>2 DEF Consume, Remember, Pass, Backtrack, MatchEnd, Leftmost, Running
<1>3. CASE AnchorFail \/ Exhausted \/ Return
  BY <1>3 DEF AnchorFail, Exhausted, Return
<1>4. CASE NextStart
  <2>1. Running /\ Fails /\ NoAlternative /\ UNCHANGED <<rx, str, arg_pos>> /\ start_pos' = start_pos + 1
    BY <1>4 DEF NextStart
  <2>2. <<rx.start, start_pos>> \notin Viable(rx, str, start_pos)
    BY <2>1, NoneLeft
  <2>3. arg_pos \in Nat /\ start_pos \in Nat
    BY <2>1, RunningFacts
  <2>4. \A t \in arg_pos..(start_pos - 1) : <<rx.start, t>> \notin Viable(rx, str, t)
    BY <2>1 DEF Leftmost, Running
  <2>5. \A t \in arg_pos..(start_pos' - 1) : t \in arg_pos..(start_pos - 1) \/ t = start_pos
    BY <2>1, <2>3
  <2> QED
    BY <2>1, <2>2, <2>4, <2>5
<1>5. CASE UNCHANGED vars
  BY <1>5 DEF vars, Leftmost
<1> QED
  BY <1>1, <1>2, <1>3, <1>4, <1>5 DEF Next, Step

(* A leading anchor that fails here would fail at every later start. *)
LEMMA AnchorNever ==
  ASSUME TypeOK, StartFresh, AnchorFail, AnchorsLead(rx)
  PROVE  \A t \in start_pos..Len(str) : <<rx.start, t>> \notin Viable(rx, str, t)
<1>1. Running /\ Anchor /\ ~MatchAssertion(Here.u, start_pos, str, pos)
  BY DEF AnchorFail
<1>2. node = rx.start /\ pos = start_pos
  BY <1>1, RunningFacts DEF AnchorsLead, Anchor, Here, StartFresh
<1>3. Here.type = "ASSERTION" /\ Here.u = ASSERT_SOS /\ start_pos # 0
  BY <1>1, <1>2 DEF Anchor, MatchAssertion, ASSERT_SOS, ASSERT_SOP
<1>4. ASSUME NEW t \in start_pos..Len(str)
      PROVE  <<rx.start, t>> \notin Viable(rx, str, t)
  <2>1. rx \in Programs /\ str \in Strings /\ t \in 0..Len(str) /\ t # 0
    BY <1>1, <1>3, RunningFacts
  <2>2. ~MatchAssertion(ASSERT_SOS, t, str, t)
    BY <2>1 DEF MatchAssertion, ASSERT_SOS, ASSERT_SOL, ASSERT_EOS, ASSERT_EOL, ASSERT_SOP,
                ASSERT_SOW, ASSERT_EOW
  <2>3. Steps(rx, str, t, <<rx.start, t>>) = {} /\ ~Accepting(rx, <<rx.start, t>>)
    BY <1>2, <1>3, <2>2 DEF Steps, Accepting, Here, Passes, Passed, Consuming, Remembered
  <2> QED
    BY <2>1, <2>3, DeadEnd
<1> QED
  BY <1>4

LEMMA MissedStep ==
  TypeOK /\ StartFresh /\ NothingLost /\ Leftmost /\ NoMissedMatch /\ [Next]_vars => NoMissedMatch'
<1> SUFFICES ASSUME TypeOK, StartFresh, NothingLost, Leftmost, NoMissedMatch, [Next]_vars,
                    NoMissedMatch!1'
             PROVE  (\A t \in arg_pos..Len(str) : <<rx.start, t>> \notin Viable(rx, str, t))'
  BY DEF NoMissedMatch
<1>1. CASE AnchorFail \/ Exhausted
  <2>1. /\ Running /\ AnchorsLead(rx) /\ UNCHANGED <<rx, str, arg_pos, start_pos>>
        /\ arg_pos \in Nat /\ start_pos \in Nat /\ Len(str) \in Nat
    BY <1>1, RunningFacts DEF AnchorFail, Exhausted, AnchorsLead
  <2>2. \A t \in arg_pos..(start_pos - 1) : <<rx.start, t>> \notin Viable(rx, str, t)
    BY <2>1 DEF Leftmost, Running
  <2>3. \A t \in start_pos..Len(str) : <<rx.start, t>> \notin Viable(rx, str, t)
    <3>1. CASE AnchorFail
      BY <2>1, <3>1, AnchorNever
    <3>2. CASE Exhausted
      <4>1. <<rx.start, start_pos>> \notin Viable(rx, str, start_pos) /\ start_pos = Len(str)
        BY <3>2, NoneLeft DEF Exhausted
      <4> QED
        BY <2>1, <4>1
    <3> QED
      BY <1>1, <3>1, <3>2
  <2>4. \A t \in arg_pos..Len(str) : t \in arg_pos..(start_pos - 1) \/ t \in start_pos..Len(str)
    BY <2>1
  <2> QED
    BY <2>1, <2>2, <2>3, <2>4
<1>2. ASSUME NEW g \in Programs, NEW s \in Strings, NEW p \in 0..Len(s), Call(g, s, p)
      PROVE  FALSE
  BY <1>2 DEF Call
<1>3. CASE Consume \/ Remember \/ Pass \/ Backtrack \/ NextStart \/ MatchEnd \/ Return
  BY <1>3 DEF Consume, Remember, Pass, Backtrack, NextStart, MatchEnd, Return, Running
<1>4. CASE UNCHANGED vars
  BY <1>4 DEF vars, NoMissedMatch, AnchorsLead
<1> QED
  BY <1>1, <1>2, <1>3, <1>4 DEF Next, Step

(* The invariant the search is correct by. *)
SearchInv == TypeOK /\ StartFresh /\ NothingLost /\ Leftmost /\ NoMissedMatch

LEMMA SearchInvariant == Spec => []SearchInv
<1>1. Init => StartFresh /\ NothingLost /\ Leftmost /\ NoMissedMatch
  BY DEF Init, StartFresh, NothingLost, Leftmost, NoMissedMatch, Running
<1>2. Init => SearchInv
  BY <1>1, TypeInit DEF SearchInv
<1>3. SearchInv /\ [Next]_vars => SearchInv'
  BY TypeStep, FreshStep, LostStep, LeftmostStep, MissedStep DEF SearchInv
<1> QED
  BY <1>2, <1>3, PTL DEF Spec

(* As long as the attempt can succeed, a configuration from which it can   *)
(* is at hand or on the path: try_alternative drops no alternative.        *)
THEOREM AlternativesKept == Spec => []NothingLost
<1>1. SearchInv => NothingLost
  BY DEF SearchInv
<1> QED
  BY <1>1, SearchInvariant, PTL

(* No start position before the current one could have matched.            *)
THEOREM LeftmostFirst == Spec => []Leftmost
<1>1. SearchInv => Leftmost
  BY DEF SearchInv
<1> QED
  BY <1>1, SearchInvariant, PTL

(* 0 is returned only when no start position from the given one on can     *)
(* match.                                                                  *)
THEOREM NoMatchMissed == Spec => []NoMissedMatch
<1>1. SearchInv => NoMissedMatch
  BY DEF SearchInv
<1> QED
  BY <1>1, SearchInvariant, PTL

-----------------------------------------------------------------------------
(* rx_match keeps its contract.                                            *)

ContractInv == SearchInv /\ PathInOrder /\ RealInv

LEMMA ContractInvariant == Spec => []ContractInv
<1>1. Init => PathInOrder /\ RealInv
  BY DEF Init, PathInOrder, RealInv
<1> QED
  BY <1>1, SearchInvariant, PathStep, RealStep, PTL DEF Spec, ContractInv, SearchInv

(* A step of the walk is a step of the contract, or one it does not see. *)
LEMMA ContractStep ==
  ContractInv /\ ContractInv' /\ [Next]_vars => [Contract!Next]_(Contract!cvars)
<1> SUFFICES ASSUME ContractInv, ContractInv', [Next]_vars
             PROVE  Contract!Next \/ UNCHANGED Contract!cvars
  OBVIOUS
<1> USE DEF ContractInv, SearchInv
<1>1. ASSUME NEW g \in Programs, NEW s \in Strings, NEW p \in 0..Len(s), Call(g, s, p)
      PROVE  Contract!Next
  <2>1. Contract!Ask(g, s, p)
    BY <1>1 DEF Call, Contract!Ask
  <2> QED
    BY <2>1 DEF Contract!Next
<1>2. CASE Consume \/ Remember \/ Pass \/ Backtrack \/ NextStart
  BY <1>2 DEF Consume, Remember, Pass, Backtrack, NextStart, Running, Contract!cvars
<1>3. CASE AnchorFail \/ Exhausted
  <2>1. /\ status = "running" /\ status' = "failed" /\ UNCHANGED <<rx, str, arg_pos>>
    BY <1>3 DEF AnchorFail, Exhausted, Running
  <2>2. AnchorsLead(rx)' => \A t \in arg_pos..Len(str) : <<rx.start, t>> \notin Viable(rx, str, t)
    BY <2>1 DEF NoMissedMatch
  <2>3. Contract!ReplyNoMatch
    BY <2>1, <2>2 DEF Contract!ReplyNoMatch, Contract!CanMatchAt, AnchorsLead
  <2> QED
    BY <2>3 DEF Contract!Next
<1>4. CASE MatchEnd
  <2>1. /\ Running /\ Here.type = "MATCH_END" /\ status' = "matched"
        /\ UNCHANGED <<rx, str, arg_pos, start_pos, pos, node, path>>
    BY <1>4 DEF MatchEnd
  <2>2. start_pos \in arg_pos..Len(str) /\ pos \in 0..Len(str) /\ node \in DOMAIN rx.nodes
    BY <2>1, RunningFacts
  <2>3. <<node, pos>> \in Reached(rx, str, start_pos)
    BY <2>1 DEF RealInv, Pending, Running
  <2>4. \A u \in arg_pos..(start_pos - 1) : <<rx.start, u>> \notin Viable(rx, str, u)
    BY <2>1 DEF Leftmost, Running
  <2>5. start_pos <= pos
    BY <2>1 DEF PathInOrder, Running
  <2>6. Contract!ReplyMatch
    BY <2>1, <2>2, <2>3, <2>4, <2>5 DEF Contract!ReplyMatch, Contract!CanMatchAt, Running, Here
  <2> QED
    BY <2>6 DEF Contract!Next
<1>5. CASE Return
  <2>1. Contract!Return
    BY <1>5 DEF Return, Contract!Return, NoRx, Contract!NoRx, NULL, Contract!NULL
  <2> QED
    BY <2>1 DEF Contract!Next
<1>6. CASE UNCHANGED vars
  BY <1>6 DEF vars, Contract!cvars
<1> QED
  BY <1>1, <1>2, <1>3, <1>4, <1>5, <1>6 DEF Next, Step

(* Whatever the walk does, the caller sees a call answered by a match at   *)
(* the first start position that has one, or by 0 when there is none.      *)
THEOREM KeepsContract == Spec => Contract!Safety
<1>1. Init => Contract!Init
  BY DEF Init, Contract!Init, NoRx, Contract!NoRx, NULL, Contract!NULL
<1> QED
  BY <1>1, ContractInvariant, ContractStep, PTL DEF Spec, Contract!Safety
-----------------------------------------------------------------------------
(* The captures.                                                           *)

Opens(g, n, j) == g.nodes[n].type = "CAPTURE_START" /\ g.nodes[n].u = j
Closes(g, n, j) == g.nodes[n].type = "CAPTURE_END" /\ g.nodes[n].u = j

(* The nodes of g that a walk can come to before it has opened capture j,  *)
(* while it is open, and after it was closed.                              *)
Phases(g, j, fresh, open, closed) ==
  /\ g.start \in fresh
  /\ \A n \in fresh :
       /\ ~Closes(g, n, j)
       /\ Successors(g.nodes[n]) \subseteq IF Opens(g, n, j) THEN open ELSE fresh
  /\ \A n \in open :
       /\ g.nodes[n].type # "MATCH_END"
       /\ Successors(g.nodes[n]) \subseteq IF Closes(g, n, j) THEN closed ELSE open
  /\ \A n \in closed :
       Successors(g.nodes[n]) \subseteq IF Opens(g, n, j) THEN open ELSE closed

(* No way through the graph closes a capture that it has not opened, or    *)
(* comes to MATCH_END with one open.  TLC checks this of what rx_init      *)
(* builds: CapturesPaired of Compile.                                      *)
CapturesInPairs(g) ==
  \A j \in 1..g.cap_count : \E fresh, open, closed \in SUBSET DOMAIN g.nodes : Phases(g, j, fresh, open, closed)

(* What the first k entries of a path say of capture j. *)
Opened(g, q, j, k) == \E i \in 1..k : Opens(g, q[i].node, j)
StillOpen(g, q, j, k) ==
  \E i \in 1..k : /\ Opens(g, q[i].node, j)
                  /\ \A l \in (i + 1)..k : ~Closes(g, q[l].node, j)

(* Node n is one that the walk may come to after these entries. *)
InPhase(g, q, j, k, n, fresh, open, closed) ==
  IF ~Opened(g, q, j, k) THEN n \in fresh
  ELSE IF StillOpen(g, q, j, k) THEN n \in open
  ELSE n \in closed

(* Every node of the path, and node n after it, is where it may be. *)
InPhases(g, q, n, j, fresh, open, closed) ==
  /\ \A k \in DOMAIN q : InPhase(g, q, j, k - 1, q[k].node, fresh, open, closed)
  /\ InPhase(g, q, j, Len(q), n, fresh, open, closed)

PhaseInv ==
  status # "idle" =>
    \A j \in 1..rx.cap_count : \A fresh, open, closed \in SUBSET DOMAIN rx.nodes :
      Phases(rx, j, fresh, open, closed) => InPhases(rx, path, node, j, fresh, open, closed)

(* Only the first entries of the path matter. *)
LEMMA SamePrefix ==
  ASSUME NEW g, NEW q, NEW r, NEW j, NEW k \in Nat, \A i \in 1..k : q[i] = r[i],
         NEW n, NEW fresh, NEW open, NEW closed, InPhase(g, q, j, k, n, fresh, open, closed)
  PROVE  InPhase(g, r, j, k, n, fresh, open, closed)
<1>1. Opened(g, q, j, k) <=> Opened(g, r, j, k)
  BY DEF Opened
<1>2. StillOpen(g, q, j, k) <=> StillOpen(g, r, j, k)
  BY DEF StillOpen
<1> QED
  BY <1>1, <1>2 DEF InPhase

(* From a node that is no capture an edge leads to nodes of the same phase. *)
LEMMA SamePhase ==
  ASSUME NEW g, NEW q, NEW j, NEW k, NEW n, NEW m \in Successors(g.nodes[n]),
         g.nodes[n].type \notin {"CAPTURE_START", "CAPTURE_END"},
         NEW fresh, NEW open, NEW closed, Phases(g, j, fresh, open, closed),
         InPhase(g, q, j, k, n, fresh, open, closed)
  PROVE  InPhase(g, q, j, k, m, fresh, open, closed)
<1>1. ~Opens(g, n, j) /\ ~Closes(g, n, j)
  BY DEF Opens, Closes
<1> QED
  BY <1>1 DEF InPhase, Phases

(* An entry of the path opens, closes or keeps the phase. *)
LEMMA NextPhase ==
  ASSUME NEW g, NEW q, NEW j, NEW k \in Nat, NEW n, NEW m \in Successors(g.nodes[n]),
         q[k + 1].node = n,
         NEW fresh, NEW open, NEW closed, Phases(g, j, fresh, open, closed),
         InPhase(g, q, j, k, n, fresh, open, closed)
  PROVE  InPhase(g, q, j, k + 1, m, fresh, open, closed)
<1>1. 1..(k + 1) = (1..k) \cup {k + 1} /\ k + 1 \notin 1..k
  OBVIOUS
<1>2. Opened(g, q, j, k + 1) <=> Opened(g, q, j, k) \/ Opens(g, n, j)
  BY <1>1 DEF Opened
<1>3. ~(Opens(g, n, j) /\ Closes(g, n, j))
  BY DEF Opens, Closes
<1>4. \A i \in 1..k : (i + 1)..(k + 1) = ((i + 1)..k) \cup {k + 1}
  OBVIOUS
<1>5. (k + 2)..(k + 1) = {}
  OBVIOUS
<1>6. StillOpen(g, q, j, k + 1) <=>
        Opens(g, n, j) \/ (StillOpen(g, q, j, k) /\ ~Closes(g, n, j))
  <2>1. ASSUME Opens(g, n, j) PROVE StillOpen(g, q, j, k + 1)
    BY <1>1, <2>1 DEF StillOpen
  <2>2. ASSUME StillOpen(g, q, j, k), ~Closes(g, n, j) PROVE StillOpen(g, q, j, k + 1)
    <3>1. PICK i \in 1..k : /\ Opens(g, q[i].node, j)
                            /\ \A l \in (i + 1)..k : ~Closes(g, q[l].node, j)
      BY <2>2 DEF StillOpen
    <3>2. \A l \in (i + 1)..(k + 1) : ~Closes(g, q[l].node, j)
      BY <1>4, <2>2, <3>1
    <3>3. i \in 1..(k + 1)
      BY <1>1
    <3> QED
      BY <3>1, <3>2, <3>3 DEF StillOpen
  <2>3. ASSUME StillOpen(g, q, j, k + 1), ~Opens(g, n, j)
        PROVE  StillOpen(g, q, j, k) /\ ~Closes(g, n, j)
    <3>1. PICK i \in 1..(k + 1) : /\ Opens(g, q[i].node, j)
                                  /\ \A l \in (i + 1)..(k + 1) : ~Closes(g, q[l].node, j)
      BY <2>3 DEF StillOpen
    <3>2. i \in 1..k
      BY <1>1, <2>3, <3>1
    <3> QED
      BY <1>4, <3>1, <3>2 DEF StillOpen
  <2> QED
    BY <2>1, <2>2, <2>3
<1>7. StillOpen(g, q, j, k) => Opened(g, q, j, k)
  BY DEF StillOpen, Opened
<1> QED
  BY <1>2, <1>3, <1>6, <1>7 DEF InPhase, Phases

LEMMA PhaseStep == TypeOK /\ PhaseInv /\ [Next]_vars => PhaseInv'
<1> SUFFICES ASSUME TypeOK, PhaseInv, [Next]_vars PROVE PhaseInv'
  OBVIOUS
<1>1. ASSUME status' # "idle", path' = <<>>, node' = rx'.start PROVE PhaseInv'
  <2> SUFFICES ASSUME NEW j, NEW fresh, NEW open, NEW closed,
                      Phases(rx', j, fresh, open, closed)
               PROVE  InPhases(rx', path', node', j, fresh, open, closed)
    BY <1>1 DEF PhaseInv
  <2>1. Len(path') = 0 /\ 1..Len(path') = {} /\ DOMAIN path' = {}
    BY <1>1
  <2> QED
    BY <1>1, <2>1 DEF InPhases, InPhase, Opened, Phases
<1>2. ASSUME Running, UNCHANGED <<rx, path, status>>, node' = Here.next,
             node' \in Successors(Here), Here.type \notin {"CAPTURE_START", "CAPTURE_END"}
      PROVE  PhaseInv'
  <2>1. status # "idle" /\ status' = status /\ rx' = rx /\ path' = path
    BY <1>2 DEF Running
  <2> SUFFICES ASSUME NEW j \in 1..rx.cap_count,
                      NEW fresh \in SUBSET DOMAIN rx.nodes, NEW open \in SUBSET DOMAIN rx.nodes,
                      NEW closed \in SUBSET DOMAIN rx.nodes, Phases(rx, j, fresh, open, closed)
               PROVE  InPhases(rx, path', node', j, fresh, open, closed)
    BY <2>1 DEF PhaseInv
  <2>2. InPhases(rx, path, node, j, fresh, open, closed)
    BY <2>1 DEF PhaseInv
  <2>3. InPhase(rx, path, j, Len(path), node', fresh, open, closed)
    BY <1>2, <2>2, SamePhase DEF Here, InPhases
  <2> QED
    BY <2>1, <2>2, <2>3 DEF InPhases
<1>3. CASE \E g \in Programs, s \in Strings : \E p \in 0..Len(s) : Call(g, s, p)
  BY <1>1, <1>3 DEF Call
<1>4. CASE Consume
  <2>1. Running /\ Here.type \in Consuming /\ node' = Here.next /\ UNCHANGED <<rx, path, status>>
    BY <1>4 DEF Consume
  <2> QED
    BY <1>2, <2>1 DEF Consuming, Successors
<1>5. CASE Pass
  <2>1. Running /\ node' = Here.next /\ UNCHANGED <<rx, path, status>>
        /\ Here.type \in Passed \cup {"ASSERTION"}
    BY <1>5 DEF Pass, Passes
  <2> QED
    BY <1>2, <2>1 DEF Passed, Successors
<1>6. CASE Remember
  <2>1. Running /\ Here.type \in Remembered /\ node' = Here.next /\ UNCHANGED <<rx, status>>
        /\ path' = Append(path, [node |-> node, pos |-> pos])
    BY <1>6 DEF Remember
  <2>2. node' \in Successors(rx.nodes[node])
    BY <2>1 DEF Successors, Remembered, Here
  <2>3. /\ Len(path) \in Nat /\ DOMAIN path = 1..Len(path)
        /\ Len(path') = Len(path) + 1 /\ DOMAIN path' = 1..(Len(path) + 1)
        /\ \A i \in 1..Len(path) : path'[i] = path[i]
        /\ path'[Len(path) + 1].node = node
    BY <2>1, RunningFacts, AppendProperties
  <2> SUFFICES ASSUME NEW j \in 1..rx.cap_count,
                      NEW fresh \in SUBSET DOMAIN rx.nodes, NEW open \in SUBSET DOMAIN rx.nodes,
                      NEW closed \in SUBSET DOMAIN rx.nodes, Phases(rx, j, fresh, open, closed)
               PROVE  InPhases(rx, path', node', j, fresh, open, closed)
    BY <2>1 DEF PhaseInv, Running
  <2>4. InPhases(rx, path, node, j, fresh, open, closed)
    BY <2>1 DEF PhaseInv, Running
  <2>5. InPhase(rx, path', j, Len(path), node, fresh, open, closed)
    BY <2>3, <2>4, SamePrefix DEF InPhases
  <2>6. InPhase(rx, path', j, Len(path) + 1, node', fresh, open, closed)
    BY <2>2, <2>3, <2>5, NextPhase
  <2>7. ASSUME NEW k \in 1..Len(path)
        PROVE  InPhase(rx, path', j, k - 1, path'[k].node, fresh, open, closed)
    <3>1. k - 1 \in Nat /\ \A i \in 1..(k - 1) : path[i] = path'[i]
      BY <2>3
    <3>2. InPhase(rx, path, j, k - 1, path'[k].node, fresh, open, closed)
      BY <2>3, <2>4 DEF InPhases
    <3> QED
      BY <3>1, <3>2, SamePrefix
  <2>8. InPhase(rx, path', j, (Len(path) + 1) - 1, path'[Len(path) + 1].node, fresh, open, closed)
    <3>1. (Len(path) + 1) - 1 = Len(path)
      BY <2>3
    <3> QED
      BY <2>3, <2>5, <3>1
  <2>9. \A k \in DOMAIN path' : k \in 1..Len(path) \/ k = Len(path) + 1
    BY <2>3
  <2> QED
    BY <2>3, <2>6, <2>7, <2>8, <2>9 DEF InPhases
<1>7. CASE Backtrack
  <2>1. Running /\ UNCHANGED <<rx, status>>
    BY <1>7, BacktrackFacts
  <2>2. PICK i \in DOMAIN path :
              /\ IsBranch(path[i])
              /\ node' = rx.nodes[path[i].node].u
              /\ i \in 1..Len(path) /\ Len(path) \in Nat /\ DOMAIN path = 1..Len(path)
              /\ Len(path') = i - 1 /\ DOMAIN path' = 1..(i - 1)
              /\ \A k \in 1..(i - 1) : path'[k] = path[k]
    BY <1>7, BacktrackFacts
  <2> SUFFICES ASSUME NEW j \in 1..rx.cap_count,
                      NEW fresh \in SUBSET DOMAIN rx.nodes, NEW open \in SUBSET DOMAIN rx.nodes,
                      NEW closed \in SUBSET DOMAIN rx.nodes, Phases(rx, j, fresh, open, closed)
               PROVE  InPhases(rx, path', node', j, fresh, open, closed)
    BY <2>1 DEF PhaseInv, Running
  <2>3. InPhases(rx, path, node, j, fresh, open, closed)
    BY <2>1 DEF PhaseInv, Running
  <2>4. ASSUME NEW k \in 1..i
        PROVE  InPhase(rx, path', j, k - 1, path[k].node, fresh, open, closed)
    <3>1. k - 1 \in Nat /\ \A l \in 1..(k - 1) : path[l] = path'[l]
      BY <2>2
    <3>2. InPhase(rx, path, j, k - 1, path[k].node, fresh, open, closed)
      BY <2>2, <2>3 DEF InPhases
    <3> QED
      BY <3>1, <3>2, SamePrefix
  <2>5. node' \in Successors(rx.nodes[path[i].node])
        /\ rx.nodes[path[i].node].type \notin {"CAPTURE_START", "CAPTURE_END"}
    BY <2>2 DEF IsBranch, Successors
  <2>6. InPhase(rx, path', j, i - 1, path[i].node, fresh, open, closed)
    BY <2>2, <2>4
  <2>7. InPhase(rx, path', j, Len(path'), node', fresh, open, closed)
    BY <2>2, <2>5, <2>6, SamePhase
  <2> QED
    BY <2>2, <2>4, <2>7 DEF InPhases
<1>8. CASE NextStart
  BY <1>1, <1>8 DEF NextStart, Running
<1>9. CASE AnchorFail \/ Exhausted \/ MatchEnd \/ UNCHANGED vars
  BY <1>9 DEF AnchorFail, Exhausted, MatchEnd, vars, PhaseInv, Running
<1>10. CASE Return
  BY <1>10 DEF Return, PhaseInv
<1> QED
  BY <1>3, <1>4, <1>5, <1>6, <1>7, <1>8, <1>9, <1>10 DEF Next, Step

(* What MATCH_END finds on the path. *)
LEMMA LastEntryIs ==
  ASSUME NEW type, NEW j, NEW k \in Nat
  PROVE  LET S == {i \in 1..k : rx.nodes[path[i].node].type = type
                                /\ rx.nodes[path[i].node].u = j}
             last == LastEntry(type, j, k + 1)
         IN  /\ S = {} => last = 0
             /\ S # {} => last \in S /\ \A i \in S : i <= last
<1> DEFINE S == {i \in 1..k : rx.nodes[path[i].node].type = type
                              /\ rx.nodes[path[i].node].u = j}
<1>1. LastEntry(type, j, k + 1) = IF S = {} THEN 0 ELSE CHOOSE i \in S : \A l \in S : l <= i
  BY DEF LastEntry
<1>2. S \subseteq 0..k
  OBVIOUS
<1> HIDE DEF S
<1>3. ASSUME S # {} PROVE \E i \in S : \A l \in S : l <= i
  BY <1>2, <1>3, GreatestNat
<1>4. /\ S = {} => LastEntry(type, j, k + 1) = 0
      /\ S # {} => /\ LastEntry(type, j, k + 1) \in S
                   /\ \A i \in S : i <= LastEntry(type, j, k + 1)
  BY <1>1, <1>3
<1> QED
  BY <1>4 DEF S

LEMMA CaptureRead ==
  ASSUME TypeOK, PathInOrder, PhaseInv, Running, Here.type = "MATCH_END", CapturesInPairs(rx),
         NEW j \in 1..rx.cap_count
  PROVE  IF Captured(j).defined
         THEN /\ start_pos <= Captured(j).start /\ Captured(j).start <= Captured(j).end
              /\ Captured(j).end <= pos
              /\ Captured(j).size = Captured(j).end - Captured(j).start
              /\ \E i \in DOMAIN path : rx.nodes[path[i].node].type = "CAPTURE_START"
                                        /\ rx.nodes[path[i].node].u = j
         ELSE Captured(j) = Unset
<1> DEFINE n == Len(path)
           first == LastEntry("CAPTURE_START", j, n + 1)
           last == LastEntry("CAPTURE_END", j, n + 1)
           before == LastEntry("CAPTURE_START", j, last)
<1>1. /\ rx \in Programs /\ n \in Nat /\ DOMAIN path = 1..n
      /\ start_pos \in Nat /\ pos \in Nat
      /\ \A i \in 1..n : path[i].pos \in Nat
  BY RunningFacts
<1>2. /\ \A i \in 1..n : start_pos <= path[i].pos /\ path[i].pos <= pos
      /\ \A i \in 1..n : \A l \in i..n : path[i].pos <= path[l].pos
  BY <1>1 DEF PathInOrder, Running
<1>3. PICK fresh \in SUBSET DOMAIN rx.nodes, open \in SUBSET DOMAIN rx.nodes,
           closed \in SUBSET DOMAIN rx.nodes : Phases(rx, j, fresh, open, closed)
  BY <1>1 DEF CapturesInPairs
<1>4. /\ \A k \in 1..n : InPhase(rx, path, j, k - 1, path[k].node, fresh, open, closed)
      /\ InPhase(rx, path, j, n, node, fresh, open, closed)
  BY <1>1, <1>3 DEF PhaseInv, InPhases, Running
<1>5. /\ (\A i \in 1..n : ~Opens(rx, path[i].node, j)) => first = 0
      /\ (\E i \in 1..n : Opens(rx, path[i].node, j)) =>
           /\ first \in 1..n /\ Opens(rx, path[first].node, j)
           /\ \A i \in 1..n : Opens(rx, path[i].node, j) => i <= first
  BY <1>1, LastEntryIs DEF Opens
<1>6. /\ (\A i \in 1..n : ~Closes(rx, path[i].node, j)) => last = 0
      /\ (\E i \in 1..n : Closes(rx, path[i].node, j)) =>
           /\ last \in 1..n /\ Closes(rx, path[last].node, j)
           /\ \A i \in 1..n : Closes(rx, path[i].node, j) => i <= last
  BY <1>1, LastEntryIs DEF Closes
(* a capture that is closed was opened before *)
<1>7. ASSUME NEW k \in 1..n, Closes(rx, path[k].node, j)
      PROVE  \E i \in 1..(k - 1) : Opens(rx, path[i].node, j)
  <2>1. path[k].node \notin fresh
    BY <1>3, <1>7 DEF Phases
  <2> QED
    BY <1>4, <2>1 DEF InPhase, Opened
(* and one that was opened was closed again *)
<1>8. ~StillOpen(rx, path, j, n)
  <2>1. node \notin open
    BY <1>3 DEF Phases, Here
  <2>2. StillOpen(rx, path, j, n) => Opened(rx, path, j, n)
    BY DEF StillOpen, Opened
  <2> QED
    BY <1>4, <2>1, <2>2 DEF InPhase
<1>9. /\ Captured(j) = [defined |-> first # 0, start |-> PosAt(first), end |-> PosAt(last),
                        size |-> PosAt(last) - PosAt(before)]
      /\ Captured(j).defined = (first # 0)
      /\ Captured(j).start = PosAt(first) /\ Captured(j).end = PosAt(last)
      /\ Captured(j).size = PosAt(last) - PosAt(before)
  <2> HIDE DEF first, last, before
  <2>1. Captured(j) = [defined |-> first # 0, start |-> PosAt(first), end |-> PosAt(last),
                       size |-> PosAt(last) - PosAt(before)]
    BY Zenon DEF Captured, first, last, before, n
  <2> QED
    BY <2>1
<1>10. CASE \A i \in 1..n : ~Opens(rx, path[i].node, j)
  <2>1. \A k \in 1..n : ~Closes(rx, path[k].node, j)
    BY <1>1, <1>7, <1>10
  <2>2. first = 0 /\ last = 0
    BY <1>5, <1>6, <1>10, <2>1
  <2>3. PosAt(0) = 0
    BY <1>1 DEF PosAt
  <2>4. PosAt(before) = 0
    <3>1. 1..(0 - 1) = {}
      OBVIOUS
    <3>2. LastEntry("CAPTURE_START", j, 0) = 0
      BY <3>1 DEF LastEntry
    <3> QED
      BY <2>2, <2>3, <3>2
  <2> HIDE DEF first, last, before
  <2>5. ~Captured(j).defined
    BY <1>9, <2>2
  <2>6. Captured(j) = [defined |-> FALSE, start |-> 0, end |-> 0, size |-> 0 - 0]
    BY <1>9, <2>2, <2>3, <2>4
  <2> QED
    BY <2>5, <2>6 DEF Unset
<1>11. CASE \E i \in 1..n : Opens(rx, path[i].node, j)
  <2>1. /\ first \in 1..n /\ Opens(rx, path[first].node, j)
        /\ \A i \in 1..n : Opens(rx, path[i].node, j) => i <= first
    BY <1>5, <1>11
  <2>2. PICK k \in (first + 1)..n : Closes(rx, path[k].node, j)
    BY <1>8, <2>1 DEF StillOpen
  <2>3. last \in 1..n /\ first < last
    BY <1>1, <1>6, <2>1, <2>2
  <2>4. before = first
    <3> DEFINE m == last - 1
    <3>1. m \in Nat /\ before = LastEntry("CAPTURE_START", j, m + 1)
      BY <2>3
    <3>2. first \in 1..m /\ \A i \in 1..m : i \in 1..n
      BY <1>1, <2>1, <2>3
    <3> HIDE DEF m, before
    <3>3. /\ before \in 1..m /\ Opens(rx, path[before].node, j)
          /\ first <= before
      BY <2>1, <3>1, <3>2, LastEntryIs DEF Opens
    <3> QED
      BY <2>1, <3>2, <3>3
  <2>5. PosAt(first) = path[first].pos /\ PosAt(last) = path[last].pos
    BY <1>1, <2>1, <2>3 DEF PosAt
  <2> HIDE DEF first, last, before, n
  <2>6. /\ Captured(j).start = path[first].pos /\ Captured(j).end = path[last].pos
        /\ Captured(j).size = path[last].pos - path[first].pos
        /\ Captured(j).defined
    <3>1. first # 0
      BY <1>1, <2>1
    <3> QED
      BY <1>9, <2>4, <2>5, <3>1
  <2> QED
    BY <1>1, <1>2, <2>1, <2>3, <2>6 DEF Opens
<1> QED
  BY <1>10, <1>11

LEMMA CapturesStep ==
  ASSUME TypeOK, PathInOrder, PhaseInv, CapturesWithin, [Next]_vars,
         \A g \in Programs : CapturesInPairs(g)
  PROVE  CapturesWithin'
<1>1. CASE MatchEnd
  <2>1. /\ Running /\ Here.type = "MATCH_END"
        /\ caps' = [j \in Slots |-> IF j = 0 THEN Whole
                                    ELSE IF j <= rx.cap_count THEN Captured(j) ELSE caps[j]]
        /\ cap_count' = rx.cap_count + 1
        /\ UNCHANGED <<rx, start_pos, pos, path>>
    BY <1>1 DEF MatchEnd
  <2>2. rx.cap_count \in Nat
    BY <2>1, RunningFacts, ProgramFacts
  <2>3. caps'[0] = Whole /\ \A j \in 1..rx.cap_count : caps'[j] = Captured(j)
    BY <2>1, <2>2 DEF Slots
  <2>4. Whole' = Whole
    BY <2>1 DEF Whole
  <2>5. 1..(cap_count' - 1) = 1..rx.cap_count
    BY <2>1, <2>2
  <2>6. ASSUME NEW j \in 1..rx.cap_count
        PROVE  IF caps'[j].defined
               THEN /\ start_pos <= caps'[j].start /\ caps'[j].start <= caps'[j].end
                    /\ caps'[j].end <= pos
                    /\ caps'[j].size = caps'[j].end - caps'[j].start
                    /\ \E i \in DOMAIN path : rx.nodes[path[i].node].type = "CAPTURE_START"
                                              /\ rx.nodes[path[i].node].u = j
               ELSE caps'[j] = Unset
    BY <2>1, <2>3, CaptureRead, RunningFacts
  <2> QED
    BY <2>1, <2>3, <2>4, <2>5, <2>6 DEF CapturesWithin
<1>2. CASE UNCHANGED vars
  BY <1>2 DEF vars, CapturesWithin, Whole
<1>3. CASE ~MatchEnd /\ Next
  <2>1. status' # "matched"
    BY <1>3 DEF Next, Step, Call, Consume, Remember, Pass, AnchorFail, Backtrack, NextStart,
                Exhausted, Return, Running
  <2> QED
    BY <2>1 DEF CapturesWithin
<1> QED
  BY <1>1, <1>2, <1>3

(* The captures of a match lie in it, are as long as their ends say, and   *)
(* are unset if their group took no part, for graphs in which captures     *)
(* open and close in pairs.                                                *)
THEOREM CapturesOfMatch ==
  ASSUME \A g \in Programs : CapturesInPairs(g)
  PROVE  Spec => []CapturesWithin
<1>1. Init => TypeOK /\ PathInOrder /\ PhaseInv /\ CapturesWithin
  BY TypeInit DEF Init, PathInOrder, PhaseInv, CapturesWithin
<1>2. TypeOK /\ PathInOrder /\ PhaseInv /\ CapturesWithin /\ [Next]_vars => CapturesWithin'
  BY CapturesStep
<1> QED
  BY <1>1, <1>2, TypeStep, PathStep, PhaseStep, PTL DEF Spec

-----------------------------------------------------------------------------
(* No way around without consuming.                                        *)

(* The edges of g that consume nothing only go down. *)
Ranked(g, rank) ==
  \A n \in DOMAIN g.nodes : \A m \in Successors(g.nodes[n]) :
    g.nodes[n].type \notin Consuming => rank[m] < rank[n]

(* No loop of g can be run without consuming: a loop has an edge that does *)
(* not go down.  rx_init does not see to that: a loop around a loop has    *)
(* such a way, see testdata.txt 48.                                        *)
NoEmptyLoop(g) == \E rank \in [DOMAIN g.nodes -> Nat] : Ranked(g, rank)

(* Position q at node m is further on than position p at node n. *)
Further(rank, n, p, m, q) == p < q \/ (p = q /\ rank[m] < rank[n])

AllFurther(q, n, p, rank) ==
  \A i \in DOMAIN q :
    /\ Further(rank, q[i].node, q[i].pos, n, p)
    /\ \A k \in (i + 1)..Len(q) : Further(rank, q[i].node, q[i].pos, q[k].node, q[k].pos)

RankInv ==
  IF status = "idle" THEN path = <<>>
  ELSE \A rank \in [DOMAIN rx.nodes -> Nat] : Ranked(rx, rank) => AllFurther(path, node, pos, rank)

LEMMA FurtherOn ==
  ASSUME NEW D, NEW rank \in [D -> Nat], NEW n \in D, NEW m \in D, NEW l \in D,
         NEW p \in Nat, NEW q \in Nat, NEW r \in Nat,
         Further(rank, n, p, m, q), Further(rank, m, q, l, r)
  PROVE  Further(rank, n, p, l, r)
BY DEF Further

(* The edge that a turn takes leads further on. *)
LEMMA RankMove ==
  ASSUME TypeOK, RankInv, Running, UNCHANGED <<rx, path, status>>,
         node' \in DOMAIN rx.nodes, pos' \in Nat,
         \A rank \in [DOMAIN rx.nodes -> Nat] :
           Ranked(rx, rank) => Further(rank, node, pos, node', pos')
  PROVE  RankInv'
<1>1. /\ node \in DOMAIN rx.nodes /\ pos \in Nat
      /\ \A i \in DOMAIN path : path[i].node \in DOMAIN rx.nodes /\ path[i].pos \in Nat
  BY RunningFacts
<1>2. ASSUME NEW rank \in [DOMAIN rx.nodes -> Nat], Ranked(rx, rank)
      PROVE  AllFurther(path, node', pos', rank)
  <2>1. AllFurther(path, node, pos, rank) /\ Further(rank, node, pos, node', pos')
    BY <1>2 DEF RankInv, Running
  <2>2. ASSUME NEW i \in DOMAIN path
        PROVE  Further(rank, path[i].node, path[i].pos, node', pos')
    <3>1. Further(rank, path[i].node, path[i].pos, node, pos)
      BY <2>1 DEF AllFurther
    <3>2. path[i].node \in DOMAIN rx.nodes /\ path[i].pos \in Nat
      BY <1>1
    <3> QED
      BY <1>1, <2>1, <3>1, <3>2, FurtherOn
  <2> QED
    BY <2>1, <2>2 DEF AllFurther
<1> QED
  BY <1>2 DEF RankInv, Running

LEMMA RankStep == TypeOK /\ RankInv /\ [Next]_vars => RankInv'
<1> SUFFICES ASSUME TypeOK, RankInv, [Next]_vars PROVE RankInv'
  OBVIOUS
<1>1. ASSUME path' = <<>> PROVE RankInv'
  BY <1>1 DEF RankInv, AllFurther
<1>2. CASE \E g \in Programs, s \in Strings : \E p \in 0..Len(s) : Call(g, s, p)
  BY <1>1, <1>2 DEF Call
<1>3. CASE Consume
  <2>1. /\ Running /\ Here.type \in Consuming /\ node' = Here.next
        /\ UNCHANGED <<rx, path, status>>
        /\ Width(rx, Here, str, pos) > 0 /\ pos' = pos + Width(rx, Here, str, pos)
    BY <1>3 DEF Consume
  <2>2. pos' \in Nat /\ pos < pos'
    BY <2>1, RunningFacts, WidthBound
  <2>3. node' \in DOMAIN rx.nodes
    BY <2>1, RunningFacts, ProgramFacts DEF Here, Consuming
  <2> QED
    BY <2>1, <2>2, <2>3, RankMove DEF Further
<1>4. CASE Pass
  <2>1. /\ Running /\ node' = Here.next /\ UNCHANGED <<rx, path, status, pos>>
        /\ Here.type \in Passed \cup {"ASSERTION"}
    BY <1>4 DEF Pass, Passes
  <2>2. node \in DOMAIN rx.nodes /\ node' \in DOMAIN rx.nodes /\ pos \in Nat
    BY <2>1, RunningFacts, ProgramFacts DEF Here, Passed
  <2>3. node' \in Successors(rx.nodes[node]) /\ rx.nodes[node].type \notin Consuming
    BY <2>1 DEF Successors, Here, Passed, Consuming
  <2> QED
    BY <2>1, <2>2, <2>3, RankMove DEF Further, Ranked
<1>5. CASE Remember
  <2>1. /\ Running /\ Here.type \in Remembered /\ node' = Here.next
        /\ UNCHANGED <<rx, pos, status>>
        /\ path' = Append(path, [node |-> node, pos |-> pos])
    BY <1>5 DEF Remember
  <2>2. /\ Len(path) \in Nat /\ DOMAIN path = 1..Len(path)
        /\ Len(path') = Len(path) + 1 /\ DOMAIN path' = 1..(Len(path) + 1)
        /\ \A i \in 1..Len(path) : path'[i] = path[i]
        /\ path'[Len(path) + 1].node = node /\ path'[Len(path) + 1].pos = pos
    BY <2>1, RunningFacts, AppendProperties
  <2>3. node \in DOMAIN rx.nodes /\ node' \in DOMAIN rx.nodes /\ pos \in Nat
        /\ \A i \in DOMAIN path : path[i].node \in DOMAIN rx.nodes /\ path[i].pos \in Nat
    BY <2>1, RunningFacts, ProgramFacts DEF Here, Remembered
  <2>4. node' \in Successors(rx.nodes[node]) /\ rx.nodes[node].type \notin Consuming
    BY <2>1 DEF Successors, Here, Remembered, Consuming
  <2>5. ASSUME NEW rank \in [DOMAIN rx.nodes -> Nat], Ranked(rx, rank)
        PROVE  AllFurther(path', node', pos, rank)
    <3>1. AllFurther(path, node, pos, rank)
      BY <2>1, <2>5 DEF RankInv, Running
    <3>2. Further(rank, node, pos, node', pos)
      BY <2>3, <2>4, <2>5 DEF Further, Ranked
    <3>3. ASSUME NEW i \in 1..Len(path)
          PROVE  /\ Further(rank, path'[i].node, path'[i].pos, node', pos)
                 /\ \A k \in (i + 1)..Len(path') :
                      Further(rank, path'[i].node, path'[i].pos, path'[k].node, path'[k].pos)
      <4>1. /\ path[i].node \in DOMAIN rx.nodes /\ path[i].pos \in Nat /\ path'[i] = path[i]
            /\ Further(rank, path[i].node, path[i].pos, node, pos)
            /\ \A k \in (i + 1)..Len(path) :
                 Further(rank, path[i].node, path[i].pos, path[k].node, path[k].pos)
        BY <2>2, <2>3, <3>1 DEF AllFurther
      <4>2. Further(rank, path[i].node, path[i].pos, node', pos)
        BY <2>3, <3>2, <4>1, FurtherOn
      <4>3. \A k \in (i + 1)..Len(path') :
              (k \in (i + 1)..Len(path) /\ path'[k] = path[k]) \/ k = Len(path) + 1
        BY <2>2
      <4> QED
        BY <2>2, <4>1, <4>2, <4>3
    <3>4. ASSUME NEW i \in DOMAIN path', i = Len(path) + 1
          PROVE  /\ Further(rank, path'[i].node, path'[i].pos, node', pos)
                 /\ (i + 1)..Len(path') = {}
      BY <2>2, <3>2, <3>4
    <3>5. \A i \in DOMAIN path' : i \in 1..Len(path) \/ i = Len(path) + 1
      BY <2>2
    <3> QED
      BY <3>3, <3>4, <3>5 DEF AllFurther
  <2> QED
    BY <2>1, <2>5 DEF RankInv, Running
<1>6. CASE Backtrack
  <2>1. Running /\ UNCHANGED <<rx, status>>
    BY <1>6, BacktrackFacts
  <2>2. PICK i \in DOMAIN path :
              /\ IsBranch(path[i])
              /\ node' = rx.nodes[path[i].node].u /\ pos' = path[i].pos
              /\ i \in 1..Len(path) /\ Len(path) \in Nat /\ DOMAIN path = 1..Len(path)
              /\ Len(path') = i - 1 /\ DOMAIN path' = 1..(i - 1)
              /\ \A k \in 1..(i - 1) : path'[k] = path[k]
    BY <1>6, BacktrackFacts
  <2>3. \A k \in DOMAIN path : path[k].node \in DOMAIN rx.nodes /\ path[k].pos \in Nat
    BY <2>1, RunningFacts
  <2>4. node' \in Successors(rx.nodes[path[i].node]) /\ node' \in DOMAIN rx.nodes
        /\ rx.nodes[path[i].node].type \notin Consuming
    BY <2>1, <2>2, <2>3, RunningFacts, ProgramFacts DEF IsBranch, Successors, Consuming
  <2>5. ASSUME NEW rank \in [DOMAIN rx.nodes -> Nat], Ranked(rx, rank)
        PROVE  AllFurther(path', node', pos', rank)
    <3>1. AllFurther(path, node, pos, rank)
      BY <2>1, <2>5 DEF RankInv, Running
    <3>2. Further(rank, path[i].node, path[i].pos, node', pos')
      BY <2>2, <2>3, <2>4, <2>5 DEF Further, Ranked
    <3>3. ASSUME NEW k \in 1..(i - 1)
          PROVE  /\ Further(rank, path[k].node, path[k].pos, node', pos')
                 /\ \A l \in (k + 1)..(i - 1) :
                      Further(rank, path[k].node, path[k].pos, path[l].node, path[l].pos)
      <4>1. /\ k \in DOMAIN path /\ i \in (k + 1)..Len(path)
            /\ \A l \in (k + 1)..(i - 1) : l \in (k + 1)..Len(path)
        BY <2>2
      <4>2. \A l \in (k + 1)..Len(path) :
              Further(rank, path[k].node, path[k].pos, path[l].node, path[l].pos)
        BY <3>1, <4>1 DEF AllFurther
      <4>3. /\ path[k].node \in DOMAIN rx.nodes /\ path[k].pos \in Nat
            /\ path[i].node \in DOMAIN rx.nodes /\ path[i].pos \in Nat
            /\ node' \in DOMAIN rx.nodes /\ pos' \in Nat
        BY <2>2, <2>3, <2>4, <4>1
      <4>4. Further(rank, path[k].node, path[k].pos, path[i].node, path[i].pos)
        BY <4>1, <4>2
      <4>5. Further(rank, path[k].node, path[k].pos, node', pos')
        BY <3>2, <4>3, <4>4, FurtherOn
      <4> QED
        BY <4>1, <4>2, <4>5
    <3>4. \A k \in 1..(i - 1) : \A l \in (k + 1)..(i - 1) : path'[l] = path[l]
      BY <2>2
    <3> QED
      BY <2>2, <3>3, <3>4 DEF AllFurther
  <2> QED
    BY <2>1, <2>5 DEF RankInv, Running
<1>7. CASE NextStart
  BY <1>1, <1>7 DEF NextStart
<1>8. CASE AnchorFail \/ Exhausted \/ MatchEnd \/ UNCHANGED vars
  BY <1>8 DEF AnchorFail, Exhausted, MatchEnd, vars, RankInv, Running
<1>9. CASE Return
  BY <1>1, <1>9 DEF Return
<1> QED
  BY <1>2, <1>3, <1>4, <1>5, <1>6, <1>7, <1>8, <1>9 DEF Next, Step

(* The walk never comes back to a BRANCH or CAPTURE at a position that it  *)
(* still has on the path: the path is bounded, for graphs without a loop   *)
(* that consumes nothing.                                                  *)
THEOREM PathNeverRevisits ==
  ASSUME \A g \in Programs : NoEmptyLoop(g)
  PROVE  Spec => []NoRevisit
<1>1. Init => TypeOK /\ RankInv
  BY TypeInit DEF Init, RankInv
<1>2. TypeOK /\ RankInv => NoRevisit
  <2> SUFFICES ASSUME TypeOK, RankInv, NEW i \in DOMAIN path, NEW k \in (i + 1)..Len(path)
               PROVE  path[i] # path[k]
    BY DEF NoRevisit
  <2>1. CASE status = "idle"
    BY <2>1 DEF RankInv
  <2>2. CASE status # "idle"
    <3>1. /\ rx \in Programs
          /\ path \in Seq([node : DOMAIN rx.nodes, pos : 0..Len(str)])
      BY <2>2 DEF TypeOK
    <3>2. PICK rank \in [DOMAIN rx.nodes -> Nat] : Ranked(rx, rank)
      BY <3>1 DEF NoEmptyLoop
    <3>3. Further(rank, path[i].node, path[i].pos, path[k].node, path[k].pos)
      BY <2>2, <3>2 DEF RankInv, AllFurther
    <3>4. path[i].node \in DOMAIN rx.nodes /\ path[i].pos \in 0..Len(str)
      <4>1. path[i] \in [node : DOMAIN rx.nodes, pos : 0..Len(str)]
        BY <3>1, Entries
      <4> QED
        BY <4>1
    <3> QED
      BY <3>2, <3>3, <3>4 DEF Further
  <2> QED
    BY <2>1, <2>2
<1> QED
  BY <1>1, <1>2, TypeStep, RankStep, PTL DEF Spec
=============================================================================

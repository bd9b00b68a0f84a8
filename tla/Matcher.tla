------------------------------ MODULE Matcher ------------------------------
(***************************************************************************)
(* rx_match (rx.c): the backtracking walk of a compiled graph over a       *)
(* string.  One action is one turn of its while loop; an action stands for *)
(* all the node types that have its effect.  The matcher object outlives   *)
(* the call and is reused by the next one, so the captures and path array  *)
(* of one call are what the next call starts with.                         *)
(*                                                                         *)
(* A graph that is not WellFormed can lead the walk to NULL; no action is  *)
(* enabled there, where the program would crash.                           *)
(***************************************************************************)
EXTENDS Chars

CONSTANTS
  Programs,          \* the compiled regular expressions that may be matched
  Strings,           \* the strings they are matched against
  CapAllocated,      \* the capture slots rx_matcher_alloc makes room for
  Viable(_, _, _),   \* what can match:      see ViableAssumption
  Reached(_, _, _)   \* what can be visited: see ReachedAssumption

VARIABLES
  rx, str, arg_pos,  \* the arguments of the call
  start_pos,         \* where the current attempt starts
  pos, node,         \* the configuration the walk is in
  path,              \* the BRANCH and CAPTURE nodes passed, each with its position
  caps,              \* cap_defined, cap_start, cap_end and cap_size of each slot
  cap_count,         \* m->cap_count
  value,             \* m->value
  status             \* "idle" between calls, "running", then m->success

vars == <<rx, str, arg_pos, start_pos, pos, node, path, caps, cap_count, value, status>>

-----------------------------------------------------------------------------
(* One step of the graph g over s in an attempt that began at t.           *)

Consuming == {"TAKE", "CHAR_CLASS", "CHAR_SET"}
Remembered == {"BRANCH", "CAPTURE_START", "CAPTURE_END"}
Passed == {"GROUP_START", "GROUP_END", "EMPTY"}

TakeMatches(g, nd, b) == b = nd.u \/ (g.ignorecase /\ HasCase(b) /\ FlipCase(b) = nd.u)

ClassMatches(g, nd, test) ==
  LET cc == g.char_classes[nd.u]
      flipped == <<FlipCase(test[1])>> \o Tail(test)
  IN  \/ MatchCharClass(cc, test)
      \/ g.ignorecase /\ HasCase(test[1]) /\ MatchCharClass(cc, flipped)

(* The bytes a consuming node takes at position p: 0 when it does not match. *)
Width(g, nd, s, p) ==
  LET size == IF nd.type = "CHAR_CLASS" THEN Utf8CharSize(s, p) ELSE 1
      matches ==
        \/ nd.type = "TAKE" /\ TakeMatches(g, nd, s[p + 1])
        \/ nd.type = "CHAR_SET" /\ InCharSet(nd.u, s[p + 1])
        \/ nd.type = "CHAR_CLASS" /\ ClassMatches(g, nd, SubSeq(s, p + 1, p + size))
  IN  IF p < Len(s) /\ matches THEN size ELSE 0

Passes(nd, s, t, p) ==
  nd.type \in Passed \/ (nd.type = "ASSERTION" /\ MatchAssertion(nd.u, t, s, p))

(* The configurations that follow configuration c = <<node, position>>. *)
Steps(g, s, t, c) ==
  LET nd == g.nodes[c[1]]
      width == Width(g, nd, s, c[2])
  IN  IF nd.type = "BRANCH" THEN {<<nd.next, c[2]>>, <<nd.u, c[2]>>}
      ELSE IF nd.type \in Consuming /\ width > 0 THEN {<<nd.next, c[2] + width>>}
      ELSE IF nd.type \in Remembered \/ Passes(nd, s, t, c[2]) THEN {<<nd.next, c[2]>>}
      ELSE {}

Configs(g, s) == (DOMAIN g.nodes) \X (0..Len(s))
Accepting(g, c) == g.nodes[c[1]].type = "MATCH_END"

-----------------------------------------------------------------------------
ASSUME CapAllocatedAssumption == CapAllocated \in Nat \ {0}
ASSUME ProgramsAssumption == \A g \in Programs : WellFormed(g)
ASSUME StringsAssumption == Strings \subseteq Seq(Byte)

(* Viable(g, s, t) may be any set of configurations each of which is       *)
(* accepting or has a successor in the set.  The largest such set that     *)
(* matters is that of the configurations a MATCH_END is reachable from;    *)
(* what is stated below of every such set is stated of that one.           *)
ASSUME ViableAssumption ==
  \A g \in Programs, s \in Strings : \A t \in 0..Len(s) :
    /\ Viable(g, s, t) \subseteq Configs(g, s)
    /\ \A c \in Viable(g, s, t) :
         Accepting(g, c) \/ Steps(g, s, t, c) \cap Viable(g, s, t) # {}

(* Reached(g, s, t) may be any set that holds the initial configuration of *)
(* the attempt at t and is closed under Steps: the least such set is that  *)
(* of the configurations reachable from the start.                         *)
ASSUME ReachedAssumption ==
  \A g \in Programs, s \in Strings : \A t \in 0..Len(s) :
    /\ <<g.start, t>> \in Reached(g, s, t)
    /\ \A c \in Reached(g, s, t) \cap Configs(g, s) :
         Steps(g, s, t, c) \subseteq Reached(g, s, t)

-----------------------------------------------------------------------------
Here == rx.nodes[node]
Running == status = "running"
IsBranch(p) == rx.nodes[p.node].type = "BRANCH"

(* malloc'ed, read only after a match has written them *)
Unset == [defined |-> FALSE, start |-> 0, end |-> 0, size |-> 0]

Init ==
  /\ rx = NoRx /\ str = <<>> /\ arg_pos = 0
  /\ start_pos = 0 /\ pos = 0 /\ node = NULL /\ path = <<>>
  /\ caps = [j \in 0..(CapAllocated - 1) |-> Unset]
  /\ cap_count = 0 /\ value = 0 /\ status = "idle"

(* The caller calls rx_match, with the matcher of the last call. *)
Call(g, s, p) ==
  /\ status = "idle"
  /\ rx' = g /\ str' = s /\ arg_pos' = p
  /\ start_pos' = p /\ pos' = p
  /\ node' = g.start
  /\ path' = <<>>
  /\ status' = "running"
  /\ UNCHANGED <<caps, cap_count, value>>

(* Mutant: a set that matches leaves pos where it is. *)
ConsumeWithoutAdvance ==
  /\ Running
  /\ Here.type \in Consuming
  /\ Width(rx, Here, str, pos) > 0
  /\ pos' = IF Here.type = "CHAR_SET" THEN pos ELSE pos + Width(rx, Here, str, pos)
  /\ node' = Here.next
  /\ UNCHANGED <<rx, str, arg_pos, start_pos, path, caps, cap_count, value, status>>

(* A TAKE, CHAR_CLASS or CHAR_SET node that matches what is at pos. *)
Consume ==
  /\ Running
  /\ Here.type \in Consuming
  /\ Width(rx, Here, str, pos) > 0
  /\ pos' = pos + Width(rx, Here, str, pos)
  /\ node' = Here.next
  /\ UNCHANGED <<rx, str, arg_pos, start_pos, path, caps, cap_count, value, status>>

(* A BRANCH or CAPTURE node goes on the path; a BRANCH is left by next. *)
Remember ==
  /\ Running
  /\ Here.type \in Remembered
  /\ path' = Append(path, [node |-> node, pos |-> pos])
  /\ node' = Here.next
  /\ UNCHANGED <<rx, str, arg_pos, start_pos, pos, caps, cap_count, value, status>>

(* A GROUP or EMPTY node, or an ASSERTION that holds. *)
Pass ==
  /\ Running
  /\ Passes(Here, str, start_pos, pos)
  /\ node' = Here.next
  /\ UNCHANGED <<rx, str, arg_pos, start_pos, pos, path, caps, cap_count, value, status>>

(* Mutant: every failing assertion ends the call. *)
AnyAssertion == Here.type = "ASSERTION"

(* A failing \G or start of string ends the call at once. *)
Anchor == Here.type = "ASSERTION" /\ Here.u \in {ASSERT_SOS, ASSERT_SOP}

AnchorFail ==
  /\ Running
  /\ Anchor /\ ~MatchAssertion(Here.u, start_pos, str, pos)
  /\ status' = "failed"
  /\ UNCHANGED <<rx, str, arg_pos, start_pos, pos, node, path, caps, cap_count, value>>

(* The node does not match: control reaches try_alternative. *)
Fails ==
  \/ Here.type \in Consuming /\ Width(rx, Here, str, pos) = 0
  \/ Here.type = "ASSERTION" /\ ~Anchor /\ ~MatchAssertion(Here.u, start_pos, str, pos)
  \/ Here.type = "VISITED"

(* Mutants of Backtrack: the path is not truncated; the BRANCH stays on    *)
(* it; the first BRANCH is taken; the position is not restored.            *)
LastBranch(i) == IsBranch(path[i]) /\ \A j \in (i + 1)..Len(path) : ~IsBranch(path[j])
FirstBranch(i) == IsBranch(path[i]) /\ \A j \in 1..(i - 1) : ~IsBranch(path[j])
FallBack(i, p, kept) ==
  /\ Running /\ Fails
  /\ node' = rx.nodes[path[i].node].u /\ pos' = p /\ path' = kept
  /\ UNCHANGED <<rx, str, arg_pos, start_pos, caps, cap_count, value, status>>
BacktrackKeepingPath == \E i \in DOMAIN path : LastBranch(i) /\ FallBack(i, path[i].pos, path)
BacktrackKeepingBranch ==
  \E i \in DOMAIN path : LastBranch(i) /\ FallBack(i, path[i].pos, SubSeq(path, 1, i))
BacktrackToFirst ==
  \E i \in DOMAIN path : FirstBranch(i) /\ FallBack(i, path[i].pos, SubSeq(path, 1, i - 1))
BacktrackKeepingPos ==
  \E i \in DOMAIN path : LastBranch(i) /\ FallBack(i, pos, SubSeq(path, 1, i - 1))

(* The last BRANCH of the path is left by its other edge. *)
Backtrack ==
  /\ Running /\ Fails
  /\ \E i \in DOMAIN path :
       /\ IsBranch(path[i])
       /\ \A j \in (i + 1)..Len(path) : ~IsBranch(path[j])
       /\ node' = rx.nodes[path[i].node].u
       /\ pos' = path[i].pos
       /\ path' = SubSeq(path, 1, i - 1)
  /\ UNCHANGED <<rx, str, arg_pos, start_pos, caps, cap_count, value, status>>

(* Mutant: the search of the path stops before its first entry. *)
NoAlternativeButFirst == \A i \in DOMAIN path : i > 1 => ~IsBranch(path[i])

NoAlternative == \A i \in DOMAIN path : ~IsBranch(path[i])

(* Mutant: the last start position is tried twice, once past the end. *)
NextStartPastEnd ==
  /\ Running /\ Fails /\ NoAlternative
  /\ start_pos <= Len(str)
  /\ start_pos' = start_pos + 1
  /\ pos' = start_pos + 1
  /\ node' = rx.start
  /\ path' = <<>>
  /\ UNCHANGED <<rx, str, arg_pos, caps, cap_count, value, status>>

NextStart ==
  /\ Running /\ Fails /\ NoAlternative
  /\ start_pos # Len(str)
  /\ start_pos' = start_pos + 1
  /\ pos' = start_pos + 1
  /\ node' = rx.start
  /\ path' = <<>>
  /\ UNCHANGED <<rx, str, arg_pos, caps, cap_count, value, status>>

(* Mutant: the search stops before the empty attempt at the end. *)
ExhaustedEarly ==
  /\ Running /\ Fails /\ NoAlternative
  /\ start_pos + 1 >= Len(str)
  /\ status' = "failed"
  /\ UNCHANGED <<rx, str, arg_pos, start_pos, pos, node, path, caps, cap_count, value>>

Exhausted ==
  /\ Running /\ Fails /\ NoAlternative
  /\ start_pos = Len(str)
  /\ status' = "failed"
  /\ UNCHANGED <<rx, str, arg_pos, start_pos, pos, node, path, caps, cap_count, value>>

(* MATCH_END reads the captures off the path, from its beginning: a later  *)
(* entry of a slot overwrites an earlier one, and a CAPTURE_END measures   *)
(* from the cap_start of that moment.                                      *)
LastEntry(type, j, before) ==
  LET S == {i \in 1..(before - 1) : rx.nodes[path[i].node].type = type
                                    /\ rx.nodes[path[i].node].u = j}
  IN  IF S = {} THEN 0 ELSE CHOOSE i \in S : \A k \in S : k <= i
PosAt(i) == IF i \in DOMAIN path THEN path[i].pos ELSE 0

Captured(j) ==
  LET first == LastEntry("CAPTURE_START", j, Len(path) + 1)
      last == LastEntry("CAPTURE_END", j, Len(path) + 1)
  IN  [defined |-> first # 0,
       start |-> PosAt(first),
       end |-> PosAt(last),
       size |-> PosAt(last) - PosAt(LastEntry("CAPTURE_START", j, last))]
Whole == [defined |-> TRUE, start |-> start_pos, end |-> pos, size |-> pos - start_pos]

Slots == DOMAIN caps \cup 0..rx.cap_count   \* the arrays grow when they must

(* Mutant: the slots are not cleared before the path is read. *)
MatchEndWithoutReset ==
  /\ Running
  /\ Here.type = "MATCH_END"
  /\ caps' = [j \in Slots |-> IF j = 0 THEN Whole
                              ELSE IF j <= rx.cap_count /\ Captured(j).defined THEN Captured(j)
                              ELSE IF j \in DOMAIN caps THEN caps[j] ELSE Unset]
  /\ cap_count' = rx.cap_count + 1
  /\ value' = Here.u
  /\ status' = "matched"
  /\ UNCHANGED <<rx, str, arg_pos, start_pos, pos, node, path>>

MatchEnd ==
  /\ Running
  /\ Here.type = "MATCH_END"
  /\ caps' = [j \in Slots |-> IF j = 0 THEN Whole
                              ELSE IF j <= rx.cap_count THEN Captured(j)
                              ELSE caps[j]]
  /\ cap_count' = rx.cap_count + 1
  /\ value' = Here.u
  /\ status' = "matched"
  /\ UNCHANGED <<rx, str, arg_pos, start_pos, pos, node, path>>

(* The caller has read the result: what the call worked on is dead, and    *)
(* the matcher object keeps its captures for the next call to overwrite.   *)
Return ==
  /\ status \in {"matched", "failed"}
  /\ rx' = NoRx /\ str' = <<>> /\ arg_pos' = 0
  /\ start_pos' = 0 /\ pos' = 0 /\ node' = NULL /\ path' = <<>>
  /\ status' = "idle"
  /\ UNCHANGED <<caps, cap_count, value>>

Step == \/ Consume \/ Remember \/ Pass \/ AnchorFail
        \/ Backtrack \/ NextStart \/ Exhausted \/ MatchEnd

Next == \/ \E g \in Programs, s \in Strings : \E p \in 0..Len(s) : Call(g, s, p)
        \/ Step
        \/ Return

(* Nothing else runs while rx_match does: its loop takes its next turn. *)
Spec == Init /\ [][Next]_vars /\ WF_vars(Step)

-----------------------------------------------------------------------------
(* Types: the walk never leaves the graph, the string or the capture slots. *)
TypeOK ==
  /\ status \in {"idle", "running", "matched", "failed"}
  /\ status # "idle" =>
       /\ rx \in Programs /\ str \in Strings
       /\ node \in DOMAIN rx.nodes
       /\ arg_pos \in 0..Len(str) /\ start_pos \in arg_pos..Len(str)
       /\ pos \in 0..Len(str)
  /\ path \in Seq([node : DOMAIN rx.nodes, pos : 0..Len(str)])
  /\ 0..(CapAllocated - 1) \subseteq DOMAIN caps
  /\ \A j \in DOMAIN caps :
       caps[j] \in [defined : BOOLEAN, start : Nat, end : Nat, size : Int]
  /\ cap_count \in Nat /\ 0..(cap_count - 1) \subseteq DOMAIN caps
  /\ value \in Int

(* The path is a history of the attempt: only BRANCH and CAPTURE nodes are *)
(* on it, and positions never go back along it nor before the attempt's    *)
(* start, whatever was popped and pushed in between (rx_match's pushes and *)
(* the truncation in try_alternative).                                     *)
PathInOrder ==
  status # "idle" =>
    /\ start_pos <= pos
    /\ \A i \in DOMAIN path :
         /\ rx.nodes[path[i].node].type \in Remembered
         /\ start_pos <= path[i].pos /\ path[i].pos <= pos
         /\ \A j \in i..Len(path) : path[i].pos <= path[j].pos

(* No turn of the loop comes back to a BRANCH or CAPTURE at a position it  *)
(* still has on the path: the path is bounded by nodes times positions.    *)
(* A walk that did come back would do so forever, with a longer path each  *)
(* time, and rx_match would not return.                                    *)
NoRevisit ==
  \A i \in DOMAIN path : \A j \in (i + 1)..Len(path) : path[i] # path[j]

(* The start and position assertions of g are its first node and nothing   *)
(* leads back there: then their failure says that no attempt can succeed.  *)
AnchorsLead(g) ==
  \A n \in DOMAIN g.nodes :
    /\ g.nodes[n].type = "ASSERTION" /\ g.nodes[n].u \in {ASSERT_SOS, ASSERT_SOP}
         => n = g.start
    /\ g.start \notin Successors(g.nodes[n])

(* What is still to be explored: if the attempt could succeed at all, the  *)
(* walk is at a configuration that can, or a BRANCH on the path still has  *)
(* an untried edge to one.  No alternative is lost by the truncations.     *)
Pending(c) ==
  \/ c = <<node, pos>>
  \/ \E i \in DOMAIN path : IsBranch(path[i]) /\ c = <<rx.nodes[path[i].node].u, path[i].pos>>

NothingLost ==
  Running /\ <<rx.start, start_pos>> \in Viable(rx, str, start_pos) =>
    \E c \in Viable(rx, str, start_pos) : Pending(c)

(* Leftmost: when the walk is at start_pos, no earlier start from arg_pos  *)
(* on could have matched.                                                  *)
Leftmost ==
  status \in {"running", "matched"} =>
    \A t \in arg_pos..(start_pos - 1) : <<rx.start, t>> \notin Viable(rx, str, t)

(* "Returns 1 if it matched, 0 otherwise" (README.md): 0 is returned only  *)
(* if no start position from arg_pos on can match.                         *)
NoMissedMatch ==
  status = "failed" /\ AnchorsLead(rx) =>
    \A t \in arg_pos..Len(str) : <<rx.start, t>> \notin Viable(rx, str, t)

(* Every configuration the walk is in, or may fall back to, is one the     *)
(* graph allows for this attempt: a match that is reported is real, and    *)
(* no fall-back mixes an edge with the position of another.                *)
MatchIsReal == status # "idle" => \A c \in Configs(rx, str) : Pending(c) => c \in Reached(rx, str, start_pos)

(* The captures of a match are those of this call: each lies inside the    *)
(* match and is as long as its ends say, and a group that took no part is  *)
(* unset even if an earlier call with this matcher had set it.             *)
CapturesWithin ==
  status = "matched" =>
    /\ caps[0] = Whole
    /\ \A j \in 1..(cap_count - 1) :
         IF caps[j].defined
         THEN /\ start_pos <= caps[j].start /\ caps[j].start <= caps[j].end
              /\ caps[j].end <= pos
              /\ caps[j].size = caps[j].end - caps[j].start
              /\ \E i \in DOMAIN path : rx.nodes[path[i].node].type = "CAPTURE_START"
                                        /\ rx.nodes[path[i].node].u = j
         ELSE caps[j] = Unset

(* Every call returns. *)
Returns == Running ~> ~Running

(* The contract of rx_match, stated without the walk. *)
Contract == INSTANCE MatchContract WITH start <- IF status = "matched" THEN start_pos ELSE 0,
                                        end <- IF status = "matched" THEN pos ELSE 0
ImplementsContract == Contract!Spec
=============================================================================

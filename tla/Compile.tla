------------------------------ MODULE Compile ------------------------------
(***************************************************************************)
(* rx_init and rx_init_start (rx.c): one pass over the text of a regular   *)
(* expression that grows the graph at its open end, node.  A group, an     *)
(* alternative or a quantifier rewrites nodes that are already there.      *)
(*                                                                         *)
(* A text is a sequence of symbols.  ( ) | * + ? : ^ $ are characters, for *)
(* the code looks ahead at them; an escape, a bracket expression and a     *)
(* quantifier in braces are one symbol each, with what their parsers       *)
(* return in the tables below.  A symbol in no table is one that its       *)
(* parser rejects.                                                         *)
(***************************************************************************)
EXTENDS CopySubgraph

CONSTANTS
  Texts,        \* the regular expressions that may be compiled
  Atoms,        \* symbol -> sequence of [type, u]: the nodes it becomes
  Escapes,      \* symbol -> the kind of the ASSERTION node of \G, \< and \>
  Counts,       \* symbol -> [min, max]; max = -1 when there is no upper bound
  Classes       \* the character classes the CHAR_CLASS atoms refer to

(* What the parsers of the symbols return; the end of a text is no symbol. *)
ASSUME AtomsAssumption ==
  \A s \in DOMAIN Atoms :
    /\ Atoms[s] \in Seq([type : {"TAKE", "CHAR_SET", "CHAR_CLASS"}, u : Int])
    /\ Atoms[s] # <<>>
    /\ \A j \in DOMAIN Atoms[s] : Atoms[s][j].type = "CHAR_CLASS" => Atoms[s][j].u \in DOMAIN Classes
ASSUME ClassesAssumption == Classes \in Seq(CharClass)
ASSUME EscapesAssumption == \A s \in DOMAIN Escapes : Escapes[s] \in Int
ASSUME CountsAssumption == \A s \in DOMAIN Counts : Counts[s] \in [min : Int, max : Int]
ASSUME TextsAssumption ==
  /\ \A text \in Texts : text \in Seq(STRING)
  /\ "end of text" \notin DOMAIN Atoms \cup DOMAIN Escapes \cup DOMAIN Counts

(* A character or an escape that the code takes for an atom is nothing     *)
(* else to it.                                                             *)
ASSUME SymbolsAssumption ==
  /\ \A text \in Texts : \A i \in DOMAIN text : text[i] # "end of text"
  /\ \A s \in DOMAIN Escapes \cup DOMAIN Counts
              \cup {"(", ")", "|", "*", "+", "?", "^", "$", "\\c"} : s \notin DOMAIN Atoms

VARIABLES
  regexp, rpos,     \* the text and the index of its next symbol
  endValue,         \* the value argument of rx_init_start, left in MATCH_END
  start, node,      \* the first node, and the open end of the graph
  atom_start,       \* what a quantifier would apply to, or NULL
  or_end,           \* where the alternatives of the innermost group meet, or NULL
  groups,           \* per open group [start, or_end]: rx->cap_start, rx->or_end
  cap_count, rx_cap_count, ignorecase,
  quant,            \* the locals of a quantifier in braces being applied
  pc                \* "idle", "scan", "repeat", "copying", "done" or "error"

scanVars == <<regexp, rpos, endValue, start, node, atom_start, or_end, groups,
              cap_count, rx_cap_count, ignorecase>>
compileVars == <<nodes, dfsVars, regexp, rpos, endValue, start, node,
                 atom_start, or_end, groups, cap_count, rx_cap_count, ignorecase, quant, pc>>

NoQuant == [min |-> 0, max |-> 0, greedy |-> TRUE, i |-> 0, sg_start |-> NULL,
            sg_end |-> NULL, sg_start2 |-> NULL, for |-> "none"]

CompileInit ==
  /\ nodes = <<>> /\ CopyInit
  /\ regexp = <<>> /\ rpos = 1 /\ endValue = 0
  /\ start = NULL /\ node = NULL /\ atom_start = NULL /\ or_end = NULL
  /\ groups = <<>> /\ cap_count = 0 /\ rx_cap_count = 0 /\ ignorecase = FALSE
  /\ quant = NoQuant /\ pc = "idle"

(* rx_init_start, for a text that grows from node s of ns. *)
RxInitStart(ns, s, text, v) ==
  /\ regexp' = text /\ rpos' = 1 /\ endValue' = v
  /\ nodes' = ns /\ start' = s /\ node' = s
  /\ atom_start' = NULL /\ or_end' = NULL /\ groups' = <<>>
  /\ cap_count' = 0
  /\ pc' = "scan"
  /\ UNCHANGED <<dfsVars, quant>>

(* rx_init: rx_partial_free has left nothing of the last text. *)
RxInit(text) ==
  /\ pc = "idle"
  /\ RxInitStart(<<FreshNode>>, 1, text, 0)
  /\ rx_cap_count' = 0 /\ ignorecase' = FALSE

-----------------------------------------------------------------------------
Peek(k) == IF rpos + k <= Len(regexp) THEN regexp[rpos + k] ELSE "end of text"
Scanning(sym) == pc = "scan" /\ Peek(0) = sym
Advance(k) == rpos' = rpos + k /\ UNCHANGED <<regexp, endValue>>

(* k new nodes; New(i) is the i-th of them. *)
Grow(ns, k) == ns \o [i \in 1..k |-> FreshNode]
New(i) == Len(nodes) + i

(* Mutant: the edge tried first is the same for a lazy quantifier. *)
BranchGreedily(greedy, first, second) == [type |-> "BRANCH", next |-> first, u |-> second]

(* Mutant: greedy and lazy are taken for each other. *)
BranchSwapped(greedy, first, second) ==
  IF greedy THEN [type |-> "BRANCH", next |-> second, u |-> first]
  ELSE [type |-> "BRANCH", next |-> first, u |-> second]

Branch(greedy, first, second) ==
  IF greedy THEN [type |-> "BRANCH", next |-> first, u |-> second]
  ELSE [type |-> "BRANCH", next |-> second, u |-> first]

Innermost == groups[Len(groups)]
Lazy == Peek(1) = "?"       \* the character after a quantifier
Quantifiers == {"*", "+", "?"} \cup DOMAIN Counts

OpenGroup ==
  /\ Scanning("(")
  /\ LET plain == Peek(1) = "?" /\ Peek(2) = ":" IN
     /\ Advance(IF plain THEN 3 ELSE 1)
     /\ cap_count' = IF plain THEN cap_count ELSE cap_count + 1
     /\ nodes' = [Grow(nodes, 1) EXCEPT ![node] =
                    IF plain THEN [@ EXCEPT !.type = "GROUP_START", !.next = New(1)]
                    ELSE [type |-> "CAPTURE_START", next |-> New(1), u |-> cap_count']]
  /\ groups' = Append(groups, [start |-> node, or_end |-> or_end])
  /\ or_end' = NULL /\ atom_start' = NULL
  /\ node' = New(1)
  /\ UNCHANGED <<dfsVars, start, rx_cap_count, ignorecase, quant, pc>>

(* Mutants: the alternatives do not meet. *)
NotJoined(ns) == ns
LastAlternative == node

(* The last alternative is led to where the first one ended. *)
Joined(ns) == IF or_end = NULL THEN ns ELSE [ns EXCEPT ![node].next = or_end]
JoinedEnd == IF or_end = NULL THEN node ELSE or_end

(* Mutant: the capture that ends is the one opened last. *)
Closed(number, atom) ==
  /\ Scanning(")") /\ groups # <<>>
  /\ nodes' = [Joined(Grow(nodes, 1)) EXCEPT ![JoinedEnd] =
                 [type |-> IF nodes[Innermost.start].type = "CAPTURE_START"
                           THEN "CAPTURE_END" ELSE "GROUP_END",
                  next |-> New(1), u |-> number]]
  /\ node' = New(1) /\ atom_start' = atom /\ or_end' = Innermost.or_end
  /\ groups' = SubSeq(groups, 1, Len(groups) - 1)
  /\ Advance(1)
  /\ UNCHANGED <<dfsVars, start, cap_count, rx_cap_count,
                 ignorecase, quant, pc>>
CloseGroupByCount == Closed(cap_count, Innermost.start)

CloseGroup ==
  /\ Scanning(")") /\ groups # <<>>
  /\ nodes' = [Joined(Grow(nodes, 1)) EXCEPT ![JoinedEnd] =
                 [type |-> IF nodes[Innermost.start].type = "CAPTURE_START"
                           THEN "CAPTURE_END" ELSE "GROUP_END",
                  next |-> New(1), u |-> nodes[Innermost.start].u]]
  /\ node' = New(1)
  /\ atom_start' = Innermost.start
  /\ or_end' = Innermost.or_end
  /\ groups' = SubSeq(groups, 1, Len(groups) - 1)
  /\ Advance(1)
  /\ UNCHANGED <<dfsVars, start, cap_count, rx_cap_count,
                 ignorecase, quant, pc>>

(* The first node of the alternatives so far becomes a BRANCH to a copy of *)
(* itself and to the next alternative; atom_start stays what it was.       *)
OrStart == IF groups = <<>> THEN start ELSE nodes[Innermost.start].next

(* Mutant: the copy is taken after the rewrite. *)
Alternated(new) ==
  /\ Scanning("|")
  /\ nodes' = Joined(new)
  /\ or_end' = JoinedEnd
  /\ node' = New(2)
  /\ Advance(1)
  /\ UNCHANGED <<dfsVars, start, atom_start, groups, cap_count,
                 rx_cap_count, ignorecase, quant, pc>>
AlternativeCopiedLate ==
  Alternated([Grow(nodes, 2) EXCEPT ![New(1)] = Branch(TRUE, New(1), New(2)),
                                    ![OrStart] = Branch(TRUE, New(1), New(2))])

Alternative ==
  /\ Scanning("|")
  /\ nodes' = Joined([Grow(nodes, 2) EXCEPT ![New(1)] = nodes[OrStart],
                                            ![OrStart] = Branch(TRUE, New(1), New(2))])
  /\ or_end' = JoinedEnd
  /\ node' = New(2)
  /\ Advance(1)
  /\ UNCHANGED <<dfsVars, start, atom_start, groups, cap_count,
                 rx_cap_count, ignorecase, quant, pc>>

Quantified == /\ Advance(IF Lazy THEN 2 ELSE 1)
              /\ UNCHANGED <<dfsVars, start, atom_start, or_end,
                             groups, cap_count, rx_cap_count, ignorecase, quant, pc>>

Star ==
  /\ Scanning("*") /\ atom_start # NULL
  /\ nodes' = [Grow(nodes, 2) EXCEPT ![New(1)] = nodes[atom_start],
                                     ![atom_start] = Branch(~Lazy, New(1), New(2)),
                                     ![node] = Branch(~Lazy, New(1), New(2))]
  /\ node' = New(2)
  /\ Quantified

Plus ==
  /\ Scanning("+") /\ atom_start # NULL
  /\ nodes' = [Grow(nodes, 1) EXCEPT ![node] = Branch(~Lazy, atom_start, New(1))]
  /\ node' = New(1)
  /\ Quantified

Optional ==
  /\ Scanning("?") /\ atom_start # NULL
  /\ nodes' = [Grow(nodes, 1) EXCEPT ![New(1)] = nodes[atom_start],
                                     ![atom_start] = Branch(~Lazy, New(1), node)]
  /\ node' = node
  /\ Quantified

(* Literals, escapes for characters, sets, classes and the dot: one node   *)
(* each, or one TAKE per byte of a \u sequence.                            *)
AddAtom ==
  /\ pc = "scan" /\ Peek(0) \in DOMAIN Atoms
  /\ LET atom == Atoms[Peek(0)]
         At(j) == IF j = 1 THEN node ELSE New(j - 1)
     IN  /\ nodes' = [n \in 1..New(Len(atom)) |->
                        IF \E j \in DOMAIN atom : n = At(j)
                        THEN LET j == CHOOSE j \in DOMAIN atom : n = At(j)
                             IN  [type |-> atom[j].type, next |-> New(j), u |-> atom[j].u]
                        ELSE Grow(nodes, Len(atom))[n]]
         /\ node' = New(Len(atom))
  /\ atom_start' = node
  /\ Advance(1)
  /\ UNCHANGED <<dfsVars, start, or_end, groups, cap_count,
                 rx_cap_count, ignorecase, quant, pc>>

(* ^ and $ are doubled for the line; an assertion leaves atom_start alone. *)
Doubled == Peek(0) \in {"^", "$"} /\ Peek(1) = Peek(0)
AssertKind ==
  CASE Peek(0) = "^" -> IF Doubled THEN ASSERT_SOL ELSE ASSERT_SOS
    [] Peek(0) = "$" -> IF Doubled THEN ASSERT_EOL ELSE ASSERT_EOS
    [] OTHER -> Escapes[Peek(0)]

AddAssertion ==
  /\ pc = "scan" /\ Peek(0) \in {"^", "$"} \cup DOMAIN Escapes
  /\ nodes' = [Grow(nodes, 1) EXCEPT ![node] =
                 [type |-> "ASSERTION", next |-> New(1), u |-> AssertKind]]
  /\ node' = New(1)
  /\ Advance(IF Doubled THEN 2 ELSE 1)
  /\ UNCHANGED <<dfsVars, start, atom_start, or_end, groups,
                 cap_count, rx_cap_count, ignorecase, quant, pc>>

(* Mutant: the escape is not consumed. *)
IgnoreCaseAgain ==
  /\ Scanning("\\c")
  /\ ignorecase' = TRUE
  /\ UNCHANGED <<nodes, dfsVars, regexp, rpos, endValue, start, node,
                 atom_start, or_end, groups, cap_count, rx_cap_count, quant, pc>>

IgnoreCase ==
  /\ Scanning("\\c")
  /\ ignorecase' = TRUE
  /\ Advance(1)
  /\ UNCHANGED <<nodes, dfsVars, start, node, atom_start, or_end,
                 groups, cap_count, rx_cap_count, quant, pc>>

Rejected ==
  \/ Peek(0) \in Quantifiers /\ atom_start = NULL
  \/ Peek(0) = ")" /\ groups = <<>>
  \/ Peek(0) = "end of text" /\ groups # <<>>
  \/ Peek(0) \notin Quantifiers \cup DOMAIN Atoms \cup DOMAIN Escapes \cup
       {"(", ")", "|", "^", "$", "\\c", "end of text"}

RxError ==
  /\ pc = "scan" /\ Rejected
  /\ pc' = "error"
  /\ UNCHANGED <<nodes, dfsVars, scanVars, quant>>

Finish ==
  /\ Scanning("end of text") /\ groups = <<>>
  /\ nodes' = [Joined(nodes) EXCEPT ![JoinedEnd].type = "MATCH_END", ![JoinedEnd].u = endValue]
  /\ node' = JoinedEnd
  /\ rx_cap_count' = IF cap_count > rx_cap_count THEN cap_count ELSE rx_cap_count
  /\ pc' = "done"
  /\ UNCHANGED <<dfsVars, regexp, rpos, endValue, start, atom_start, or_end,
                 groups, cap_count, ignorecase, quant>>

-----------------------------------------------------------------------------
(* A quantifier in braces.  With min = 0 the atom moves to a new node and  *)
(* leaves an EMPTY one behind; otherwise it stays as the first repetition. *)
Repeat ==
  /\ pc = "scan" /\ Peek(0) \in DOMAIN Counts /\ atom_start # NULL
  /\ LET q == Counts[Peek(0)]
         moved == q.min = 0
     IN  /\ quant' = [min |-> q.min, max |-> q.max, greedy |-> ~Lazy,
                      i |-> IF moved THEN 0 ELSE 1,
                      sg_start |-> IF moved THEN New(1) ELSE atom_start, sg_end |-> node,
                      sg_start2 |-> NULL, for |-> "none"]
         /\ nodes' = IF moved
                     THEN [Grow(nodes, 1) EXCEPT ![New(1)] = nodes[atom_start],
                                                 ![atom_start].type = "EMPTY",
                                                 ![atom_start].next = NULL]
                     ELSE nodes
         /\ node' = IF moved THEN atom_start ELSE node
  /\ Advance(IF Lazy THEN 2 ELSE 1)
  /\ pc' = "repeat"
  /\ UNCHANGED <<dfsVars, start, atom_start, or_end, groups,
                 cap_count, rx_cap_count, ignorecase>>

Required == quant.i >= 1 /\ quant.i < quant.min
Unbounded == ~Required /\ quant.max = -1
Bounded == ~Required /\ quant.max # -1 /\ quant.i < quant.max

(* The copy that the next repetition needs: a required one grows from node *)
(* itself, an optional one from a node of its own.                         *)
CopyNeeded == Required \/ ((Unbounded \/ Bounded) /\ quant.i > 0)

RepeatCopy ==
  /\ pc = "repeat" /\ CopyNeeded
  /\ IF Required
     THEN CopyBegin(nodes, quant.sg_start, quant.sg_end, node)
     ELSE CopyBegin(Grow(nodes, 1), quant.sg_start, quant.sg_end, New(1))
  /\ quant' = [quant EXCEPT !.sg_start2 = IF Required THEN node ELSE New(1),
                            !.for = IF Required THEN "required"
                                    ELSE IF Unbounded THEN "unbounded" ELSE "bounded"]
  /\ pc' = "copying"
  /\ UNCHANGED scanVars

(* The last repetition of an unbounded quantifier is a loop; a repetition  *)
(* beyond min can be skipped.                                              *)
LinkUnbounded(first, last) ==
  /\ nodes' = [Grow(nodes, 1) EXCEPT ![node] = Branch(quant.greedy, first, New(1)),
                                     ![last] = Branch(quant.greedy, first, New(1))]
  /\ node' = New(1)
  /\ quant' = NoQuant
  /\ pc' = "scan"

LinkBounded(first, last) ==
  /\ nodes' = [nodes EXCEPT ![node] = Branch(quant.greedy, first, last)]
  /\ node' = last
  /\ quant' = [quant EXCEPT !.i = @ + 1, !.for = "none", !.sg_start2 = NULL]
  /\ pc' = "repeat"

RepeatFirst ==
  /\ pc = "repeat" /\ ~CopyNeeded /\ (Unbounded \/ Bounded)
  /\ IF Unbounded THEN LinkUnbounded(quant.sg_start, quant.sg_end)
     ELSE LinkBounded(quant.sg_start, quant.sg_end)
  /\ UNCHANGED <<dfsVars, regexp, rpos, endValue, start, atom_start, or_end,
                 groups, cap_count, rx_cap_count, ignorecase>>

RepeatEnd ==
  /\ pc = "repeat" /\ ~Required /\ ~Unbounded /\ ~Bounded
  /\ quant' = NoQuant
  /\ pc' = "scan"
  /\ UNCHANGED <<nodes, dfsVars, scanVars>>

Copying ==
  /\ pc = "copying"
  /\ CopyStep
  /\ UNCHANGED <<scanVars, quant, pc>>

CopyReturn ==
  /\ pc = "copying" /\ CopyDone
  /\ CASE quant.for = "required" ->
            /\ node' = copy.new_end
            /\ quant' = [quant EXCEPT !.i = @ + 1, !.for = "none", !.sg_start2 = NULL]
            /\ pc' = "repeat"
            /\ UNCHANGED nodes
       [] quant.for = "unbounded" -> LinkUnbounded(quant.sg_start2, copy.new_end)
       [] quant.for = "bounded" -> LinkBounded(quant.sg_start2, copy.new_end)
  /\ visited' = Unmarked
  /\ dfs_map' = EmptyMap
  /\ copy' = NoCopy
  /\ UNCHANGED <<dfs_stack, dfs_allocated, regexp, rpos, endValue, start, atom_start, or_end, groups, cap_count,
                 rx_cap_count, ignorecase>>

(* rx_partial_free, at the head of the next rx_init. *)
PartialFree ==
  /\ pc \in {"done", "error"}
  /\ nodes' = <<>> /\ visited' = {}
  /\ regexp' = <<>> /\ rpos' = 1 /\ endValue' = 0 /\ start' = NULL /\ node' = NULL
  /\ atom_start' = NULL /\ or_end' = NULL /\ groups' = <<>>
  /\ cap_count' = 0 /\ rx_cap_count' = 0 /\ ignorecase' = FALSE
  /\ pc' = "idle"
  /\ UNCHANGED <<dfs_stack, dfs_allocated, dfs_map, copy, quant>>

-----------------------------------------------------------------------------
CompileStep ==
  \/ OpenGroup \/ CloseGroup \/ Alternative \/ Star \/ Plus \/ Optional
  \/ AddAtom \/ AddAssertion \/ IgnoreCase \/ RxError \/ Finish
  \/ Repeat \/ RepeatCopy \/ RepeatFirst \/ RepeatEnd \/ Copying \/ CopyReturn

CompileNext == (\E text \in Texts : RxInit(text)) \/ CompileStep \/ PartialFree

CompileSpec == CompileInit /\ [][CompileNext]_compileVars /\ WF_compileVars(CompileStep)

(* What rx_match is given. *)
CompiledRx ==
  [start |-> start, ignorecase |-> ignorecase, cap_count |-> rx_cap_count,
   char_classes |-> Classes,
   nodes |-> [n \in DOMAIN nodes |->
                IF n \in visited THEN [nodes[n] EXCEPT !.type = "VISITED"] ELSE nodes[n]]]

-----------------------------------------------------------------------------
NodeIndex == DOMAIN nodes \cup {NULL}

CompileTypeOK ==
  /\ pc \in {"idle", "scan", "repeat", "copying", "done", "error"}
  /\ nodes \in Seq(Node) /\ visited \subseteq DOMAIN nodes
  /\ \A n \in DOMAIN nodes : Successors(nodes[n]) \subseteq NodeIndex
  /\ {start, node, atom_start, or_end} \subseteq NodeIndex
  /\ groups \in Seq([start : DOMAIN nodes, or_end : NodeIndex])
  /\ dfs_stack \in Seq(DOMAIN dfs_map) /\ Len(dfs_stack) <= dfs_allocated
  /\ DOMAIN dfs_map \subseteq DOMAIN nodes
  /\ \A n \in DOMAIN dfs_map : dfs_map[n] \in DOMAIN nodes
  /\ pc # "idle" => start = 1 /\ node # NULL /\ regexp \in Texts
  /\ rpos \in 1..(Len(regexp) + 1)
  /\ cap_count \in Nat /\ rx_cap_count \in Nat /\ ignorecase \in BOOLEAN
  /\ quant.i \in Nat /\ quant.sg_start \in NodeIndex /\ quant.sg_end \in NodeIndex

(* The nodes that a walk from the nodes of from can reach without entering *)
(* one of avoid.                                                           *)
ReachFrom(from, avoid) ==
  LET In == DOMAIN nodes \ avoid
      Grown[S \in SUBSET In] ==
        LET T == {n \in S \cup UNION {Successors(nodes[m]) : m \in S} : n \in In}
        IN  IF T = S THEN S ELSE Grown[T]
  IN  Grown[from \cap In]

OfType(types) == {n \in DOMAIN nodes : nodes[n].type \in types}

(* Between two symbols the graph is open only where the code will go on:   *)
(* at node, and where the alternatives of an open group meet.  No rewrite  *)
(* of a node by a quantifier or a | leaves another edge unset.             *)
OpenEnds == {node, or_end} \cup {groups[i].or_end : i \in DOMAIN groups}

OnlyOpenEndsDangle ==
  pc = "scan" =>
    LET loose == {n \in DOMAIN nodes : NULL \in Successors(nodes[n])} \ OpenEnds
    IN  loose # {} => loose \cap ReachFrom({start}, {}) = {}

(* A finished graph can be walked, and a walk is never cut off from        *)
(* MATCH_END: rx_match meets no NULL, no capture without a slot, and no    *)
(* loop it cannot leave.                                                   *)
EveryPathMatches ==
  pc = "done" =>
    LET R == ReachFrom({start}, {}) IN
    \A n \in R :
      /\ NULL \notin Successors(nodes[n])
      /\ ReachFrom({n}, {}) \cap OfType({"MATCH_END"}) # {}
      /\ nodes[n].type \in {"CAPTURE_START", "CAPTURE_END"} => nodes[n].u \in 1..rx_cap_count
      /\ n \notin visited

(* A quantifier with max = 0 removes its atom. *)
NothingRemoved ==
  \A i \in DOMAIN regexp : regexp[i] \in DOMAIN Counts => Counts[regexp[i]].max # 0

(* A walk that closes capture j has opened it, and one that opens it must  *)
(* close it before MATCH_END, in every copy of the group: cap_end of a     *)
(* match is never left over or missing.  Every group numbered is there.    *)
Of(type, j) == {n \in OfType({type}) : nodes[n].u = j}

CapturesPaired ==
  pc = "done" =>
    \A j \in 1..rx_cap_count :
      LET opens == Of("CAPTURE_START", j)
          closes == Of("CAPTURE_END", j)
          R == ReachFrom({start}, {})
      IN  /\ NothingRemoved => R \cap opens # {} /\ R \cap closes # {}
          /\ ReachFrom({start}, opens) \cap closes = {}
          /\ ReachFrom({nodes[n].next : n \in opens \cap R}, closes)
               \cap (opens \cup OfType({"MATCH_END"})) = {}

(* Every atom of the text can take part in a match, unless a quantifier    *)
(* with max = 0 removes it.                                                *)
NothingDropped ==
  pc = "done" /\ NothingRemoved =>
    LET R == ReachFrom({start}, {}) IN
    \A i \in DOMAIN regexp :
      regexp[i] \in DOMAIN Atoms /\ ~(i > 2 /\ regexp[i - 1] = "?" /\ regexp[i - 2] = "(") =>
        \A j \in DOMAIN Atoms[regexp[i]] :
          \E n \in R : nodes[n].type = Atoms[regexp[i]][j].type
                       /\ nodes[n].u = Atoms[regexp[i]][j].u

(* Every text is compiled or rejected. *)
Compiles == pc = "scan" ~> pc \in {"done", "error"}
=============================================================================

----------------------------- MODULE MCMatcher -----------------------------
(***************************************************************************)
(* Matcher on small graphs and strings.  The graphs are the ones rx_init   *)
(* builds for the regular expressions in the comments; between them they   *)
(* hold every node type, loops, copies, captures inside loops, anchors,    *)
(* classes of several bytes and the ignore case flag.  None has a loop     *)
(* that can be run without consuming: rx_match would not return.           *)
(***************************************************************************)
EXTENDS Matcher, TLC, FiniteSetsExt

Nd(type, next, u) == [type |-> type, next |-> next, u |-> u]
Empty(next, u) == Nd("EMPTY", next, u)
Take(next, u) == Nd("TAKE", next, u)
Branch(next, u) == Nd("BRANCH", next, u)
CaptureStart(next, u) == Nd("CAPTURE_START", next, u)
CaptureEnd(next, u) == Nd("CAPTURE_END", next, u)
MatchEndNode(next, u) == Nd("MATCH_END", next, u)
Assertion(next, u) == Nd("ASSERTION", next, u)
CharClassNode(next, u) == Nd("CHAR_CLASS", next, u)
CharSet(next, u) == Nd("CHAR_SET", next, u)
GroupStart(next, u) == Nd("GROUP_START", next, u)
GroupEnd(next, u) == Nd("GROUP_END", next, u)
Class(negated, values, ranges, char_sets) ==
  [negated |-> negated, values |-> values, ranges |-> ranges, char_sets |-> char_sets]

\* (a|ab)(b?)$
Alternation ==
  [start |-> 1, ignorecase |-> FALSE, cap_count |-> 2,
   nodes |-> <<CaptureStart(2, 1), Branch(4, 5), CaptureEnd(8, 1),
              Take(3, 97), Take(6, 97), Take(7, 98), Empty(3, 0),
              CaptureStart(9, 2), Branch(11, 10), CaptureEnd(12, 2),
              Take(10, 98), Assertion(13, 2), MatchEndNode(0, 0)>>,
   char_classes |-> <<>>]

\* ((a)|b)*c
NestedLoop ==
  [start |-> 1, ignorecase |-> FALSE, cap_count |-> 2,
   nodes |-> <<Branch(10, 11), Branch(6, 7), Take(4, 97), CaptureEnd(5, 2),
              CaptureEnd(9, 1), CaptureStart(3, 2), Take(8, 98), Empty(5, 0),
              Branch(10, 11), CaptureStart(2, 1), Take(12, 99), MatchEndNode(0, 0)>>,
   char_classes |-> <<>>]

\* \<\w+\>
Words ==
  [start |-> 1, ignorecase |-> FALSE, cap_count |-> 0,
   nodes |-> <<Assertion(2, 5), CharSet(3, 4), Branch(2, 4), Assertion(5, 6),
              MatchEndNode(0, 0)>>,
   char_classes |-> <<>>]

\* ^^[a-b]+$$
Lines ==
  [start |-> 1, ignorecase |-> FALSE, cap_count |-> 0,
   nodes |-> <<Assertion(2, 1), CharClassNode(3, 1), Branch(2, 4),
              Assertion(5, 3), MatchEndNode(0, 0)>>,
   char_classes |-> <<Class(FALSE, <<>>, <<97, 98>>, <<>>)>>]

\* \caB[^c]
IgnoreCase ==
  [start |-> 1, ignorecase |-> TRUE, cap_count |-> 0,
   nodes |-> <<Take(2, 97), Take(3, 66), CharClassNode(4, 1), MatchEndNode(0, 0)>>,
   char_classes |-> <<Class(TRUE, <<99>>, <<>>, <<>>)>>]

\* ^(?:a|b)b
Leading ==
  [start |-> 1, ignorecase |-> FALSE, cap_count |-> 0,
   nodes |-> <<Assertion(2, 0), GroupStart(3, 0), Branch(5, 6),
              GroupEnd(8, 0), Take(4, 97), Take(7, 98), Empty(4, 0),
              Take(9, 98), MatchEndNode(0, 0)>>,
   char_classes |-> <<>>]

\* \Gab|b
Position ==
  [start |-> 1, ignorecase |-> FALSE, cap_count |-> 0,
   nodes |-> <<Branch(5, 6), Take(3, 97), Take(4, 98), MatchEndNode(0, 0),
              Assertion(2, 4), Take(7, 98), Empty(4, 0)>>,
   char_classes |-> <<>>]

\* (?:ab){1,2}a{2}
Counted ==
  [start |-> 1, ignorecase |-> FALSE, cap_count |-> 0,
   nodes |-> <<GroupStart(2, 0), Take(3, 97), Take(4, 98), GroupEnd(5, 0),
              Branch(6, 10), GroupStart(7, 0), Take(8, 97), Take(9, 98),
              GroupEnd(10, 0), Take(11, 97), Take(12, 97), MatchEndNode(0, 0)>>,
   char_classes |-> <<>>]

\* [é-ü]\N.
Bytes ==
  [start |-> 1, ignorecase |-> FALSE, cap_count |-> 0,
   nodes |-> <<CharClassNode(2, 1), CharSet(3, 1), CharSet(4, 0), MatchEndNode(0, 0)>>,
   char_classes |-> <<Class(FALSE, <<>>, <<195, 169, 195, 188>>, <<>>)>>]

\* [^\s]\d??\W
AnyOf ==
  [start |-> 1, ignorecase |-> FALSE, cap_count |-> 0,
   nodes |-> <<CharClassNode(2, 1), Branch(4, 3), CharSet(5, 5), CharSet(3, 2),
              MatchEndNode(0, 0)>>,
   char_classes |-> <<Class(TRUE, <<>>, <<>>, <<6>>)>>]

\* a*a*b
Overlap ==
  [start |-> 1, ignorecase |-> FALSE, cap_count |-> 0,
   nodes |-> <<Branch(3, 4), Branch(3, 4), Take(2, 97), Branch(6, 7),
              Branch(6, 7), Take(5, 97), Take(8, 98), MatchEndNode(0, 0)>>,
   char_classes |-> <<>>]

\* a?$
Last ==
  [start |-> 1, ignorecase |-> FALSE, cap_count |-> 0,
   nodes |-> <<Branch(3, 2), Assertion(4, 2), Take(2, 97), MatchEndNode(0, 0)>>,
   char_classes |-> <<>>]

-----------------------------------------------------------------------------
(* a = 97, b = 98, c = 99 *)
MCPrograms == {Words, Lines, IgnoreCase, Leading, Position, Counted, Bytes, AnyOf,
               Overlap, Last, Alternation, NestedLoop}
MCStrings == {<<>>, <<97, 66>>, <<98, 97, 99>>, <<97, 98, 10>>, <<195, 169, 49>>, <<97, 98, 97, 97>>}

-----------------------------------------------------------------------------
(* The exact sets: least fixpoints of Steps, backwards from MATCH_END and  *)
(* forwards from the start.                                                *)
CoReachable(g, s, t) ==
  LET All == Configs(g, s)
      Grow[S \in SUBSET All] ==
        LET T == {c \in All : c \in S \/ Steps(g, s, t, c) \cap S # {}}
        IN  IF T = S THEN S ELSE Grow[T]
  IN  Grow[{c \in All : Accepting(g, c)}]

Reachable(g, s, t) ==
  LET All == Configs(g, s)
      Grow[S \in SUBSET All] ==
        LET T == {c \in S \cup UNION {Steps(g, s, t, b) : b \in S} : c \in All}
        IN  IF T = S THEN S ELSE Grow[T]
  IN  Grow[{<<g.start, t>>}]

(* TLC keeps a function that @@ returns, and would recompute any other.    *)
Table(Set(_, _, _)) ==
  [g \in Programs |-> [s \in Strings |-> [t \in 0..Len(s) |-> Set(g, s, t)] @@ <<>>] @@ <<>>] @@ <<>>

ViableTable == Table(CoReachable)
ReachedTable == Table(Reachable)
MCViable(g, s, t) == ViableTable[g][s][t]
MCReached(g, s, t) == ReachedTable[g][s][t]

(* What CapturesOfMatch and PathNeverRevisits ask of the graphs: the nodes *)
(* that a walk comes to before it opens capture j, while it is open, and   *)
(* after it; and how many edges it can take from a node without consuming. *)
Proofs == INSTANCE MatcherProofs

PhaseAfter(g, n, j, phase) ==
  IF Proofs!Opens(g, n, j) THEN "open" ELSE IF Proofs!Closes(g, n, j) THEN "closed" ELSE phase

InPhase(g, j, phase) ==
  LET Grow[S \in SUBSET ((DOMAIN g.nodes) \X {"fresh", "open", "closed"})] ==
        LET T == S \cup UNION {Successors(g.nodes[c[1]]) \X {PhaseAfter(g, c[1], j, c[2])} : c \in S}
        IN  IF T = S THEN S ELSE Grow[T]
  IN  {n \in DOMAIN g.nodes : <<n, phase>> \in Grow[{<<g.start, "fresh">>}]}

Turns(g) ==
  LET Depth[n \in DOMAIN g.nodes] ==
        IF g.nodes[n].type \in Consuming \/ Successors(g.nodes[n]) = {} THEN 0
        ELSE 1 + Max({Depth[m] : m \in Successors(g.nodes[n])})
  IN  Depth

ASSUME HypothesesOfProofs ==
  \A g \in Programs :
    /\ Proofs!Ranked(g, Turns(g))
    /\ \A j \in 1..g.cap_count :
         Proofs!Phases(g, j, InPhase(g, j, "fresh"), InPhase(g, j, "open"), InPhase(g, j, "closed"))
=============================================================================

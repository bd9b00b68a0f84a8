----------------------------- MODULE MCCompile -----------------------------
(***************************************************************************)
(* Compile on small texts: every sequence of up to RawLen characters, most *)
(* of them malformed in some way, and quantified atoms followed by more    *)
(* text.                                                                   *)
(***************************************************************************)
EXTENDS Compile, TLC

CONSTANT RawLen

TakeOf(b) == <<[type |-> "TAKE", u |-> b]>>

(* [ab] is class 1; \u2603 becomes the three bytes of its encoding. *)
MCAtoms == ("a" :> TakeOf(97)) @@ ("b" :> TakeOf(98)) @@ ("c" :> TakeOf(99)) @@ (":" :> TakeOf(58))
  @@ ("." :> <<[type |-> "CHAR_SET", u |-> CS_ANY]>>)
  @@ ("[ab]" :> <<[type |-> "CHAR_CLASS", u |-> 1]>>)
  @@ ("\\u2603" :> TakeOf(226) \o TakeOf(152) \o TakeOf(131))
MCEscapes == ("\\G" :> ASSERT_SOP) @@ ("\\<" :> ASSERT_SOW) @@ ("\\>" :> ASSERT_EOW)
Times(min, max) == [min |-> min, max |-> max]
MCCounts == ("{0}" :> Times(0, 0)) @@ ("{2}" :> Times(2, 2)) @@ ("{3,2}" :> Times(3, 2))
  @@ ("{0,2}" :> Times(0, 2)) @@ ("{1,3}" :> Times(1, 3)) @@ ("{0,}" :> Times(0, -1))
  @@ ("{2,}" :> Times(2, -1))
MCClasses == <<[negated |-> FALSE, values |-> <<97, 98>>, ranges |-> <<>>, char_sets |-> <<>>]>>

RawSymbols == {"(", ")", "|", "?", "*", "+", ":", "a", "{0,2}"}
Raw == UNION {[1..n -> RawSymbols] : n \in 0..RawLen}

(* An alternative that is empty and first shares its only node with the    *)
(* end of the group, and what is in one is lost to the other; {0} makes    *)
(* its atom such an alternative.  These texts are left out here.           *)
EmptyFirst(t) ==
  \E i \in DOMAIN t : t[i] = "|" /\ (i = 1 \/ t[i - 1] = "(" \/ (i > 3 /\ SubSeq(t, i - 3, i - 1) = <<"(", "?", ":">>))

(* A quantifier after a | applies to the atom before it, whose group of    *)
(* alternatives has moved on: copying that atom leads out of the graph.    *)
StaleAtom(t) == \E i \in 2..Len(t) : t[i] \in Quantifiers /\ t[i - 1] = "|"

(* A copy of a subgraph with a lazy quantifier in it is not faithful.      *)
LazyCopied(t) ==
  \E i, j \in DOMAIN t : i + 1 < j /\ t[i] \in Quantifiers /\ t[i + 1] = "?" /\ t[j] \in DOMAIN Counts

(* A + loops back to the node its atom begins with; a quantifier stacked   *)
(* on it moves that atom elsewhere, and the loop leads to what replaced it.*)
Stacked(t) == \E i \in 2..Len(t) : t[i] \in DOMAIN Counts /\ t[i - 1] \in Quantifiers

Bodies == {<<"a">>, <<"[ab]">>, <<"\\u2603">>, <<"(", "a", "|", "b", ")">>,
           <<"(", "?", ":", "a", "b", ")">>, <<"(", "a", "*", "b", ")">>,
           <<"(", "a", "?", "b", ")">>, <<"(", "(", "a", ")", "+", "|", ".", ")">>,
           <<"(", "a", "|", "b", "|", "c", ")">>, <<"(", "a", "{1,3}", ")">>}
Suffixes == {<<>>, <<"b">>, <<"|", "c">>, <<"?">>}
Assertive == {<<"^", "a", "^", "^", "b">>, <<"a", "$", "$", "|", "b", "$">>, <<"\\G", "a", "\\<">>,
              <<"\\c", "a", "\\>">>, <<"a", "bad">>, <<"(", "^", "a", ")", "*">>}
Quantified1 ==
  {b \o <<q>> \o s : b \in Bodies, q \in (DOMAIN MCCounts \ {"{0}"}) \cup {"*", "+", "?"}, s \in Suffixes}
  \cup {b \o <<"{0}">> \o s : b \in Bodies, s \in {<<>>, <<"b">>}}
Nested == {<<"(">> \o b \o <<q, ")", r>> : b \in Bodies, q \in {"+", "{2}", "{0,}"}, r \in {"{2}", "{1,3}", "*"}}

LazyTexts == {<<"(", "a", "?", "?", ")", "{2}", "b">>}
StaleTexts == {<<"a", "|", "{2}">>}

(* A depth first numbering of the nodes from n on, second edges of a       *)
(* BRANCH first: the search gives each node that has none yet the next     *)
(* number, and notes the last one given when it goes back.                 *)
RECURSIVE Numbered(_, _)
Numbered(n, g) ==
  IF n = NULL \/ n \in DOMAIN g.pre THEN g
  ELSE LET entered == [g EXCEPT !.pre = @ @@ (n :> g.count), !.count = @ + 1]
           second == IF n # g.to /\ nodes[n].type = "BRANCH"
                     THEN Numbered(nodes[n].u, entered) ELSE entered
           first == IF n # g.to THEN Numbered(nodes[n].next, second) ELSE second
       IN  [first EXCEPT !.last = @ @@ (n :> first.count - 1)]

Proofs == INSTANCE CompileProofs

(* What the proofs about copy_subgraph assume when a call of it begins:    *)
(* the part of the graph that rx_init_start has made of the atom is left   *)
(* only at its end, holds neither new_start nor a MATCH_END, and has a     *)
(* numbering in which an edge leads back, or to the next number, or, from  *)
(* a BRANCH, to where the search of its second edge has come.              *)
CopiesCanBeNumbered ==
  pc = "copying" /\ visited = {} /\ dfs_stack = <<copy.sg_start>> =>
    LET g == Numbered(copy.sg_start,
                      [ns |-> nodes, from |-> copy.sg_start, to |-> copy.sg_end,
                       new |-> copy.new_start, pre |-> <<>>, last |-> <<>>, count |-> 0])
    IN  Proofs!Numbered([ns |-> g.ns, from |-> g.from, to |-> g.to, new |-> g.new,
                         R |-> DOMAIN g.pre, pre |-> g.pre, last |-> g.last])

MCTexts == {t \in Raw : ~EmptyFirst(t) /\ ~StaleAtom(t) /\ ~LazyCopied(t) /\ ~Stacked(t)} \cup Assertive \cup Quantified1 \cup Nested
=============================================================================

------------------------------- MODULE MCGrep -------------------------------
(***************************************************************************)
(* Grep with what rx_match finds taken from RegexSemantics, on files of a  *)
(* few lines and on a small tree of directories.                           *)
(*                                                                         *)
(* Every file ends with a newline: the line without one at the end of a    *)
(* file is left out of the lines after a match.  None has a carriage       *)
(* return: show_post_text stops there, and the newline after it would be   *)
(* numbered as a line of its own.  No pattern matches the empty string at  *)
(* the end of a file, except NullablePatterns.                             *)
(***************************************************************************)
EXTENDS Grep

Sem == INSTANCE RegexSemantics

(* rx_match, as its callers see it; beyond the data only an empty match at *)
(* pos can be found.                                                       *)
Found(x, s, t) == [start |-> t, end |-> Sem!AttemptAt(x, s, t)[1].pos]
MCFind(x, s, p) ==
  IF p > Len(s) THEN {Found(x, s, t) : t \in {q \in {p} : Sem!AttemptAt(x, s, q) # <<>>}}
  ELSE IF Sem!Matches(x, s, p) THEN {Found(x, s, Sem!FirstStart(x, s, p))}
  ELSE {}

A == Sem!Lit("a", 97)
B == Sem!Lit("b", 98)
N == Sem!Lit("\\n", NEWLINE)
WordStart == Sem!Check(<<"\\<">>, Sem!ASSERT_SOW)

(* a   \<   b+\nb*   (?:a\n)+ *)
MCPatterns == {A, WordStart,
               Sem!Cat(Sem!Rep(B, "+", 1, -1, TRUE), Sem!Cat(N, Sem!Rep(B, "*", 0, -1, TRUE))),
               Sem!Rep(Sem!Group(Sem!Cat(A, N)), "+", 1, -1, TRUE)}

(* a* *)
NullablePatterns == {Sem!Rep(A, "*", 0, -1, TRUE)}

File(kind, name, content) == [kind |-> kind, name |-> name, content |-> content]
Lines == {<<>>, <<97>>, <<98, 97>>, <<98>>}
Joined(ls) == IF ls = <<>> THEN <<>> ELSE Sem!FlattenSeq([i \in DOMAIN ls |-> ls[i] \o <<NEWLINE>>])
Texts == {Joined(ls) : ls \in UNION {[1..n -> Lines] : n \in 0..4}}
         \cup {Joined(ls) : ls \in [1..6 -> {<<>>, <<97>>}]}
         \cup {<<97, 97, 98, 32, 97, 97, 10, 98, 98, 10, 98, 97, 10>>}

One == File("file", "one", <<97, 10, 98, 10, 97, 10>>)
Two == File("file", "two", <<98, 98, 10>>)
Three == File("file", "three", <<97, 10>>)
Stdin == File("stdin", "", <<98, 97, 10>>)
Bad == File("bad", "bad", <<98>>)
Dir(name, entries) == [kind |-> "dir", name |-> name, entries |-> entries]
Missing == [kind |-> "missing", name |-> "none"]
Locked == [kind |-> "locked", name |-> "locked"]
Inner == Dir("inner", {Two, Locked})
Outer == Dir("outer", {Inner, One, Missing})
Empty == Dir("empty", {})

Trees == {One, Two, Three, Stdin, Bad, Missing, Locked, Inner, Outer, Empty}
MCEntries == Trees \cup {File("file", "text", t) : t \in Texts}
MCArguments == {<<File("file", "text", t)>> : t \in Texts}
               \cup {<<Stdin, Outer, Three>>, <<Outer, Missing, Three, Empty>>, <<Two, Bad, One>>, <<>>}

Context(b, a) == [before |-> b, after |-> a]
MCContexts == {Context(0, 0), Context(1, 0), Context(0, 1), Context(2, 1), Context(1, 2)}

(* What the theorems of GrepProofs ask of Find. *)
Proofs == INSTANCE GrepProofs
ASSUME HypothesesOfProofs ==
  Patterns = MCPatterns => Proofs!NeverEmptyAtEnd /\ Proofs!FindsFirst
=============================================================================

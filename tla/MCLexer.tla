------------------------------ MODULE MCLexer ------------------------------
(***************************************************************************)
(* Lexer on small .lx files over a, b, newline and the quote, scanned over *)
(* all strings of a few bytes.                                             *)
(*                                                                         *)
(* Every state has a rule for any byte, except WORD, whose strings either  *)
(* have its token at the position or nowhere after it: rx_match lets \G    *)
(* hold wherever its search has moved to, and lex() would take a later     *)
(* token for the one at its position.                                      *)
(*                                                                         *)
(* No rule matches the empty string: lex() would find it for ever.  No     *)
(* first rule of a state begins with a + quantified atom, which the next   *)
(* rule of the state would move away from under the loop.                  *)
(***************************************************************************)
EXTENDS Lexer, RegexSemantics, TLC

MCAtoms == ("a" :> <<[type |-> "TAKE", u |-> 97]>>) @@ ("b" :> <<[type |-> "TAKE", u |-> 98]>>)
  @@ ("\\n" :> <<[type |-> "TAKE", u |-> NEWLINE]>>)
  @@ ("." :> <<[type |-> "CHAR_SET", u |-> CS_ANY]>>)
NoEscapes == [s \in {} |-> 0]
MCCounts == "{2}" :> [min |-> 2, max |-> 2]
NoClasses == <<>>

A == Lit("a", 97)
B == Lit("b", 98)
N == Lit("\\n", NEWLINE)
Many(x) == Rep(x, "*", 0, -1, TRUE)
Some(x) == Rep(x, "+", 1, -1, TRUE)
Few(x) == Rep(x, "+", 1, -1, FALSE)
Maybe(x) == Rep(x, "?", 0, 1, TRUE)
Twice(x) == Rep(x, "{2}", 2, 2, TRUE)

(* The rules, with the expressions of their texts for TokenStream. *)
In(states, x, begin) == [states |-> states, text |-> Text(x), expr |-> x, begin |-> begin]
Enter(x, begin) == In(<<>>, x, begin)
Plain(x) == Enter(x, "")

(* a keyword before the names it is a prefix of, and after them *)
Keyword == <<Plain(Cat(A, B)), Plain(Some(Group(Alt(A, B)))), Plain(AnyByte)>>
Shadowed == <<Plain(Cat(Many(A), B)), Plain(Alt(N, Cat(A, N))), Plain(Some(A)), Plain(Cat(A, B)), Plain(AnyByte)>>
(* a first rule that starts with an atom that its own text moves *)
Moved == <<Plain(Alt(Cat(Maybe(A), B), N)), Plain(Twice(Group(Alt(A, N)))), Plain(Few(A)), Plain(AnyByte)>>
(* b opens and closes a text in which a newline is ordinary *)
Quoted == <<Enter(B, "TEXT"), In(<<"TEXT">>, B, "INITIAL"), In(<<"INITIAL", "TEXT">>, Some(Group(Alt(N, A))), "")>>
(* after a, only b's *)
Partial == <<Enter(A, "WORD"), Plain(AnyByte), In(<<"WORD">>, Cat(B, B), "INITIAL")>>

(* the second rule is a * with nothing before it: no scanner is generated *)
Rejects == <<Plain(A), Plain(Many(Check(<<>>, ASSERT_SOS)))>>

MCScanners == {Keyword, Shadowed, Moved, Quoted, Partial, Rejects}
Strings(n) == UNION {[1..k -> {97, 98, NEWLINE}] : k \in 0..n}
MCInputs(sc) ==
  IF sc = Partial THEN {<<>>, <<97>>, <<97, 98, 98>>, <<98, 97, 98>>, <<97, 98, 98, 98, 97, 97>>}
  ELSE Strings(4)

(* The generated scanner is the stream of tokens that the rules describe. *)
Stream == INSTANCE TokenStream WITH
            running <- phase \in {"lex", "match"}, position <- lex_pos2
IsTokenStream == Stream!Spec
=============================================================================

--------------------------- MODULE RegexSemantics ---------------------------
(***************************************************************************)
(* What a regular expression means, with no graph and no backtracking: the *)
(* outcomes of matching an expression from a position, in the order in     *)
(* which a backtracking matcher prefers them (README.md, "Regular          *)
(* expression features supported": greedy, nongreedy, capture groups).     *)
(*                                                                         *)
(* An expression is a record with the field op; Text is how it is written. *)
(***************************************************************************)
EXTENDS Chars, SequencesExt

Lit(sym, byte) == [op |-> "lit", sym |-> sym, byte |-> byte]
AnyByte == [op |-> "any"]
Cat(x, y) == [op |-> "cat", left |-> x, right |-> y]
Alt(x, y) == [op |-> "alt", left |-> x, right |-> y]
Capture(x) == [op |-> "capture", body |-> x]
Group(x) == [op |-> "group", body |-> x]
Check(sym, kind) == [op |-> "check", syms |-> sym, kind |-> kind]
Rep(x, sym, min, max, greedy) ==
  [op |-> "rep", body |-> x, sym |-> sym, min |-> min, max |-> max, greedy |-> greedy]

RECURSIVE Text(_)
Text(x) ==
  CASE x.op = "lit" -> <<x.sym>>
    [] x.op = "any" -> <<".">>
    [] x.op = "check" -> x.syms
    [] x.op = "cat" -> Text(x.left) \o Text(x.right)
    [] x.op = "alt" -> Text(x.left) \o <<"|">> \o Text(x.right)
    [] x.op = "capture" -> <<"(">> \o Text(x.body) \o <<")">>
    [] x.op = "group" -> <<"(", "?", ":">> \o Text(x.body) \o <<")">>
    [] x.op = "rep" -> Text(x.body) \o <<x.sym>> \o (IF x.greedy THEN <<>> ELSE <<"?">>)

RECURSIVE Captures(_)
Captures(x) ==
  CASE x.op \in {"lit", "any", "check"} -> 0
    [] x.op \in {"cat", "alt"} -> Captures(x.left) + Captures(x.right)
    [] x.op = "capture" -> 1 + Captures(x.body)
    [] OTHER -> Captures(x.body)

(* An outcome is the position reached and, for each capture, the ends of   *)
(* what it took last, or <<>>.  k is the number of the captures to the     *)
(* left of x, t the position the attempt began at.                         *)
RECURSIVE Outcomes(_, _, _, _, _), Repetitions(_, _, _, _, _, _)
Outcomes(x, k, s, t, o) ==
  CASE x.op = "lit" ->
         IF o.pos < Len(s) /\ s[o.pos + 1] = x.byte THEN <<[o EXCEPT !.pos = @ + 1]>> ELSE <<>>
    [] x.op = "any" ->
         IF o.pos < Len(s) THEN <<[o EXCEPT !.pos = @ + 1]>> ELSE <<>>
    [] x.op = "check" ->
         IF MatchAssertion(x.kind, t, s, o.pos) THEN <<o>> ELSE <<>>
    [] x.op = "cat" ->
         LET first == Outcomes(x.left, k, s, t, o) IN
         FlattenSeq([j \in DOMAIN first |->
                       Outcomes(x.right, k + Captures(x.left), s, t, first[j])])
    [] x.op = "alt" ->
         Outcomes(x.left, k, s, t, o) \o Outcomes(x.right, k + Captures(x.left), s, t, o)
    [] x.op = "capture" ->
         LET inner == Outcomes(x.body, k + 1, s, t, o) IN
         [j \in DOMAIN inner |-> [inner[j] EXCEPT !.caps[k + 1] = <<o.pos, inner[j].pos>>]]
    [] x.op = "group" -> Outcomes(x.body, k, s, t, o)
    [] x.op = "rep" -> Repetitions(x, 0, k, s, t, o)

(* n repetitions have brought the match to o. *)
Repetitions(x, n, k, s, t, o) ==
  LET once == Outcomes(x.body, k, s, t, o)
      more == FlattenSeq([j \in DOMAIN once |-> Repetitions(x, n + 1, k, s, t, once[j])])
  IN  IF n < x.min THEN more
      ELSE IF x.max # -1 /\ n >= x.max THEN <<o>>
      ELSE IF x.greedy THEN more \o <<o>> ELSE <<o>> \o more

AttemptAt(x, s, t) ==
  Outcomes(x, 0, s, t, [pos |-> t, caps |-> [j \in 1..Captures(x) |-> <<>>]])

(* The preferred outcome of the leftmost attempt that has one. *)
Starts(x, s, p) == {t \in p..Len(s) : AttemptAt(x, s, t) # <<>>}
Matches(x, s, p) == Starts(x, s, p) # {}
FirstStart(x, s, p) == CHOOSE t \in Starts(x, s, p) : \A u \in Starts(x, s, p) : t <= u
Preferred(x, s, p) == AttemptAt(x, s, FirstStart(x, s, p))[1]
=============================================================================

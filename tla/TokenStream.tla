---------------------------- MODULE TokenStream ----------------------------
(***************************************************************************)
(* What example6.c says a scanner does: at each position the first rule of *)
(* the current start state that matches there is taken ("It also stops     *)
(* after the first match found, it doesn't try to find the longest match") *)
(* and the next token begins where its text ends.                          *)
(***************************************************************************)
EXTENDS RegexSemantics

CONSTANT Scanners, Inputs(_)

VARIABLES rules, input, running, position, state

svars == <<rules, input, running, position, state>>

Init == rules = <<>> /\ input = <<>> /\ running = FALSE /\ position = 0 /\ state = "INITIAL"

Load ==
  /\ ~running
  /\ rules' \in Scanners \cup {<<>>}
  /\ input' = <<>> /\ position' = 0 /\ state' = "INITIAL"
  /\ UNCHANGED running

Begin ==
  /\ ~running /\ rules # <<>>
  /\ input' \in Inputs(rules)
  /\ running' = TRUE
  /\ UNCHANGED <<rules, position, state>>

(* The rules that match at the position. *)
IsActive(r) ==
  \/ rules[r].states = <<>> /\ state = "INITIAL"
  \/ \E i \in DOMAIN rules[r].states : rules[r].states[i] = state
Candidates == {r \in DOMAIN rules : IsActive(r) /\ AttemptAt(rules[r].expr, input, position) # <<>>}

Take ==
  /\ running
  /\ \E r \in Candidates :
       /\ \A q \in Candidates : r <= q
       /\ position' = AttemptAt(rules[r].expr, input, position)[1].pos
       /\ state' = IF rules[r].begin = "" THEN state ELSE rules[r].begin
  /\ UNCHANGED <<rules, input, running>>

Stop ==
  /\ running /\ Candidates = {}
  /\ running' = FALSE
  /\ UNCHANGED <<rules, input, position, state>>

Spec == Init /\ [][Load \/ Begin \/ Take \/ Stop]_svars
=============================================================================

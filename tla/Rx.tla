--------------------------------- MODULE Rx ---------------------------------
(***************************************************************************)
(* The library as its caller uses it: rx_init compiles a text into the     *)
(* graph, then rx_match walks that graph over strings.  Compile and        *)
(* Matcher meet only in the graph, so what is checked here is what neither *)
(* can say alone: that the walk of the compiled graph gives what the       *)
(* expression means.                                                       *)
(***************************************************************************)
EXTENDS Library, RegexSemantics

CONSTANTS
  Expressions,   \* the expressions that may be compiled, as RegexSemantics has them
  Subjects       \* the strings they may be matched against

VARIABLE expr    \* the expression being compiled or matched

rxVars == <<compileVars, expr, matchVars>>

NoExpression == Cat(AnyByte, AnyByte)

RxStart == CompileInit /\ M!Init /\ expr = NoExpression

(* rx_init with the text of some expression. *)
CompileText ==
  \E x \in Expressions : RxInit(Text(x)) /\ expr' = x /\ UNCHANGED matchVars

CompileTurn == CompileStep /\ UNCHANGED <<expr, matchVars>>

(* rx_match of what has been compiled, from some position of a string. *)
MatchString ==
  /\ pc = "done"
  /\ \E s \in Subjects : \E p \in 0..Len(s) : M!Call(CompiledRx, s, p)
  /\ UNCHANGED <<compileVars, expr>>

MatchTurn == M!Step /\ UNCHANGED <<compileVars, expr>>

(* rx_matcher_free. *)
FreeMatcher ==
  /\ status \in {"matched", "failed"}
  /\ Idle
  /\ UNCHANGED <<compileVars, expr>>

FreeRx ==
  /\ status = "idle" /\ PartialFree
  /\ expr' = NoExpression /\ UNCHANGED matchVars

RxNext == CompileText \/ CompileTurn \/ MatchString \/ MatchTurn \/ FreeMatcher \/ FreeRx

RxSpec == RxStart /\ [][RxNext]_rxVars /\ WF_rxVars(CompileTurn) /\ WF_rxVars(MatchTurn)

-----------------------------------------------------------------------------
(* What a caller sees of a capture: its ends, or that it took no part.     *)
Seen(j) == IF caps[j].defined THEN <<caps[j].start, caps[j].end>> ELSE <<>>

(* The result of rx_match on the compiled graph is the meaning of the      *)
(* expression: it fails where no attempt has an outcome, and it finds the  *)
(* preferred outcome of the leftmost attempt that has one, with the        *)
(* captures of that outcome.  This is what greedy, nongreedy, alternation  *)
(* order and the copies of counted repetitions come to.                    *)
ResultIsMeaning ==
  /\ status = "failed" => ~Matches(expr, str, arg_pos)
  /\ status = "matched" =>
       /\ Matches(expr, str, arg_pos)
       /\ start_pos = FirstStart(expr, str, arg_pos)
       /\ LET best == Preferred(expr, str, arg_pos) IN
          /\ pos = best.pos
          /\ match_cap_count = Captures(expr) + 1
          /\ \A j \in 1..Captures(expr) : Seen(j) = best.caps[j]

(* Every call of the library returns. *)
CallsReturn == /\ pc = "scan" ~> pc = "done"
               /\ status = "running" ~> status # "running"
=============================================================================

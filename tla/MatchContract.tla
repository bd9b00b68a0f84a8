--------------------------- MODULE MatchContract ---------------------------
(***************************************************************************)
(* What rx_match promises its caller (README.md, "rx_match"): the call     *)
(* returns, with a match at the leftmost start position that has one, or   *)
(* with 0 when there is none.  How it is found is left open.               *)
(***************************************************************************)
EXTENDS Chars

CONSTANTS Programs, Strings, Viable(_, _, _), Reached(_, _, _), AnchorsLead(_)

VARIABLES rx, str, arg_pos, status, start, end

cvars == <<rx, str, arg_pos, status, start, end>>

Init == /\ rx = NoRx /\ str = <<>> /\ arg_pos = 0
        /\ status = "idle" /\ start = 0 /\ end = 0

Ask(g, s, p) ==
  /\ status = "idle"
  /\ rx' = g /\ str' = s /\ arg_pos' = p
  /\ status' = "running" /\ start' = 0 /\ end' = 0

CanMatchAt(t) == <<rx.start, t>> \in Viable(rx, str, t)

(* A match: at the first start that has one, ending where the graph can.   *)
ReplyMatch ==
  /\ status = "running"
  /\ \E t \in arg_pos..Len(str), e \in 0..Len(str), n \in DOMAIN rx.nodes :
       /\ \A u \in arg_pos..(t - 1) : ~CanMatchAt(u)
       /\ rx.nodes[n].type = "MATCH_END"
       /\ <<n, e>> \in Reached(rx, str, t)
       /\ t <= e
       /\ start' = t /\ end' = e
  /\ status' = "matched"
  /\ UNCHANGED <<rx, str, arg_pos>>

(* No match: only when no start has one.  A graph with a start or position *)
(* assertion further inside may give up early.                             *)
ReplyNoMatch ==
  /\ status = "running"
  /\ AnchorsLead(rx) => \A t \in arg_pos..Len(str) : ~CanMatchAt(t)
  /\ status' = "failed"
  /\ UNCHANGED <<rx, str, arg_pos, start, end>>

Return ==
  /\ status \in {"matched", "failed"}
  /\ rx' = NoRx /\ str' = <<>> /\ arg_pos' = 0
  /\ status' = "idle" /\ start' = 0 /\ end' = 0

Next ==
  \/ \E g \in Programs, s \in Strings : \E p \in 0..Len(s) : Ask(g, s, p)
  \/ ReplyMatch
  \/ ReplyNoMatch
  \/ Return

Safety == Init /\ [][Next]_cvars
Spec == Safety /\ WF_cvars(ReplyMatch \/ ReplyNoMatch)
=============================================================================

------------------------------ MODULE Library ------------------------------
(***************************************************************************)
(* The library as rx.h offers it: what rx_init_start compiles (Compile)    *)
(* and a matcher that walks a graph (Matcher), side by side.  They meet    *)
(* only in the graph that a caller hands from one to the other: Rx and     *)
(* Lexer are two such callers.                                             *)
(***************************************************************************)
EXTENDS Compile

VARIABLES rx, str, arg_pos, start_pos, pos, at, path, caps, match_cap_count, value, status

matchVars == <<rx, str, arg_pos, start_pos, pos, at, path, caps, match_cap_count, value, status>>

Nothing(g, s, t) == {}

(* The callers say which graphs and strings rx_match is called with. *)
M == INSTANCE Matcher WITH node <- at, cap_count <- match_cap_count,
       Programs <- {}, Strings <- {}, CapAllocated <- 1,
       Viable <- Nothing, Reached <- Nothing

(* The caller has read the result and frees the matcher; a matcher that is *)
(* used again is the subject of Matcher's own runs.                        *)
Idle ==
  /\ rx' = NoRx /\ str' = <<>> /\ arg_pos' = 0 /\ start_pos' = 0 /\ pos' = 0
  /\ at' = NULL /\ path' = <<>> /\ caps' = [j \in {0} |-> M!Unset]
  /\ match_cap_count' = 0 /\ value' = 0 /\ status' = "idle"
=============================================================================

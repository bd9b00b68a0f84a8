------------------------------ MODULE Parsers -------------------------------
(***************************************************************************)
(* The parsers of a bracket and of a brace as rx_init_start (rx.c) uses    *)
(* them: one is called for each [ or {, and runs to its end before the     *)
(* next symbol is looked at.                                               *)
(***************************************************************************)
EXTENDS ClassParser, QuantifierParser

Init == ClassInit /\ QuantInit
Next ==
  \/ qstate = "idle" /\ ClassNext /\ UNCHANGED quantVars
  \/ cstate = "idle" /\ QuantNext /\ UNCHANGED classVars

Spec == Init /\ [][Next]_<<classVars, quantVars>>

-----------------------------------------------------------------------------
(* Types of both parsers: the positions stay in the text, the counts in an *)
(* int, and what is returned is a character class.                         *)
ParsersTypeOK == ClassTypeOK /\ QuantTypeOK
=============================================================================

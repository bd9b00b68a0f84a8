-------------------------- MODULE QuantifierParser --------------------------
(***************************************************************************)
(* rx_quantifier_init (rx.c): the numbers of {2}, {2,} and {2,3}, and the  *)
(* ? after them.  They are added up in an int; a sum that does not fit is  *)
(* undefined in C and wraps in the program that is built.                  *)
(***************************************************************************)
EXTENDS Integers, Sequences

CONSTANTS
  QuantTexts,    \* what may follow a {
  Digits,        \* symbol -> its value
  IntMax         \* 2^31 - 1 in the code

ASSUME IntMaxAssumption == IntMax \in Nat /\ IntMax >= 9
ASSUME QuantTextsAssumption == \A text \in QuantTexts : text \in Seq(STRING)
ASSUME DigitsAssumption == /\ \A sym \in DOMAIN Digits : Digits[sym] \in 0..9
                           /\ {",", "}", "end of text"} \cap DOMAIN Digits = {}

VARIABLES
  qtext, qpos, min, seen_min, max, seen_max, greedy,
  qstate         \* "idle", "min", "max", "done" or "error"

quantVars == <<qtext, qpos, min, seen_min, max, seen_max, greedy, qstate>>

ToInt(n) == ((n + IntMax + 1) % (2 * IntMax + 2)) - IntMax - 1

QSymbol == IF qpos <= Len(qtext) THEN qtext[qpos] ELSE "end of text"

QuantInit ==
  /\ qtext = <<>> /\ qpos = 1 /\ min = 0 /\ seen_min = FALSE
  /\ max = 0 /\ seen_max = FALSE /\ greedy = TRUE /\ qstate = "idle"

QuantBegin(text) ==
  /\ qtext' = text
  /\ qstate' = "min"
  /\ UNCHANGED <<qpos, min, seen_min, max, seen_max, greedy>>

MinDigit ==
  /\ qstate = "min" /\ QSymbol \in DOMAIN Digits
  /\ min' = ToInt(10 * min + Digits[QSymbol]) /\ seen_min' = TRUE
  /\ qpos' = qpos + 1
  /\ UNCHANGED <<qtext, max, seen_max, greedy, qstate>>

Comma ==
  /\ qstate = "min" /\ QSymbol = "," /\ seen_min
  /\ qpos' = qpos + 1
  /\ qstate' = "max"
  /\ UNCHANGED <<qtext, min, seen_min, max, seen_max, greedy>>

MaxDigit ==
  /\ qstate = "max" /\ QSymbol \in DOMAIN Digits
  /\ max' = ToInt(10 * max + Digits[QSymbol]) /\ seen_max' = TRUE
  /\ qpos' = qpos + 1
  /\ UNCHANGED <<qtext, min, seen_min, greedy, qstate>>

(* A } ends the quantifier; the ? after it belongs to it. *)
NongreedyNext == qpos < Len(qtext) /\ qtext[qpos + 1] = "?"

(* Mutant: the number is looked at and not whether there was one. *)
ZeroIsNone == max = 0
NoMaximum == ~seen_max

Close(n) ==
  /\ QSymbol = "}"
  /\ max' = n
  /\ greedy' = ~NongreedyNext
  /\ qpos' = IF NongreedyNext THEN qpos + 2 ELSE qpos + 1
  /\ qstate' = "done"
  /\ UNCHANGED <<qtext, min, seen_min, seen_max>>

CloseMin == qstate = "min" /\ seen_min /\ Close(min)
CloseMax == qstate = "max" /\ Close(IF NoMaximum THEN -1 ELSE max)

QuantError ==
  /\ \/ qstate = "min" /\ QSymbol \notin DOMAIN Digits /\ (QSymbol \in {",", "}"} => ~seen_min)
     \/ qstate = "max" /\ QSymbol \notin DOMAIN Digits \cup {"}"}
  /\ qstate' = "error"
  /\ UNCHANGED <<qtext, qpos, min, seen_min, max, seen_max, greedy>>

QuantEnd ==
  /\ qstate \in {"done", "error"}
  /\ qtext' = <<>> /\ qpos' = 1 /\ min' = 0 /\ seen_min' = FALSE
  /\ max' = 0 /\ seen_max' = FALSE /\ greedy' = TRUE /\ qstate' = "idle"

QuantTurn == MinDigit \/ Comma \/ MaxDigit \/ CloseMin \/ CloseMax \/ QuantError
QuantNext ==
  \/ qstate = "idle" /\ \E text \in QuantTexts : QuantBegin(text)
  \/ QuantTurn
  \/ QuantEnd

-----------------------------------------------------------------------------
QuantTypeOK ==
  /\ qstate \in {"idle", "min", "max", "done", "error"}
  /\ qtext \in QuantTexts \cup {<<>>} /\ qpos \in 1..(Len(qtext) + 1)
  /\ {min, max} \subseteq (-IntMax - 1)..IntMax
  /\ {seen_min, seen_max, greedy} \subseteq BOOLEAN

(* A quantifier, read off its text: the digits before the comma or the     *)
(* brace, the digits between them, and what follows.                       *)
Closing == {i \in DOMAIN qtext : qtext[i] = "}" /\ \A j \in 1..(i - 1) : qtext[j] # "}"}
End == CHOOSE i \in Closing : TRUE
Commas == {i \in 1..(End - 1) : qtext[i] = ","}
Number[digits \in Seq(DOMAIN Digits)] ==
  IF digits = <<>> THEN 0
  ELSE 10 * Number[SubSeq(digits, 1, Len(digits) - 1)] + Digits[digits[Len(digits)]]
MinText == SubSeq(qtext, 1, (IF Commas = {} THEN End ELSE CHOOSE i \in Commas : TRUE) - 1)
MaxText == SubSeq(qtext, Len(MinText) + 2, End - 1)
AllDigits(s) == \A i \in DOMAIN s : s[i] \in DOMAIN Digits

WellWritten == /\ Closing # {} /\ MinText # <<>> /\ AllDigits(MinText)
               /\ Commas # {} => AllDigits(MaxText)

(* Exactly the well written quantifiers are accepted; the counts are those *)
(* written, when they fit into an int, and -1 where there is no maximum.   *)
(* The next symbol is the one after the } or its ?.                        *)
QuantMeans ==
  /\ qstate = "error" => ~WellWritten
  /\ qstate = "done" =>
       /\ WellWritten
       /\ Number[MinText] <= IntMax => min = Number[MinText]
       /\ IF Commas = {} THEN max = min
          ELSE IF MaxText = <<>> THEN max = -1
          ELSE Number[MaxText] <= IntMax => max = Number[MaxText]
       /\ greedy = ~(End < Len(qtext) /\ qtext[End + 1] = "?")
       /\ qpos = IF greedy THEN End + 1 ELSE End + 2
=============================================================================

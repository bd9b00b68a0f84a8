---------------------------- MODULE LexerProofs ----------------------------
(***************************************************************************)
(* Proofs about Lexer, for every set of .lx files and of inputs.           *)
(***************************************************************************)
EXTENDS Lexer, CompileProofs, NatFacts, FiniteSetTheorems

-----------------------------------------------------------------------------
(* The positions of the walk, whatever the graph is.                       *)

(* What is on the path lies between the start of the attempt and the end   *)
(* of the string.                                                          *)
WalkIn ==
  /\ str = input
  /\ start_pos \in lex_pos2..Len(str) /\ pos \in start_pos..Len(str)
  /\ \E T : path \in Seq(T) /\ \A e \in T : e.pos \in start_pos..Len(str)
  /\ status = "matched" => caps[0] = M!Whole

PosInv ==
  /\ 0 \in DOMAIN caps
  /\ phase # "idle" => rules \in Scanners
  /\ input \in Seq(Byte)
  /\ lex_pos \in 0..lex_pos2 /\ lex_pos2 \in 0..Len(input)
  /\ phase = "match" => lex_pos = lex_pos2 /\ WalkIn

(* The line and the column are those of lex_pos2. *)
LineIn(line, column, to) ==
  LET before == Newlines(0, to) IN
  /\ line = 1 + Cardinality(before)
  /\ column = IF before = {} THEN 1 + to ELSE to - LastOf(before)

LineInv == phase \in {"lex", "match"} => LineIn(line2, column2, lex_pos2)

(* A node never consumes past the end of the string. *)
LEMMA WidthIn ==
  ASSUME NEW g, NEW nd, NEW s, Len(s) \in Nat, NEW p \in 0..Len(s)
  PROVE  M!Width(g, nd, s, p) \in Nat /\ p + M!Width(g, nd, s, p) <= Len(s)
<1>1. CASE p >= Len(s)
  BY <1>1 DEF M!Width
<1>2. CASE p < Len(s)
  <2>1. M!Announced(s[p + 1]) \in Nat
    BY DEF M!Announced
  <2>2. M!Utf8CharSize(s, p) \in Nat /\ p + M!Utf8CharSize(s, p) <= Len(s)
    BY <1>2, <2>1 DEF M!Utf8CharSize
  <2> QED
    BY <1>2, <2>2 DEF M!Width
<1> QED
  BY <1>1, <1>2

LEMMA InputSeq ==
  ASSUME NEW sc \in Scanners, NEW s \in Inputs(sc)
  PROVE  s \in Seq(Byte) /\ Len(s) \in Nat
BY InputsAssumption

(* Every turn of the walk keeps the positions in order. *)
LEMMA WalkStep ==
  ASSUME PosInv, phase = "match", M!Step, UNCHANGED <<input, lex_pos2>>
  PROVE  WalkIn'
<1>1. /\ str = input /\ Len(str) \in Nat /\ lex_pos2 \in Nat
      /\ start_pos \in lex_pos2..Len(str) /\ pos \in start_pos..Len(str)
  BY DEF PosInv, WalkIn
<1>2. PICK T : path \in Seq(T) /\ \A e \in T : e.pos \in start_pos..Len(str)
  BY DEF PosInv, WalkIn
<1>3. M!Running
  BY DEF M!Step, M!Consume, M!Remember, M!Pass, M!AnchorFail, M!Backtrack, M!NextStart,
         M!Exhausted, M!MatchEnd
<1>4. CASE M!Consume
  <2>1. pos \in 0..Len(str)
    BY <1>1
  <2>2. M!Width(rx, M!Here, str, pos) \in Nat /\ pos + M!Width(rx, M!Here, str, pos) <= Len(str)
    BY <1>1, <2>1, WidthIn
  <2>3. pos' = pos + M!Width(rx, M!Here, str, pos) /\ UNCHANGED <<str, start_pos, path, status>>
    BY <1>4 DEF M!Consume
  <2>4. status' # "matched"
    BY <1>3, <2>3 DEF M!Running
  <2>5. pos' \in start_pos..Len(str)
    BY <1>1, <2>2, <2>3
  <2> QED
    BY <1>1, <1>2, <2>3, <2>4, <2>5 DEF WalkIn
<1>5. CASE M!Remember
  <2>1. /\ path' = Append(path, [node |-> at, pos |-> pos])
        /\ UNCHANGED <<str, start_pos, pos, status>>
    BY <1>5 DEF M!Remember
  <2> DEFINE e == [node |-> at, pos |-> pos]
             T2 == T \cup {e}
  <2>2. path' \in Seq(T2)
    <3>1. path \in Seq(T2)
      BY <1>2
    <3> QED
      BY <2>1, <3>1, AppendProperties
  <2>3. \A x \in T2 : x.pos \in start_pos..Len(str)
    BY <1>1, <1>2
  <2>4. status' # "matched"
    BY <1>3, <2>1 DEF M!Running
  <2> HIDE DEF T2
  <2> QED
    BY <1>1, <2>1, <2>2, <2>3, <2>4 DEF WalkIn
<1>6. CASE M!Pass
  BY <1>1, <1>2, <1>3, <1>6 DEF M!Pass, WalkIn, M!Running
<1>7. CASE M!AnchorFail
  BY <1>1, <1>2, <1>7 DEF M!AnchorFail, WalkIn
<1>8. CASE M!Backtrack
  <2>1. PICK i \in DOMAIN path : pos' = path[i].pos /\ path' = SubSeq(path, 1, i - 1)
    BY <1>8 DEF M!Backtrack
  <2>2. UNCHANGED <<str, start_pos, status>>
    BY <1>8 DEF M!Backtrack
  <2>3. i \in 1..Len(path) /\ Len(path) \in Nat /\ path[i] \in T
    BY <1>2, <2>1
  <2>4. path' \in Seq(T)
    BY <1>2, <2>1, <2>3, SubSeqProperties
  <2>5. status' # "matched"
    BY <1>3, <2>2 DEF M!Running
  <2> QED
    BY <1>1, <1>2, <2>1, <2>2, <2>3, <2>4, <2>5 DEF WalkIn
<1>9. CASE M!NextStart
  <2>1. /\ start_pos' = start_pos + 1 /\ pos' = start_pos + 1 /\ path' = <<>>
        /\ start_pos # Len(str) /\ UNCHANGED <<str, status>>
    BY <1>9 DEF M!NextStart
  <2>2. status' # "matched"
    BY <1>3, <2>1 DEF M!Running
  <2>3. \E U : path' \in Seq(U) /\ \A e \in U : e.pos \in start_pos'..Len(str')
    <3>1. path' \in Seq({})
      BY <2>1
    <3> QED
      BY <3>1
  <2>4. start_pos' \in lex_pos2..Len(str) /\ pos' \in start_pos'..Len(str)
    BY <1>1, <2>1
  <2> QED
    BY <1>1, <2>1, <2>2, <2>3, <2>4 DEF WalkIn
<1>10. CASE M!Exhausted
  BY <1>1, <1>2, <1>10 DEF M!Exhausted, WalkIn
<1>11. CASE M!MatchEnd
  <2>1. UNCHANGED <<str, start_pos, pos, path>>
    BY <1>11 DEF M!MatchEnd
  <2>2. caps'[0] = M!Whole
    <3>1. 0 \in M!Slots
      BY DEF PosInv, M!Slots
    <3> QED
      BY <1>11, <3>1 DEF M!MatchEnd
  <2>3. M!Whole' = M!Whole
    BY <2>1 DEF M!Whole
  <2> QED
    BY <1>1, <1>2, <2>1, <2>2, <2>3 DEF WalkIn
<1> QED
  BY <1>4, <1>5, <1>6, <1>7, <1>8, <1>9, <1>10, <1>11 DEF M!Step

(* The generator and the walk leave what is scanned alone. *)
LEMMA PosKept ==
  ASSUME PosInv, LineInv, UNCHANGED <<caps, rules, textVars>>,
         \/ phase' # "match" /\ (phase' = "lex" => phase \in {"lex", "match"})
            /\ (phase' # "idle" => phase # "idle")
         \/ phase' = phase /\ UNCHANGED <<matchVars>>
  PROVE  PosInv' /\ LineInv'
<1>1. UNCHANGED <<caps, rules, input, lex_pos, lex_pos2, line2, column2>>
  BY DEF textVars
<1>2. WalkIn => (UNCHANGED matchVars => WalkIn')
  BY <1>1 DEF WalkIn, matchVars, M!Whole
<1>3. PosInv'
  BY <1>1, <1>2 DEF PosInv
<1>4. LineInv'
  <2>1. LineIn(line2, column2, lex_pos2)' = LineIn(line2, column2, lex_pos2)
    BY <1>1 DEF LineIn, Newlines
  <2> QED
    BY <1>1, <2>1 DEF LineInv
<1> QED
  BY <1>3, <1>4

LEMMA NewlinesFinite ==
  ASSUME NEW a \in Nat, NEW b \in Nat
  PROVE  /\ Newlines(a, b) \subseteq a..(b - 1) /\ IsFiniteSet(Newlines(a, b))
         /\ Cardinality(Newlines(a, b)) \in Nat
<1>1. Newlines(a, b) \subseteq a..(b - 1)
  BY DEF Newlines
<1>2. IsFiniteSet(a..(b - 1))
  BY FS_Interval
<1> QED
  BY <1>1, <1>2, FS_Subset, FS_CardinalityType

LEMMA LastNewline ==
  ASSUME NEW S, NEW n \in Nat, S \subseteq 0..n, S # {}
  PROVE  LastOf(S) \in Nat /\ LastOf(S) \in S /\ \A j \in S : j <= LastOf(S)
<1>1. \E i \in S : \A j \in S : j <= i
  BY GreatestNat
<1>2. PICK l : l = LastOf(S)
  OBVIOUS
<1>3. l \in S /\ \A j \in S : j <= l
  BY <1>1, <1>2 DEF LastOf
<1>4. l \in Nat
  BY <1>3
<1> QED
  BY <1>2, <1>3, <1>4

(* lex() counts the lines and the columns on through the text of a token. *)
LEMMA CountedOn ==
  ASSUME NEW from \in Nat, NEW to \in Nat, from <= to, LineIn(line2, column2, from)
  PROVE  LET seen == Newlines(from, to) IN
         LineIn(line2 + Cardinality(seen),
                IF seen = {} THEN column2 + (to - from) ELSE to - LastOf(seen), to)
<1> DEFINE before == Newlines(0, from)
           seen == Newlines(from, to)
           all == Newlines(0, to)
<1>1. all = before \cup seen /\ before \cap seen = {}
  BY DEF Newlines
<1>2. /\ before \subseteq 0..(from - 1) /\ IsFiniteSet(before) /\ Cardinality(before) \in Nat
      /\ seen \subseteq from..(to - 1) /\ IsFiniteSet(seen) /\ Cardinality(seen) \in Nat
  BY NewlinesFinite
<1>3. line2 = 1 + Cardinality(before)
      /\ column2 = IF before = {} THEN 1 + from ELSE from - LastOf(before)
  BY DEF LineIn
<1> HIDE DEF before, seen, all
<1>4. Cardinality(all) = Cardinality(before) + Cardinality(seen)
  <2>1. Cardinality(before \cup seen)
          = Cardinality(before) + Cardinality(seen) - Cardinality(before \cap seen)
    BY <1>2, FS_Union
  <2>2. Cardinality(before \cap seen) = 0
    BY <1>1, FS_EmptySet
  <2> QED
    BY <1>1, <1>2, <2>1, <2>2
<1>5. line2 + Cardinality(seen) = 1 + Cardinality(all)
  BY <1>2, <1>3, <1>4
<1>6. CASE seen = {}
  <2>1. all = before
    BY <1>1, <1>6
  <2>2. before # {} => LastOf(before) \in Nat
    <3>1. before \subseteq 0..from
      BY <1>2
    <3> QED
      BY <3>1, LastNewline
  <2>3. column2 + (to - from) = IF all = {} THEN 1 + to ELSE to - LastOf(all)
    BY <1>3, <2>1, <2>2
  <2> QED
    BY <1>5, <1>6, <2>3 DEF LineIn, seen, all
<1>7. CASE seen # {}
  <2>1. all # {} /\ all \subseteq 0..to /\ seen \subseteq 0..to
    BY <1>1, <1>2, <1>7
  <2>2. /\ LastOf(all) \in Nat /\ LastOf(seen) \in Nat
        /\ LastOf(all) \in all /\ \A j \in all : j <= LastOf(all)
        /\ LastOf(seen) \in seen /\ \A j \in seen : j <= LastOf(seen)
    BY <2>1, <1>7, LastNewline
  <2>3. LastOf(all) \in seen
    <3>1. LastOf(seen) <= LastOf(all) /\ LastOf(seen) \in from..(to - 1)
      BY <2>2, <1>1, <1>2
    <3>2. \A i \in before : i < from
      BY <1>2
    <3>3. ~(LastOf(all) < from)
      BY <2>2, <3>1
    <3> QED
      BY <3>2, <3>3, <2>2, <1>1
  <2>4. LastOf(all) = LastOf(seen)
    <3>1. LastOf(all) <= LastOf(seen) /\ LastOf(seen) <= LastOf(all)
      BY <2>2, <2>3, <1>1
    <3> QED
      BY <2>2, <3>1
  <2> QED
    BY <1>5, <1>7, <2>1, <2>4 DEF LineIn, seen, all
<1> QED
  BY <1>6, <1>7

LEMMA PosInit ==
  ASSUME LexInit
  PROVE  PosInv /\ LineInv
<1>1. 0 \in DOMAIN caps
  BY DEF LexInit, M!Init
<1>2. PosInv
  BY <1>1 DEF LexInit, PosInv
<1> QED
  BY <1>2 DEF LexInit, LineInv

LEMMA PosLexStart ==
  ASSUME PosInv, NEW s \in Inputs(rules), LexStart(s)
  PROVE  PosInv' /\ LineInv'
<1>1. /\ phase = "file" /\ phase' = "lex" /\ input' = s /\ lex_pos' = 0 /\ lex_pos2' = 0
      /\ line2' = 1 /\ column2' = 1 /\ UNCHANGED <<rules, caps>>
  BY DEF LexStart, makeVars, matchVars
<1>2. rules \in Scanners /\ s \in Seq(Byte) /\ Len(s) \in Nat
  BY <1>1, InputSeq DEF PosInv
<1>3. PosInv'
  BY <1>1, <1>2 DEF PosInv
<1>4. Newlines(0, 0)' = {}
  BY DEF Newlines
<1>5. Cardinality({}) = 0
  BY FS_EmptySet
<1> QED
  BY <1>1, <1>3, <1>4, <1>5 DEF LineInv, LineIn

LEMMA PosLexMatch ==
  ASSUME PosInv, LineInv, LexMatch
  PROVE  PosInv' /\ LineInv'
<1>1. /\ phase = "lex" /\ phase' = "match" /\ lex_pos' = lex_pos2
      /\ str' = input /\ start_pos' = lex_pos2 /\ pos' = lex_pos2 /\ path' = <<>>
      /\ status' = "running"
      /\ UNCHANGED <<caps, rules, input, lex_pos2, line2, column2>>
  BY DEF LexMatch, M!Call, makeVars
<1>2. lex_pos2 \in 0..Len(input) /\ Len(input) \in Nat
  BY DEF PosInv
<1>3. WalkIn'
  <2>1. \E U : path' \in Seq(U) /\ \A e \in U : e.pos \in start_pos'..Len(str')
    <3>1. path' \in Seq({})
      BY <1>1
    <3> QED
      BY <3>1
  <2> QED
    BY <1>1, <1>2, <2>1 DEF WalkIn
<1>4. PosInv'
  BY <1>1, <1>2, <1>3 DEF PosInv
<1>5. LineIn(line2, column2, lex_pos2)' = LineIn(line2, column2, lex_pos2)
  BY <1>1 DEF LineIn, Newlines
<1> QED
  BY <1>1, <1>4, <1>5 DEF LineInv

LEMMA PosTurn ==
  ASSUME PosInv, LineInv, LexMatchTurn
  PROVE  PosInv' /\ LineInv'
<1>1. /\ phase = "match" /\ phase' = "match" /\ M!Step
      /\ UNCHANGED <<rules, input, lex_pos, lex_pos2, line2, column2>>
  BY DEF LexMatchTurn, lexVars, makeVars, textVars
<1>2. WalkIn'
  BY <1>1, WalkStep
<1>3. 0 \in DOMAIN caps'
  <2>1. CASE M!MatchEnd
    BY <2>1 DEF M!MatchEnd, M!Slots, PosInv
  <2>2. CASE UNCHANGED caps
    BY <2>2 DEF PosInv
  <2> QED
    BY <1>1, <2>1, <2>2 DEF M!Step, M!Consume, M!Remember, M!Pass, M!AnchorFail, M!Backtrack,
       M!NextStart, M!Exhausted
<1>4. PosInv'
  BY <1>1, <1>2, <1>3 DEF PosInv
<1>5. LineIn(line2, column2, lex_pos2)' = LineIn(line2, column2, lex_pos2)
  BY <1>1 DEF LineIn, Newlines
<1> QED
  BY <1>1, <1>4, <1>5 DEF LineInv

(* A token ends where the match did. *)
LEMMA TextEnd ==
  ASSUME PosInv, phase = "match", status = "matched"
  PROVE  /\ AfterText \in lex_pos2..Len(input) /\ lex_pos = lex_pos2
         /\ lex_pos2 \in Nat /\ Len(input) \in Nat
<1>1. /\ lex_pos = lex_pos2 /\ WalkIn /\ lex_pos2 \in 0..Len(input) /\ Len(input) \in Nat
  BY DEF PosInv
<1>2. caps[0].size = pos - start_pos
  BY <1>1 DEF WalkIn, M!Whole
<1> QED
  BY <1>1, <1>2 DEF WalkIn, AfterText

LEMMA PosToken ==
  ASSUME PosInv, LineInv, Token
  PROVE  PosInv' /\ LineInv'
<1>1. /\ phase = "match" /\ status = "matched" /\ phase' = "lex" /\ lex_pos2' = AfterText
      /\ line2' = line2 + Cardinality(Newlines(lex_pos, AfterText))
      /\ column2' = ColumnAfter(Newlines(lex_pos, AfterText), AfterText)
      /\ Idle /\ UNCHANGED <<rules, input, lex_pos>>
  BY DEF Token, makeVars
<1>2. /\ AfterText \in lex_pos2..Len(input) /\ lex_pos = lex_pos2
      /\ lex_pos2 \in Nat /\ Len(input) \in Nat
  BY <1>1, TextEnd
<1>3. 0 \in DOMAIN caps'
  BY <1>1 DEF Idle
<1>4. PosInv'
  BY <1>1, <1>2, <1>3 DEF PosInv
<1>5. LineIn(line2, column2, lex_pos2)
  BY <1>1 DEF LineInv
<1>6. PICK to \in Nat : to = AfterText /\ lex_pos2 <= to
  BY <1>2
<1>7. LineIn(line2', column2', to)
  BY <1>1, <1>2, <1>5, <1>6, CountedOn DEF ColumnAfter
<1>8. LineIn(line2, column2, lex_pos2)' = LineIn(line2', column2', to)
  BY <1>1, <1>6 DEF LineIn, Newlines
<1> QED
  BY <1>1, <1>4, <1>7, <1>8 DEF LineInv

LEMMA PosStep ==
  ASSUME PosInv, LineInv, [LexNext]_allVars
  PROVE  PosInv' /\ LineInv'
<1>1. ASSUME NEW sc \in Scanners, ReadRules(sc)
      PROVE  PosInv' /\ LineInv'
  <2>1. phase' = "make" /\ rules' = sc /\ UNCHANGED <<caps, input, lex_pos, lex_pos2>>
    BY <1>1 DEF ReadRules, matchVars, textVars
  <2> QED
    BY <2>1 DEF PosInv, LineInv
<1>2. CASE NewState \/ AnotherRule \/ CompileRule \/ OutputFile
  <2>1. phase = "make" /\ phase' \in {"make", "file"} /\ UNCHANGED <<caps, rules, textVars>>
    BY <1>2 DEF NewState, AnotherRule, CompileRule, OutputFile, Ready, Compiling, matchVars,
       lexVars, makeVars
  <2> QED
    BY <2>1, PosKept
<1>3. CASE GeneratorFails
  <2>1. phase' = "idle" /\ UNCHANGED <<caps, input, lex_pos, lex_pos2>>
    BY <1>3 DEF GeneratorFails, matchVars, textVars
  <2> QED
    BY <2>1 DEF PosInv, LineInv
<1>4. CASE \E s \in Inputs(rules) : LexStart(s)
  BY <1>4, PosLexStart
<1>5. CASE LexMatch
  BY <1>5, PosLexMatch
<1>6. CASE LexMatchTurn
  BY <1>6, PosTurn
<1>7. CASE Token
  BY <1>7, PosToken
<1>8. CASE LexEnd
  <2>1. /\ phase = "match" /\ phase' = "end" /\ Idle
        /\ UNCHANGED <<rules, input, lex_pos, lex_pos2>>
    BY <1>8 DEF LexEnd, makeVars, textVars
  <2> QED
    BY <2>1 DEF PosInv, LineInv, Idle
<1>9. CASE LexExit
  <2>1. /\ phase' = "idle" /\ input' = <<>> /\ lex_pos' = 0 /\ lex_pos2' = 0 /\ UNCHANGED caps
    BY <1>9 DEF LexExit, matchVars
  <2> QED
    BY <2>1 DEF PosInv, LineInv
<1>10. CASE UNCHANGED allVars
  BY <1>10, PosKept DEF allVars, lexVars, makeVars, matchVars
<1> QED
  BY <1>1, <1>2, <1>3, <1>4, <1>5, <1>6, <1>7, <1>8, <1>9, <1>10
  DEF LexNext, MakeTurn, LexTurn

(* Through any number of tokens, with newlines inside them or between      *)
(* them, the line and the column that lex() keeps are those of pos2, for   *)
(* every scanner, also one whose graph was not built as it should be.      *)
THEOREM PositionsTrue == LexSpec => []PositionsAgree
<1>1. LexInit => PosInv /\ LineInv
  BY PosInit
<1>2. PosInv /\ LineInv /\ [LexNext]_allVars => (PosInv /\ LineInv)'
  BY PosStep
<1>3. LineInv => PositionsAgree
  BY DEF LineInv, LineIn, PositionsAgree
<1> QED
  BY <1>1, <1>2, <1>3, PTL DEF LexSpec
=============================================================================

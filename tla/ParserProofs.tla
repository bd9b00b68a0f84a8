---------------------------- MODULE ParserProofs ----------------------------
(***************************************************************************)
(* Proofs about the parsers of brackets and braces, for every text and     *)
(* every table of characters: the second pass over a bracket takes the     *)
(* turns of the first, so it fills the arrays that were allocated by the   *)
(* first pass's counts, and rejects nothing; the numbers in a brace stay   *)
(* in an int.                                                              *)
(***************************************************************************)
EXTENDS Parsers, NatFacts, SequenceTheorems, TLAPS

(* The locals of rx_char_class_parse before a symbol. *)
Chars1 == {c \in Seq(Byte) : Len(c) <= 4}
Pass == [values : Nat, ranges : Nat, sets : Nat, char1 : Chars1, dash : BOOLEAN, special : BOOLEAN]

At(a) == /\ values_count = a.values /\ ranges_count = a.ranges /\ char_sets_count = a.sets
         /\ char1 = a.char1 /\ seen_dash = a.dash /\ seen_special = a.special

-----------------------------------------------------------------------------
(* A turn of the loop takes the locals from a to b.  The two passes differ *)
(* only in that the first one may reject a range.                          *)
CharSymbol(sym, dash) ==
  /\ ~(sym = "-" /\ ~dash) /\ sym # "]"
  /\ sym \in DOMAIN Literals \cup DOMAIN UnicodeDigits
  /\ Bytes(sym) # <<>>

DashTurn(sym, a, b) ==
  /\ sym = "-" /\ ~a.dash
  /\ b.values = a.values /\ b.ranges = a.ranges /\ b.sets = a.sets
  /\ b.char1 = a.char1 /\ b.dash = TRUE /\ b.special = a.special

SetTurn(sym, a, b) ==
  /\ sym \in DOMAIN NamedSets /\ ~a.dash
  /\ b.values = a.values /\ b.ranges = a.ranges /\ b.sets = a.sets + 1
  /\ b.char1 = a.char1 /\ b.dash = a.dash /\ b.special = TRUE

RangeTurn(sym, a, b) ==
  /\ CharSymbol(sym, a.dash) /\ a.dash /\ a.char1 # <<>>
  /\ b.values = a.values /\ b.sets = a.sets
  /\ b.ranges = a.ranges + Len(a.char1) + Len(Bytes(sym))
  /\ b.char1 = <<>> /\ b.dash = FALSE /\ b.special = FALSE

ValueTurn(sym, a, b) ==
  /\ CharSymbol(sym, a.dash) /\ ~a.dash
  /\ b.values = a.values + Len(a.char1) /\ b.ranges = a.ranges /\ b.sets = a.sets
  /\ b.char1 = Bytes(sym) /\ b.dash = FALSE /\ b.special = FALSE

Turn(sym, a, b) ==
  DashTurn(sym, a, b) \/ SetTurn(sym, a, b) \/ RangeTurn(sym, a, b) \/ ValueTurn(sym, a, b)

(* The counts when the pass is over. *)
Trailed(a) == Len(a.char1) + (IF a.dash THEN 1 ELSE 0)

NoneYet(a) == /\ a.values = 0 /\ a.ranges = 0 /\ a.sets = 0
              /\ a.char1 = <<>> /\ a.dash = FALSE /\ a.special = FALSE

NoMore(a, b) == a.values <= b.values /\ a.ranges <= b.ranges /\ a.sets <= b.sets

(* tr[k] are the locals before symbol k, from the first one up to e.       *)
Trace(text, tr, e) ==
  /\ e \in First(text)..(Len(text) + 1)
  /\ tr \in [First(text)..e -> Pass]
  /\ NoneYet(tr[First(text)])
  /\ \A k \in First(text)..(e - 1) : Turn(text[k], tr[k], tr[k + 1])
  /\ \A k \in First(text)..e : NoMore(tr[k], tr[e])

-----------------------------------------------------------------------------
(* The inductive invariant. *)

(* The first n of size elements are written. *)
Filled(array, n, size, S) ==
  /\ array \in Seq(S \cup {Unwritten}) /\ Len(array) = size
  /\ n <= size
  /\ \A i \in 1..size : i <= n <=> array[i] # Unwritten

Sets == CS_ANY..CS_NOTSPACE

Arrays ==
  /\ Filled(ccval.values, values_count, counts.values, Byte)
  /\ Filled(ccval.ranges, ranges_count, counts.ranges, Byte)
  /\ Filled(ccval.char_sets, char_sets_count, counts.char_sets, Sets)

Locals ==
  /\ values_count \in Nat /\ ranges_count \in Nat /\ char_sets_count \in Nat
  /\ char1 \in Chars1 /\ seen_dash \in BOOLEAN /\ seen_special \in BOOLEAN

Place ==
  /\ ctext \in Seq(STRING) /\ ctext \in ClassTexts \cup {<<>>}
  /\ cpos \in 1..(Len(ctext) + 1) /\ save \in BOOLEAN

TheClass ==
  /\ ccval = [negated |-> ccval.negated, values |-> ccval.values, ranges |-> ccval.ranges,
              char_sets |-> ccval.char_sets]
  /\ ccval.negated \in BOOLEAN
  /\ counts = [values |-> counts.values, ranges |-> counts.ranges, char_sets |-> counts.char_sets]
  /\ counts.values \in Nat /\ counts.ranges \in Nat /\ counts.char_sets \in Nat

FirstPass == \E tr : Trace(ctext, tr, cpos) /\ At(tr[cpos])

(* The locals are what they were at this symbol in the first pass, which   *)
(* ended at e.                                                             *)
Replay(tr, e) ==
  /\ Trace(ctext, tr, e) /\ e <= Len(ctext) /\ ctext[e] = "]"
  /\ cpos \in First(ctext)..e /\ At(tr[cpos])
  /\ counts.values = tr[e].values + Trailed(tr[e])
  /\ counts.ranges = tr[e].ranges /\ counts.char_sets = tr[e].sets

SecondPass == \E tr, e : Replay(tr, e)

Full == /\ values_count = counts.values /\ ranges_count = counts.ranges
        /\ char_sets_count = counts.char_sets

ClassInv ==
  /\ cstate \in {"idle", "parse", "done", "error"}
  /\ Place /\ Locals /\ TheClass
  /\ cstate = "parse" /\ ~save => FirstPass
  /\ cstate = "parse" /\ save => SecondPass /\ Arrays
  /\ cstate = "done" => save /\ Full /\ Arrays
  /\ cstate \in {"idle", "error"} => ~save

-----------------------------------------------------------------------------
(* The symbols and the arrays. *)

LEMMA BytesInRange ==
  ASSUME NEW sym \in DOMAIN Literals \cup DOMAIN UnicodeDigits
  PROVE  Bytes(sym) \in Chars1
<1>1. CASE sym \in DOMAIN Literals
  <2>1. PICK c \in Seq(Byte) : c = Literals[sym] /\ Len(c) <= 4
    BY <1>1, LiteralsAssumption
  <2>2. c \in Chars1
    BY <2>1 DEF Chars1
  <2>3. Bytes(sym) = Literals[sym]
    BY <1>1 DEF Bytes
  <2> QED
    BY <2>1, <2>2, <2>3
<1>2. CASE sym \notin DOMAIN Literals
  <2>1. PICK n \in Nat : n = HexToInt(UnicodeDigits[sym])
    BY <1>2, UnicodeAssumption
  <2>2. Bytes(sym) = IntToUtf8(n)
    BY <1>2, <2>1 DEF Bytes
  <2>3. \A k \in Nat : Continuation(k) \in Byte
    BY DEF Continuation, Byte
  <2>4. n \div 64 \in Nat /\ n \div 4096 \in Nat
    OBVIOUS
  <2>5. CASE n < 128
    <3>1. n \in Byte
      BY <2>5 DEF Byte
    <3> QED
      BY <2>2, <2>5, <3>1 DEF IntToUtf8, Chars1
  <2>6. CASE n >= 128 /\ n < 2048
    <3>1. 128 + ((n % 128) \div 64) \in Byte
      BY <2>6 DEF Byte
    <3> QED
      BY <2>2, <2>3, <2>6, <3>1 DEF IntToUtf8, Chars1
  <2>7. CASE n >= 2048 /\ n < 65536
    <3>1. 224 + (n \div 4096) \in Byte
      BY <2>7 DEF Byte
    <3> QED
      BY <2>2, <2>3, <2>4, <2>7, <3>1 DEF IntToUtf8, Chars1
  <2>8. CASE n >= 65536 /\ n < 2097152
    <3>1. 240 + (n \div 262144) \in Byte
      BY <2>8 DEF Byte
    <3> QED
      BY <2>2, <2>3, <2>4, <2>8, <3>1 DEF IntToUtf8, Chars1
  <2>9. CASE n >= 2097152
    BY <2>2, <2>9 DEF IntToUtf8, Chars1
  <2> QED
    BY <2>5, <2>6, <2>7, <2>8, <2>9
<1> QED
  BY <1>1, <1>2

LEMMA WriteFills ==
  ASSUME NEW S, Unwritten \notin S, NEW array, NEW n \in Nat, NEW size \in Nat,
         Filled(array, n, size, S), NEW bytes \in Seq(S), NEW m \in Nat,
         m = n + Len(bytes), m <= size, NEW array2, array2 = Write(array, n, bytes)
  PROVE  Filled(array2, m, size, S)
<1>1. array \in Seq(S \cup {Unwritten}) /\ Len(array) = size /\ DOMAIN array = 1..size
      /\ \A i \in 1..size : array[i] \in S \cup {Unwritten} /\ (i <= n <=> array[i] # Unwritten)
  BY DEF Filled
<1>2. Len(bytes) \in Nat /\ \A i \in 1..Len(bytes) : bytes[i] \in S
  OBVIOUS
<1>3. DOMAIN array2 = 1..size
  BY <1>1, <1>2 DEF Write
<1>4. ASSUME NEW i \in 1..size
      PROVE  array2[i] \in S \cup {Unwritten} /\ (i <= m <=> array2[i] # Unwritten)
  <2>1. array2[i] = IF i \in (n + 1)..(n + Len(bytes)) THEN bytes[i - n] ELSE array[i]
    BY <1>1 DEF Write
  <2>2. CASE i \in (n + 1)..(n + Len(bytes))
    <3>1. i - n \in 1..Len(bytes)
      BY <1>2, <2>2
    <3>2. array2[i] = bytes[i - n] /\ bytes[i - n] \in S
      BY <1>2, <2>1, <2>2, <3>1
    <3> QED
      BY <2>2, <3>2
  <2>3. CASE i \notin (n + 1)..(n + Len(bytes))
    BY <1>1, <1>2, <2>1, <2>3
  <2> QED
    BY <2>2, <2>3
<1>5. array2 = [i \in 1..size |-> array2[i]]
  BY <1>3 DEF Write
<1>6. array2 \in [1..size -> S \cup {Unwritten}]
  BY <1>4, <1>5
<1>7. array2 \in Seq(S \cup {Unwritten}) /\ Len(array2) = size
  BY <1>3, <1>6
<1> QED
  BY <1>4, <1>7 DEF Filled

LEMMA ArrayEmpty ==
  ASSUME NEW S, NEW size \in Nat, NEW array, array = Array(size)
  PROVE  Filled(array, 0, size, S)
<1>1. array \in [1..size -> {Unwritten}]
  BY DEF Array
<1>2. array \in Seq(S \cup {Unwritten}) /\ Len(array) = size
  BY <1>1
<1>3. \A i \in 1..size : array[i] = Unwritten
  BY <1>1
<1> QED
  BY <1>2, <1>3 DEF Filled

LEMMA AllFilled ==
  ASSUME NEW S, NEW size \in Nat, NEW array, Filled(array, size, size, S)
  PROVE  array \in Seq(S)
<1>1. /\ array \in Seq(S \cup {Unwritten}) /\ Len(array) = size
      /\ \A i \in 1..size : array[i] # Unwritten
  BY DEF Filled
<1>2. \A i \in 1..size : array[i] \in S
  BY <1>1
<1> QED
  BY <1>1, <1>2

-----------------------------------------------------------------------------
(* The trace of a pass. *)

LEMMA FirstOfText ==
  ASSUME NEW text \in Seq(STRING)
  PROVE  First(text) \in 1..(Len(text) + 1)
BY DEF First

LEMMA NoMoreTransitive ==
  ASSUME NEW a \in Pass, NEW b \in Pass, NEW c \in Pass, NoMore(a, b), NoMore(b, c)
  PROVE  NoMore(a, c)
BY DEF NoMore, Pass

LEMMA TrailedNat ==
  ASSUME NEW a \in Pass
  PROVE  Trailed(a) \in Nat
<1>1. PICK n \in Nat : n = Len(a.char1)
  BY DEF Pass, Chars1
<1>2. CASE a.dash
  BY <1>1, <1>2 DEF Trailed
<1>3. CASE ~a.dash
  BY <1>1, <1>3 DEF Trailed
<1> QED
  BY <1>2, <1>3

LEMMA TurnAdds ==
  ASSUME NEW sym, NEW a \in Pass, NEW b \in Pass, Turn(sym, a, b)
  PROVE  NoMore(a, b)
<1>1. Len(a.char1) \in Nat /\ a.values \in Nat /\ a.ranges \in Nat /\ a.sets \in Nat
  BY DEF Pass, Chars1
<1>2. CASE DashTurn(sym, a, b)
  BY <1>1, <1>2 DEF DashTurn, NoMore
<1>3. CASE SetTurn(sym, a, b)
  BY <1>1, <1>3 DEF SetTurn, NoMore
<1>4. CASE RangeTurn(sym, a, b)
  <2>1. Len(Bytes(sym)) \in Nat
    BY <1>4, BytesInRange DEF RangeTurn, CharSymbol, Chars1
  <2> QED
    BY <1>1, <1>4, <2>1 DEF RangeTurn, NoMore
<1>5. CASE ValueTurn(sym, a, b)
  BY <1>1, <1>5 DEF ValueTurn, NoMore
<1> QED
  BY <1>2, <1>3, <1>4, <1>5 DEF Turn

LEMMA TraceStarts ==
  ASSUME NEW text \in Seq(STRING), NEW a \in Pass, NoneYet(a)
  PROVE  \E tr : Trace(text, tr, First(text)) /\ tr[First(text)] = a
<1>1. PICK f \in 1..(Len(text) + 1) : f = First(text)
  BY FirstOfText
<1> DEFINE tr == [k \in f..f |-> a]
<1>2. Len(text) \in Nat /\ f \in Nat /\ f..f = {f}
  OBVIOUS
<1>3. tr \in [f..f -> Pass] /\ tr[f] = a
  BY <1>2
<1>4. NoMore(a, a)
  BY DEF NoMore, Pass
<1> HIDE DEF tr
<1>5. Trace(text, tr, f)
  BY <1>1, <1>2, <1>3, <1>4 DEF Trace
<1> QED
  BY <1>1, <1>3, <1>5

LEMMA TraceGoesOn ==
  ASSUME NEW text \in Seq(STRING), NEW tr, NEW e, Trace(text, tr, e), e <= Len(text),
         NEW b \in Pass, Turn(text[e], tr[e], b)
  PROVE  \E tr2 : Trace(text, tr2, e + 1) /\ tr2[e + 1] = b
<1>1. PICK f \in 1..(Len(text) + 1) : f = First(text)
  BY FirstOfText
<1>2. /\ e \in f..(Len(text) + 1) /\ tr \in [f..e -> Pass] /\ NoneYet(tr[f])
      /\ \A k \in f..(e - 1) : Turn(text[k], tr[k], tr[k + 1])
      /\ \A k \in f..e : NoMore(tr[k], tr[e])
  BY <1>1 DEF Trace
<1>3. Len(text) \in Nat /\ e \in Nat /\ f \in Nat /\ f <= e
  BY <1>2
<1> DEFINE tr2 == [k \in f..(e + 1) |-> IF k = e + 1 THEN b ELSE tr[k]]
<1>4. /\ tr2 \in [f..(e + 1) -> Pass]
      /\ tr2[e + 1] = b
      /\ \A k \in f..e : tr2[k] = tr[k]
  BY <1>2, <1>3
<1> HIDE DEF tr2
<1>5. NoneYet(tr2[f])
  BY <1>2, <1>3, <1>4
<1>6. ASSUME NEW k \in f..((e + 1) - 1) PROVE Turn(text[k], tr2[k], tr2[k + 1])
  <2>1. CASE k = e
    BY <1>3, <1>4, <2>1
  <2>2. CASE k # e
    <3>1. k \in f..(e - 1) /\ k \in f..e /\ k + 1 \in f..e
      BY <1>3, <2>2
    <3> QED
      BY <1>2, <1>4, <3>1
  <2> QED
    BY <2>1, <2>2
<1>7. ASSUME NEW k \in f..(e + 1) PROVE NoMore(tr2[k], tr2[e + 1])
  <2>1. NoMore(b, b)
    BY DEF NoMore, Pass
  <2>2. NoMore(tr[e], b)
    BY <1>2, <1>3, TurnAdds
  <2>3. CASE k = e + 1
    BY <1>4, <2>1, <2>3
  <2>4. CASE k # e + 1
    <3>1. k \in f..e /\ tr[k] \in Pass /\ tr[e] \in Pass
      BY <1>2, <1>3, <2>4
    <3> QED
      BY <1>2, <1>4, <2>2, <3>1, NoMoreTransitive
  <2> QED
    BY <2>3, <2>4
<1>8. e + 1 \in f..(Len(text) + 1)
  BY <1>3
<1>9. Trace(text, tr2, e + 1)
  BY <1>1, <1>4, <1>5, <1>6, <1>7, <1>8 DEF Trace
<1> QED
  BY <1>4, <1>9

-----------------------------------------------------------------------------
(* The turns of the code are the turns of the trace. *)

(* The text goes on at the next symbol. *)
NextSymbol == Parsing /\ cpos \in 1..Len(ctext) /\ Symbol # "]" /\ cpos' = cpos + 1

LEMMA PositionInText ==
  ASSUME Place
  PROVE  cpos <= Len(ctext) => cpos \in 1..Len(ctext)
<1>1. ctext \in Seq(STRING) /\ cpos \in 1..(Len(ctext) + 1)
  BY Zenon DEF Place
<1> QED
  BY <1>1

LEMMA SymbolInText ==
  ASSUME Place, Symbol # "end of text"
  PROVE  cpos \in 1..Len(ctext) /\ Symbol = ctext[cpos]
BY PositionInText, Zenon DEF Symbol

LEMMA PassOf ==
  ASSUME NEW values \in Nat, NEW ranges \in Nat, NEW sets \in Nat, NEW c \in Chars1,
         NEW dash \in BOOLEAN, NEW special \in BOOLEAN,
         NEW b, b = [values |-> values, ranges |-> ranges, sets |-> sets, char1 |-> c,
                     dash |-> dash, special |-> special]
  PROVE  b \in Pass
BY DEF Pass

LEMMA CodeTurn ==
  ASSUME Place, Locals, NEW a \in Pass, At(a), Dash \/ NamedSet \/ RangeValue \/ CharValue
  PROVE  /\ NextSymbol /\ UNCHANGED <<ctext, save, counts, cstate>>
         /\ \E b \in Pass : Turn(Symbol, a, b) /\ At(b)'
<1>1. /\ a.values \in Nat /\ a.ranges \in Nat /\ a.sets \in Nat /\ a.char1 \in Chars1
      /\ a.dash \in BOOLEAN /\ a.special \in BOOLEAN
      /\ Len(a.char1) \in Nat
  BY DEF Pass, Chars1
<1>2. PICK b : b = [values |-> values_count', ranges |-> ranges_count', sets |-> char_sets_count',
                    char1 |-> char1', dash |-> seen_dash', special |-> seen_special']
  OBVIOUS
<1>3. At(b)'
  BY <1>2 DEF At
<1>4. /\ b.values = values_count' /\ b.ranges = ranges_count' /\ b.sets = char_sets_count'
      /\ b.char1 = char1' /\ b.dash = seen_dash' /\ b.special = seen_special'
  BY <1>2
<1>5. Symbol # "end of text" => cpos \in 1..Len(ctext) /\ Symbol = ctext[cpos]
  BY SymbolInText
<1>6. <<>> \in Chars1
  BY DEF Chars1
<1>7. CASE Dash
  <2>1. /\ NextSymbol /\ UNCHANGED <<ctext, save, counts, cstate>>
    BY <1>5, <1>7 DEF Dash, IsDash, NextSymbol, Parsing
  <2>2. DashTurn(Symbol, a, b)
    BY <1>4, <1>7 DEF Dash, IsDash, DashTurn, At
  <2>3. b \in Pass
    BY <1>1, <1>2, <1>7 DEF Dash, At, Pass
  <2> QED
    BY <1>3, <2>1, <2>2, <2>3 DEF Turn
<1>8. CASE NamedSet
  <2>1. /\ NextSymbol /\ UNCHANGED <<ctext, save, counts, cstate>>
    BY <1>5, <1>8, NamedSetsAssumption DEF NamedSet, NextSymbol, Parsing
  <2>2. SetTurn(Symbol, a, b)
    BY <1>4, <1>8 DEF NamedSet, SetTurn, At
  <2>3. b \in Pass
    <3>1. /\ values_count' = a.values /\ ranges_count' = a.ranges /\ char_sets_count' = a.sets + 1
          /\ char1' = a.char1 /\ seen_dash' = a.dash /\ seen_special' = TRUE
      BY <1>8 DEF NamedSet, At
    <3>2. char_sets_count' \in Nat
      BY <1>1, <3>1
    <3> QED
      BY <1>1, <1>2, <3>1, <3>2, PassOf
  <2> QED
    BY <1>3, <2>1, <2>2, <2>3 DEF Turn
<1>9. CASE RangeValue
  <2>1. /\ NextSymbol /\ UNCHANGED <<ctext, save, counts, cstate>>
    BY <1>5, <1>9, NamedSetsAssumption DEF RangeValue, IsCharSymbol, NextSymbol, Parsing
  <2>2. CharSymbol(Symbol, a.dash)
    BY <1>9 DEF RangeValue, IsCharSymbol, IsDash, CharSymbol, At
  <2>3. RangeTurn(Symbol, a, b)
    BY <1>4, <1>9, <2>2 DEF RangeValue, RangeTurn, At
  <2>4. Len(Bytes(Symbol)) \in Nat
    BY <2>2, BytesInRange DEF CharSymbol, Chars1
  <2>5. b \in Pass
    <3>1. /\ values_count' = a.values /\ char_sets_count' = a.sets
          /\ ranges_count' = a.ranges + Len(a.char1) + Len(Bytes(Symbol))
          /\ char1' = <<>> /\ seen_dash' = FALSE /\ seen_special' = FALSE
      BY <1>9 DEF RangeValue, At
    <3>2. ranges_count' \in Nat
      BY <1>1, <2>4, <3>1
    <3> QED
      BY <1>1, <1>2, <1>6, <2>4, <3>1, <3>2, PassOf
  <2> QED
    BY <1>3, <2>1, <2>3, <2>5 DEF Turn
<1>10. CASE CharValue
  <2>1. /\ NextSymbol /\ UNCHANGED <<ctext, save, counts, cstate>>
    BY <1>5, <1>10, NamedSetsAssumption DEF CharValue, IsCharSymbol, NextSymbol, Parsing
  <2>2. CharSymbol(Symbol, a.dash)
    BY <1>10 DEF CharValue, IsCharSymbol, IsDash, CharSymbol, At
  <2>3. ValueTurn(Symbol, a, b)
    BY <1>4, <1>10, <2>2 DEF CharValue, ValueTurn, At
  <2>4. Bytes(Symbol) \in Chars1
    BY <2>2, BytesInRange DEF CharSymbol
  <2>5. b \in Pass
    <3>1. /\ values_count' = a.values + Len(a.char1) /\ char_sets_count' = a.sets
          /\ ranges_count' = a.ranges
          /\ char1' = Bytes(Symbol) /\ seen_dash' = a.dash /\ seen_special' = FALSE
      BY <1>10 DEF CharValue, At
    <3>2. values_count' \in Nat
      BY <1>1, <3>1
    <3> QED
      BY <1>1, <1>2, <2>4, <3>1, <3>2, PassOf
  <2> QED
    BY <1>3, <2>1, <2>3, <2>5 DEF Turn
<1> QED
  BY <1>7, <1>8, <1>9, <1>10

(* A symbol takes the locals to one place only. *)
LEMMA OneTurn ==
  ASSUME NEW sym, NEW a \in Pass, NEW b \in Pass, NEW c \in Pass,
         Turn(sym, a, b), Turn(sym, a, c)
  PROVE  /\ b.values = c.values /\ b.ranges = c.ranges /\ b.sets = c.sets
         /\ b.char1 = c.char1 /\ b.dash = c.dash /\ b.special = c.special
<1>1. sym \in DOMAIN NamedSets => sym # "-" /\ sym \notin DOMAIN Literals \cup DOMAIN UnicodeDigits
  BY NamedSetsAssumption
<1>2. CASE DashTurn(sym, a, b)
  BY <1>1, <1>2 DEF Turn, DashTurn, SetTurn, RangeTurn, ValueTurn, CharSymbol
<1>3. CASE SetTurn(sym, a, b)
  BY <1>1, <1>3 DEF Turn, DashTurn, SetTurn, RangeTurn, ValueTurn, CharSymbol
<1>4. CASE RangeTurn(sym, a, b)
  BY <1>1, <1>4 DEF Turn, DashTurn, SetTurn, RangeTurn, ValueTurn, CharSymbol
<1>5. CASE ValueTurn(sym, a, b)
  BY <1>1, <1>5 DEF Turn, DashTurn, SetTurn, RangeTurn, ValueTurn, CharSymbol
<1> QED
  BY <1>2, <1>3, <1>4, <1>5 DEF Turn

(* A symbol with a turn is not rejected by the second pass, and not an end.*)
LEMMA TurnTaken ==
  ASSUME NEW a \in Pass, NEW b, At(a), Turn(Symbol, a, b), save
  PROVE  ~ClassRejected /\ Symbol # "]"
<1>1. /\ "-" \notin DOMAIN NamedSets /\ "]" \notin DOMAIN NamedSets
      /\ \A sym \in DOMAIN NamedSets : sym \notin DOMAIN Literals \cup DOMAIN UnicodeDigits
      /\ "end of text" \notin DOMAIN Literals \cup DOMAIN UnicodeDigits \cup DOMAIN NamedSets
  BY NamedSetsAssumption
<1>2. EndAllowed
  BY DEF EndAllowed
<1>3. CASE DashTurn(Symbol, a, b)
  BY <1>1, <1>3 DEF DashTurn, At, ClassRejected, IsCharSymbol, IsDash
<1>4. CASE SetTurn(Symbol, a, b)
  BY <1>1, <1>4 DEF SetTurn, At, ClassRejected, IsCharSymbol, IsDash
<1>5. CASE RangeTurn(Symbol, a, b)
  BY <1>1, <1>2, <1>5 DEF RangeTurn, CharSymbol, At, ClassRejected, IsCharSymbol, IsDash
<1>6. CASE ValueTurn(Symbol, a, b)
  BY <1>1, <1>6 DEF ValueTurn, CharSymbol, At, ClassRejected, IsCharSymbol, IsDash
<1> QED
  BY <1>3, <1>4, <1>5, <1>6 DEF Turn

-----------------------------------------------------------------------------
(* The invariant. *)

LEMMA NoText ==
  /\ <<>> \in Chars1 /\ <<>> \in Seq(STRING) /\ 1 \in 1..(Len(<<>>) + 1)
  /\ 0 \in Nat /\ TRUE \in BOOLEAN /\ FALSE \in BOOLEAN
BY DEF Chars1

LEMMA InitInv ==
  ASSUME ClassInit
  PROVE  ClassInv
<1>1. Place
  BY NoText, Zenon DEF ClassInit, Place
<1>2. Locals
  BY NoText, Zenon DEF ClassInit, Locals
<1>3. TheClass
  BY DEF ClassInit, TheClass, NoClass, NoCounts
<1> QED
  BY <1>1, <1>2, <1>3, Zenon DEF ClassInit, ClassInv

LEMMA BeginInv ==
  ASSUME ClassInv, cstate = "idle", NEW text \in ClassTexts, ClassBegin(text)
  PROVE  ClassInv'
<1>1. text \in Seq(STRING) /\ Len(text) \in Nat
  BY ClassTextsAssumption
<1>2. PICK f \in 1..(Len(text) + 1) : f = First(text)
  BY <1>1, FirstOfText
<1>3. ctext' = text /\ cpos' = f /\ save' = FALSE /\ StartPass
  BY <1>2 DEF ClassBegin
<1>4. Place'
  BY <1>1, <1>3 DEF Place
<1>5. Locals'
  BY <1>3, NoText, Zenon DEF StartPass, Locals
<1>6. TheClass'
  BY DEF ClassBegin, TheClass, NoClass, NoCounts
<1>7. FirstPass'
  <2>1. PICK a : a = [values |-> 0, ranges |-> 0, sets |-> 0, char1 |-> <<>>,
                      dash |-> FALSE, special |-> FALSE]
    OBVIOUS
  <2>2. a \in Pass
    BY <2>1 DEF Pass, Chars1
  <2>3. NoneYet(a)
    BY <2>1 DEF NoneYet
  <2>4. PICK tr : Trace(text, tr, First(text)) /\ tr[First(text)] = a
    BY <1>1, <2>2, <2>3, TraceStarts
  <2>5. At(a)'
    BY <1>3, <2>1 DEF At, StartPass
  <2>6. tr[cpos'] = a
    BY <1>2, <1>3, <2>4
  <2>7. At(tr[cpos])'
    BY <2>5, <2>6 DEF At
  <2> QED
    BY <1>2, <1>3, <2>4, <2>7 DEF FirstPass
<1>8. cstate' \in {"parse", "error"}
  BY DEF ClassBegin
<1> QED
  BY <1>3, <1>4, <1>5, <1>6, <1>7, <1>8, Zenon DEF ClassInv

LEMMA EndInv ==
  ASSUME ClassInv, ClassEnd
  PROVE  ClassInv'
<1>1. Place'
  BY NoText, Zenon DEF ClassEnd, Place
<1>2. Locals'
  BY NoText, Zenon DEF ClassEnd, StartPass, Locals
<1>3. TheClass'
  BY DEF ClassEnd, TheClass, NoClass, NoCounts
<1> QED
  BY <1>1, <1>2, <1>3, Zenon DEF ClassEnd, ClassInv

(* The symbols of the text in a pass. *)
LEMMA ReplayAt ==
  ASSUME Place, NEW tr, NEW e, Replay(tr, e)
  PROVE  /\ Symbol = ctext[cpos] /\ tr[cpos] \in Pass /\ cpos \in Nat /\ e \in Nat /\ cpos <= e
         /\ cpos = e => Symbol = "]"
         /\ cpos # e => /\ cpos + 1 \in First(ctext)..e
                        /\ tr[cpos + 1] \in Pass
                        /\ Turn(Symbol, tr[cpos], tr[cpos + 1])
                        /\ NoMore(tr[cpos + 1], tr[e])
<1>1. ctext \in Seq(STRING)
  BY Zenon DEF Place
<1>2. PICK f \in 1..(Len(ctext) + 1) : f = First(ctext)
  BY <1>1, FirstOfText
<1>3. /\ Trace(ctext, tr, e) /\ e <= Len(ctext) /\ ctext[e] = "]"
      /\ cpos \in f..e /\ At(tr[cpos])
  BY <1>2 DEF Replay
<1>4. /\ e \in f..(Len(ctext) + 1) /\ tr \in [f..e -> Pass]
      /\ \A k \in f..(e - 1) : Turn(ctext[k], tr[k], tr[k + 1])
      /\ \A k \in f..e : NoMore(tr[k], tr[e])
  BY <1>2, <1>3 DEF Trace
<1>5. Len(ctext) \in Nat /\ e \in Nat /\ cpos \in Nat /\ cpos <= e /\ cpos <= Len(ctext)
  BY <1>1, <1>3, <1>4
<1>6. Symbol = ctext[cpos]
  BY <1>5 DEF Symbol
<1>7. cpos # e => cpos \in f..(e - 1) /\ cpos + 1 \in f..e
  BY <1>3, <1>5
<1>8. cpos # e => /\ tr[cpos + 1] \in Pass
                 /\ Turn(ctext[cpos], tr[cpos], tr[cpos + 1])
                 /\ NoMore(tr[cpos + 1], tr[e])
  BY <1>4, <1>7
<1> QED
  BY <1>2, <1>3, <1>4, <1>5, <1>6, <1>7, <1>8

LEMMA TraceEnd ==
  ASSUME Place, NEW tr, NEW e, Trace(ctext, tr, e)
  PROVE  tr[e] \in Pass
<1>1. ctext \in Seq(STRING)
  BY Zenon DEF Place
<1>2. PICK f \in 1..(Len(ctext) + 1) : f = First(ctext)
  BY <1>1, FirstOfText
<1>3. e \in f..(Len(ctext) + 1) /\ tr \in [f..e -> Pass]
  BY <1>2 DEF Trace
<1> QED
  BY <1>3

(* A turn of the first pass makes the trace longer. *)
LEMMA FirstPassTurn ==
  ASSUME Place, Locals, FirstPass, Dash \/ NamedSet \/ RangeValue \/ CharValue
  PROVE  FirstPass'
<1>1. PICK tr : Trace(ctext, tr, cpos) /\ At(tr[cpos])
  BY DEF FirstPass
<1>2. tr[cpos] \in Pass
  BY <1>1, TraceEnd
<1>3. /\ NextSymbol /\ UNCHANGED <<ctext, save, counts, cstate>>
      /\ \E b \in Pass : Turn(Symbol, tr[cpos], b) /\ At(b)'
  <2>1. PICK a \in Pass : a = tr[cpos]
    BY <1>2
  <2> QED
    BY <1>1, <2>1, CodeTurn
<1>4. PICK b \in Pass : Turn(Symbol, tr[cpos], b) /\ At(b)'
  BY <1>3
<1>5. ctext \in Seq(STRING) /\ Symbol = ctext[cpos] /\ cpos <= Len(ctext)
  <2>1. ctext \in Seq(STRING)
    BY Zenon DEF Place
  <2>2. cpos \in 1..Len(ctext)
    BY <1>3, Zenon DEF NextSymbol
  <2>3. cpos <= Len(ctext)
    BY <2>1, <2>2
  <2> QED
    BY <2>1, <2>3 DEF Symbol
<1>6. PICK tr2 : Trace(ctext, tr2, cpos + 1) /\ tr2[cpos + 1] = b
  BY <1>1, <1>4, <1>5, TraceGoesOn
<1>7. ctext' = ctext /\ cpos' = cpos + 1
  BY <1>3 DEF NextSymbol
<1>8. At(tr2[cpos])'
  BY <1>4, <1>6, <1>7 DEF At
<1> QED
  BY <1>6, <1>7, <1>8 DEF FirstPass

(* A turn of the second pass is the one that the first took here.          *)
LEMMA SecondPassTurn ==
  ASSUME Place, Locals, NEW tr, NEW e, Replay(tr, e),
         Dash \/ NamedSet \/ RangeValue \/ CharValue
  PROVE  /\ Replay(tr, e)'
         /\ values_count' <= counts.values /\ ranges_count' <= counts.ranges
         /\ char_sets_count' <= counts.char_sets
<1>1. At(tr[cpos]) /\ tr[cpos] \in Pass
  BY ReplayAt DEF Replay
<1>2. /\ NextSymbol /\ UNCHANGED <<ctext, save, counts, cstate>>
      /\ \E b \in Pass : Turn(Symbol, tr[cpos], b) /\ At(b)'
  <2>1. PICK a \in Pass : a = tr[cpos]
    BY <1>1
  <2> QED
    BY <1>1, <2>1, CodeTurn
<1>3. PICK b \in Pass : Turn(Symbol, tr[cpos], b) /\ At(b)'
  BY <1>2
<1>4. Symbol # "]" /\ cpos' = cpos + 1 /\ ctext' = ctext /\ counts' = counts
  BY <1>2 DEF NextSymbol
<1>5. PICK c \in Pass : /\ c = tr[cpos + 1] /\ Turn(Symbol, tr[cpos], c) /\ NoMore(c, tr[e])
                        /\ cpos + 1 \in First(ctext)..e
  BY <1>4, ReplayAt
<1>6. /\ b.values = c.values /\ b.ranges = c.ranges /\ b.sets = c.sets
      /\ b.char1 = c.char1 /\ b.dash = c.dash /\ b.special = c.special
  BY <1>1, <1>3, <1>5, OneTurn
<1>7. At(c)'
  BY <1>3, <1>6 DEF At
<1>8. Replay(tr, e)'
  BY <1>4, <1>5, <1>7 DEF Replay
<1>9. values_count' = c.values /\ ranges_count' = c.ranges /\ char_sets_count' = c.sets
  BY <1>7 DEF At
<1>10. tr[e] \in Pass
  BY TraceEnd DEF Replay
<1>11. /\ Trailed(tr[e]) \in Nat /\ tr[e].values \in Nat /\ tr[e].ranges \in Nat /\ tr[e].sets \in Nat
       /\ c.values \in Nat /\ c.ranges \in Nat /\ c.sets \in Nat
  <2>1. ASSUME NEW d \in Pass
        PROVE  /\ Len(d.char1) \in Nat /\ d.values \in Nat /\ d.ranges \in Nat /\ d.sets \in Nat
    BY DEF Pass, Chars1
  <2>2. Trailed(tr[e]) \in Nat
    BY <1>10, TrailedNat
  <2> QED
    BY <1>10, <2>1, <2>2
<1>12. /\ counts.values = tr[e].values + Trailed(tr[e])
       /\ counts.ranges = tr[e].ranges /\ counts.char_sets = tr[e].sets
  BY DEF Replay
<1>13. c.values <= counts.values /\ c.ranges <= counts.ranges /\ c.sets <= counts.char_sets
  BY <1>5, <1>11, <1>12 DEF NoMore
<1> QED
  BY <1>8, <1>9, <1>13

LEMMA TrailingBytes ==
  ASSUME Locals
  PROVE  Trailing \in Seq(Byte) /\ Len(Trailing) = Len(char1) + (IF seen_dash THEN 1 ELSE 0)
<1>1. PICK c \in Seq(Byte) : c = char1
  BY DEF Locals, Chars1
<1>2. 45 \in Byte /\ <<45>> \in Seq(Byte) /\ Len(<<45>>) = 1
  BY DEF Byte
<1>3. CASE seen_dash
  BY <1>1, <1>2, <1>3 DEF Trailing
<1>4. CASE ~seen_dash
  BY <1>1, <1>4 DEF Trailing
<1> QED
  BY <1>3, <1>4

(* The elements that a turn of the second pass writes.                     *)
LEMMA ArraysTurn ==
  ASSUME Locals, TheClass, Arrays, save, UNCHANGED counts,
         values_count' \in Nat, ranges_count' \in Nat, char_sets_count' \in Nat,
         values_count' <= counts.values, ranges_count' <= counts.ranges,
         char_sets_count' <= counts.char_sets,
         Dash \/ NamedSet \/ RangeValue \/ CharValue
  PROVE  Arrays' /\ TheClass'
<1>1. /\ Filled(ccval.values, values_count, counts.values, Byte)
      /\ Filled(ccval.ranges, ranges_count, counts.ranges, Byte)
      /\ Filled(ccval.char_sets, char_sets_count, counts.char_sets, Sets)
  BY DEF Arrays
<1>2. /\ counts.values \in Nat /\ counts.ranges \in Nat /\ counts.char_sets \in Nat
      /\ values_count \in Nat /\ ranges_count \in Nat /\ char_sets_count \in Nat
      /\ Unwritten \notin Byte /\ Unwritten \notin Sets
  BY DEF TheClass, Locals, Unwritten, Byte, Sets, CS_ANY, CS_NOTSPACE
<1>3. PICK n, v, r, k : /\ ccval = [negated |-> n, values |-> v, ranges |-> r, char_sets |-> k]
                        /\ n \in BOOLEAN
  BY DEF TheClass
<1>4. char1 \in Seq(Byte)
  BY DEF Locals, Chars1
<1>5. CASE Dash
  BY <1>1, <1>5 DEF Dash, Arrays, TheClass
<1>6. CASE NamedSet
  <2>1. PICK a : a = Write(k, char_sets_count, <<NamedSets[Symbol]>>)
    OBVIOUS
  <2>2. ccval' = [negated |-> n, values |-> v, ranges |-> r, char_sets |-> a]
    BY <1>3, <1>6, <2>1 DEF NamedSet, Saved
  <2>3. PICK z \in Sets : z = NamedSets[Symbol]
    BY <1>6, NamedSetsAssumption DEF NamedSet, Sets
  <2>4. <<z>> \in Seq(Sets) /\ Len(<<z>>) = 1
    OBVIOUS
  <2>5. char_sets_count' = char_sets_count + Len(<<z>>)
    BY <1>6, <2>4 DEF NamedSet
  <2>6. Filled(a, char_sets_count', counts.char_sets, Sets)
    BY <1>1, <1>2, <1>3, <2>1, <2>3, <2>4, <2>5, WriteFills
  <2> QED
    BY <1>1, <1>3, <1>6, <2>2, <2>6 DEF NamedSet, Arrays, TheClass
<1>7. CASE RangeValue
  <2>1. PICK a : a = Write(r, ranges_count, char1 \o Bytes(Symbol))
    OBVIOUS
  <2>2. ccval' = [negated |-> n, values |-> v, ranges |-> a, char_sets |-> k]
    BY <1>3, <1>7, <2>1 DEF RangeValue, Saved
  <2>3. PICK z \in Seq(Byte) : z = Bytes(Symbol)
    BY <1>7, BytesInRange DEF RangeValue, IsCharSymbol, Chars1
  <2>4. char1 \o z \in Seq(Byte) /\ Len(char1 \o z) = Len(char1) + Len(z)
    BY <1>4
  <2>5. ranges_count' = ranges_count + Len(char1 \o z)
    BY <1>2, <1>4, <1>7, <2>3, <2>4 DEF RangeValue
  <2>6. PICK y \in Seq(Byte) : y = char1 \o z /\ ranges_count' = ranges_count + Len(y)
    BY <2>4, <2>5
  <2>7. Filled(a, ranges_count', counts.ranges, Byte)
    BY <1>1, <1>2, <1>3, <2>1, <2>3, <2>6, WriteFills
  <2> QED
    BY <1>1, <1>3, <1>7, <2>2, <2>7 DEF RangeValue, Arrays, TheClass
<1>8. CASE CharValue
  <2>1. PICK a : a = Write(v, values_count, char1)
    OBVIOUS
  <2>2. ccval' = [negated |-> n, values |-> a, ranges |-> r, char_sets |-> k]
    BY <1>3, <1>8, <2>1 DEF CharValue, Saved
  <2>3. values_count' = values_count + Len(char1)
    BY <1>8 DEF CharValue
  <2>4. Filled(a, values_count', counts.values, Byte)
    BY <1>1, <1>2, <1>3, <1>4, <2>1, <2>3, WriteFills
  <2> QED
    BY <1>1, <1>3, <1>8, <2>2, <2>4 DEF CharValue, Arrays, TheClass
<1> QED
  BY <1>5, <1>6, <1>7, <1>8

(* The class keeps its form in the first pass, which writes nothing.       *)
LEMMA FirstPassClass ==
  ASSUME TheClass, ~save, UNCHANGED counts, Dash \/ NamedSet \/ RangeValue \/ CharValue
  PROVE  TheClass'
<1>1. PICK n, v, r, k : /\ ccval = [negated |-> n, values |-> v, ranges |-> r, char_sets |-> k]
                        /\ n \in BOOLEAN
  BY DEF TheClass
<1>2. ccval' = ccval
  <2>1. CASE Dash
    BY <2>1 DEF Dash
  <2>2. CASE NamedSet
    BY <1>1, <2>2 DEF NamedSet, Saved
  <2>3. CASE RangeValue
    BY <1>1, <2>3 DEF RangeValue, Saved
  <2>4. CASE CharValue
    BY <1>1, <2>4 DEF CharValue, Saved
  <2> QED
    BY <2>1, <2>2, <2>3, <2>4
<1> QED
  BY <1>2 DEF TheClass

LEMMA TurnInv ==
  ASSUME ClassInv, Dash \/ NamedSet \/ RangeValue \/ CharValue
  PROVE  ClassInv'
<1>1. Place /\ Locals /\ TheClass /\ cstate = "parse"
  BY DEF ClassInv, Dash, NamedSet, RangeValue, CharValue, Parsing
<1>2. ASSUME NEW a \in Pass, At(a)
      PROVE  Place' /\ Locals' /\ UNCHANGED <<save, counts, cstate>>
  <2>1. /\ NextSymbol /\ UNCHANGED <<ctext, save, counts, cstate>>
        /\ \E b \in Pass : At(b)'
    BY <1>1, <1>2, CodeTurn
  <2>2. Locals'
    BY <2>1 DEF Pass, At, Locals
  <2>3. ctext \in Seq(STRING) /\ cpos \in 1..Len(ctext) /\ cpos' = cpos + 1
    BY <1>1, <2>1, Zenon DEF Place, NextSymbol
  <2>4. cpos' \in 1..(Len(ctext) + 1)
    BY <2>3
  <2>5. Place'
    BY <1>1, <2>1, <2>3, <2>4 DEF Place
  <2> QED
    BY <2>1, <2>2, <2>5
<1>3. CASE ~save
  <2>1. PICK tr : Trace(ctext, tr, cpos) /\ At(tr[cpos])
    BY <1>1, <1>3 DEF ClassInv, FirstPass
  <2>2. PICK a \in Pass : At(a)
    BY <1>1, <2>1, TraceEnd
  <2>3. Place' /\ Locals' /\ UNCHANGED <<save, counts, cstate>>
    BY <1>2, <2>2
  <2>4. FirstPass'
    BY <1>1, <1>3, FirstPassTurn DEF ClassInv
  <2>5. TheClass'
    BY <1>1, <1>3, <2>3, FirstPassClass
  <2> QED
    BY <1>1, <1>3, <2>3, <2>4, <2>5, Zenon DEF ClassInv
<1>4. CASE save
  <2>1. PICK tr, e : Replay(tr, e)
    BY <1>1, <1>4 DEF ClassInv, SecondPass
  <2>2. PICK a \in Pass : At(a)
    BY <1>1, <2>1, ReplayAt DEF Replay
  <2>3. Place' /\ Locals' /\ UNCHANGED <<save, counts, cstate>>
    BY <1>2, <2>2
  <2>4. /\ Replay(tr, e)'
        /\ values_count' <= counts.values /\ ranges_count' <= counts.ranges
        /\ char_sets_count' <= counts.char_sets
    BY <1>1, <2>1, SecondPassTurn
  <2>5. values_count' \in Nat /\ ranges_count' \in Nat /\ char_sets_count' \in Nat
    BY <2>3 DEF Locals
  <2>6. Arrays' /\ TheClass'
    BY <1>1, <1>4, <2>3, <2>4, <2>5, ArraysTurn DEF ClassInv
  <2>7. SecondPass'
    BY <2>4 DEF SecondPass
  <2> QED
    BY <1>1, <1>4, <2>3, <2>6, <2>7, Zenon DEF ClassInv
<1> QED
  BY <1>3, <1>4

(* The ] of the first pass. *)
LEMMA AllocateInv ==
  ASSUME ClassInv, Allocate
  PROVE  ClassInv'
<1>1. Place /\ Locals /\ TheClass /\ cstate = "parse" /\ ~save /\ FirstPass
  BY DEF ClassInv, Allocate, Parsing
<1>2. PICK tr : Trace(ctext, tr, cpos) /\ At(tr[cpos])
  BY <1>1 DEF FirstPass
<1>3. PICK a \in Pass : a = tr[cpos] /\ At(a)
  BY <1>1, <1>2, TraceEnd
<1>4. ctext \in Seq(STRING)
  BY <1>1, Zenon DEF Place
<1>5. PICK f \in 1..(Len(ctext) + 1) : f = First(ctext)
  BY <1>4, FirstOfText
<1>6. Symbol = ctext[cpos] /\ cpos \in 1..Len(ctext)
  <2>1. Symbol # "end of text"
    BY DEF Allocate
  <2> QED
    BY <1>1, <2>1, SymbolInText
<1>7. /\ f \in f..cpos /\ cpos <= Len(ctext) /\ NoneYet(tr[f])
  <2>1. cpos \in f..(Len(ctext) + 1) /\ NoneYet(tr[f])
    BY <1>2, <1>5 DEF Trace
  <2> QED
    BY <1>4, <1>6, <2>1
<1>8. /\ ctext' = ctext /\ cpos' = f /\ save' = TRUE /\ cstate' = cstate /\ StartPass
  BY <1>5 DEF Allocate
<1>9. PICK z : z = tr[f]
  OBVIOUS
<1>10. At(tr[cpos])'
  <2>1. At(z)'
    BY <1>7, <1>8, <1>9 DEF StartPass, NoneYet, At
  <2>2. tr[cpos'] = z
    BY <1>8, <1>9
  <2> QED
    BY <2>1, <2>2 DEF At
<1>11. Len(Trailing) = Trailed(a)
  BY <1>1, <1>3, TrailingBytes DEF At, Trailed
<1>12. /\ counts' = [values |-> a.values + Trailed(a), ranges |-> a.ranges, char_sets |-> a.sets]
       /\ counts'.values = a.values + Trailed(a)
       /\ counts'.ranges = a.ranges /\ counts'.char_sets = a.sets
  BY <1>3, <1>11 DEF Allocate, Counted, At
<1>13. SecondPass'
  <2>1. ctext[cpos] = "]"
    BY <1>6 DEF Allocate
  <2>2. PICK e : e = cpos
    OBVIOUS
  <2>3. /\ Trace(ctext', tr, e) /\ cpos' \in First(ctext')..e /\ ctext'[e] = "]"
        /\ e <= Len(ctext') /\ tr[e] = a
    BY <1>2, <1>3, <1>5, <1>7, <1>8, <2>1, <2>2
  <2>4. Replay(tr, e)'
    BY <1>10, <1>12, <2>3 DEF Replay
  <2> QED
    BY <2>4 DEF SecondPass
<1>14. a.values + Trailed(a) \in Nat /\ a.ranges \in Nat /\ a.sets \in Nat
  <2>1. a.values \in Nat /\ a.ranges \in Nat /\ a.sets \in Nat
    BY DEF Pass
  <2> QED
    BY <2>1, TrailedNat
<1>15. PICK v \in Nat, r \in Nat, k \in Nat :
         v = counts'.values /\ r = counts'.ranges /\ k = counts'.char_sets
  BY <1>12, <1>14
<1>16. ccval' = [negated |-> ccval.negated, values |-> Array(v), ranges |-> Array(r),
                 char_sets |-> Array(k)]
  <2>1. PICK n, v0, r0, k0 : /\ ccval = [negated |-> n, values |-> v0, ranges |-> r0, char_sets |-> k0]
    BY <1>1 DEF TheClass
  <2> QED
    BY <1>15, <2>1 DEF Allocate
<1>17. TheClass'
  BY <1>1, <1>12, <1>14, <1>16 DEF TheClass
<1>18. Arrays'
  <2>1. /\ Filled(Array(v), 0, v, Byte) /\ Filled(Array(r), 0, r, Byte)
        /\ Filled(Array(k), 0, k, Sets)
    BY ArrayEmpty
  <2>2. /\ ccval'.values = Array(v) /\ ccval'.ranges = Array(r) /\ ccval'.char_sets = Array(k)
        /\ values_count' = 0 /\ ranges_count' = 0 /\ char_sets_count' = 0
    BY <1>8, <1>16 DEF StartPass
  <2> QED
    BY <1>15, <2>1, <2>2 DEF Arrays
<1>19. Place'
  BY <1>1, <1>5, <1>8 DEF Place
<1>20. Locals'
  BY <1>8, NoText, Zenon DEF StartPass, Locals
<1> QED
  BY <1>1, <1>8, <1>13, <1>17, <1>18, <1>19, <1>20, Zenon DEF ClassInv

(* The second pass is at the ] only where the first one ended.             *)
LEMMA EndsTogether ==
  ASSUME ClassInv, Parsing, save
  PROVE  ~ClassRejected /\ (Symbol = "]" => \E tr, e : Replay(tr, e) /\ cpos = e)
<1>1. Place /\ SecondPass
  BY DEF ClassInv, Parsing
<1>2. PICK tr, e : Replay(tr, e)
  BY <1>1 DEF SecondPass
<1>3. CASE cpos = e
  <2>1. Symbol = "]"
    BY <1>1, <1>2, <1>3, ReplayAt
  <2>2. ~ClassRejected
    BY <2>1, NamedSetsAssumption DEF ClassRejected, IsCharSymbol, IsDash
  <2> QED
    BY <1>2, <1>3, <2>2
<1>4. CASE cpos # e
  <2>1. tr[cpos] \in Pass /\ At(tr[cpos]) /\ Turn(Symbol, tr[cpos], tr[cpos + 1])
    BY <1>1, <1>2, <1>4, ReplayAt DEF Replay
  <2>2. PICK a, b : a \in Pass /\ At(a) /\ Turn(Symbol, a, b)
    BY <2>1
  <2> QED
    BY <2>2, TurnTaken
<1> QED
  BY <1>3, <1>4

(* The ] of the second pass. *)
LEMMA DoneInv ==
  ASSUME ClassInv, ClassDone
  PROVE  ClassInv'
<1>1. Place /\ Locals /\ TheClass /\ Arrays /\ Parsing /\ save /\ cstate = "parse" /\ Symbol = "]"
  BY DEF ClassInv, ClassDone, Parsing
<1>2. PICK tr, e : Replay(tr, e) /\ cpos = e
  BY <1>1, EndsTogether
<1>3. PICK a \in Pass : a = tr[e] /\ At(a)
  BY <1>1, <1>2, TraceEnd DEF Replay
<1>4. Trailing \in Seq(Byte) /\ Len(Trailing) = Trailed(a)
  BY <1>1, <1>3, TrailingBytes DEF At, Trailed
<1>5. /\ counts.values = values_count + Len(Trailing)
      /\ counts.ranges = ranges_count /\ counts.char_sets = char_sets_count
  BY <1>2, <1>3, <1>4 DEF Replay, At
<1>6. /\ values_count' = counts.values /\ ranges_count' = ranges_count
      /\ char_sets_count' = char_sets_count /\ counts' = counts
  <2>1. PICK v, r, k : counts = [values |-> v, ranges |-> r, char_sets |-> k]
    BY <1>1 DEF TheClass
  <2>2. Counted = counts
    BY <1>5, <2>1 DEF Counted
  <2> QED
    BY <1>5, <2>2 DEF ClassDone
<1>7. PICK n, v, r, k : /\ ccval = [negated |-> n, values |-> v, ranges |-> r, char_sets |-> k]
                        /\ n \in BOOLEAN
  BY <1>1 DEF TheClass
<1>8. PICK z : z = Write(v, values_count, Trailing)
  OBVIOUS
<1>9. ccval' = [negated |-> n, values |-> z, ranges |-> r, char_sets |-> k]
  BY <1>7, <1>8 DEF ClassDone
<1>10. /\ counts.values \in Nat /\ values_count \in Nat /\ Unwritten \notin Byte
       /\ counts.values <= counts.values
  BY <1>1 DEF TheClass, Locals, Unwritten, Byte
<1>11. Filled(z, counts.values, counts.values, Byte)
  BY <1>1, <1>4, <1>5, <1>7, <1>8, <1>10, WriteFills DEF Arrays
<1>12. Arrays' /\ TheClass'
  BY <1>1, <1>6, <1>7, <1>9, <1>11 DEF Arrays, TheClass
<1>13. Full'
  BY <1>5, <1>6 DEF Full
<1>14. Place' /\ Locals'
  BY <1>1, <1>6, <1>10 DEF ClassDone, Place, Locals
<1>15. cstate' = "done" /\ save'
  BY <1>1 DEF ClassDone
<1> QED
  BY <1>12, <1>13, <1>14, <1>15, Zenon DEF ClassInv

LEMMA ErrorInv ==
  ASSUME ClassInv, ClassError
  PROVE  ClassInv'
<1>1. ~save
  BY EndsTogether DEF ClassError
<1>2. Place' /\ Locals' /\ TheClass'
  BY DEF ClassInv, ClassError, Place, Locals, TheClass
<1>3. cstate' = "error" /\ save' = save
  BY DEF ClassError
<1> QED
  BY <1>1, <1>2, <1>3, Zenon DEF ClassInv

LEMMA SameInv ==
  ASSUME ClassInv, UNCHANGED classVars
  PROVE  ClassInv'
<1>1. Place' /\ Locals' /\ TheClass' /\ (Arrays <=> Arrays') /\ (Full <=> Full')
  BY DEF ClassInv, classVars, Place, Locals, TheClass, Arrays, Full
<1>2. FirstPass <=> FirstPass'
  BY DEF classVars, FirstPass, At
<1>3. SecondPass <=> SecondPass'
  BY DEF classVars, SecondPass, Replay, At
<1> QED
  BY <1>1, <1>2, <1>3, Zenon DEF ClassInv, classVars

LEMMA NextInv ==
  ASSUME ClassInv, [ClassNext]_classVars
  PROVE  ClassInv'
<1>1. CASE cstate = "idle" /\ \E text \in ClassTexts : ClassBegin(text)
  BY <1>1, BeginInv
<1>2. CASE Dash \/ NamedSet \/ RangeValue \/ CharValue
  BY <1>2, TurnInv
<1>3. CASE Allocate
  BY <1>3, AllocateInv
<1>4. CASE ClassDone
  BY <1>4, DoneInv
<1>5. CASE ClassError
  BY <1>5, ErrorInv
<1>6. CASE ClassEnd
  BY <1>6, EndInv
<1>7. CASE UNCHANGED classVars
  BY <1>7, SameInv
<1> QED
  BY <1>1, <1>2, <1>3, <1>4, <1>5, <1>6, <1>7 DEF ClassNext, ClassTurn

LEMMA TypesOfInv ==
  ASSUME ClassInv
  PROVE  ClassTypeOK
<1>1. Place /\ Locals /\ TheClass
  BY DEF ClassInv
<1>2. /\ {values_count, ranges_count, char_sets_count} \subseteq Nat
      /\ char1 \in Seq(Byte) /\ Len(char1) <= 4
  BY <1>1 DEF Locals, Chars1
<1>3. ASSUME cstate = "done"
      PROVE  ccval \in CharClass
  <2>1. Arrays /\ Full
    BY <1>3 DEF ClassInv
  <2>2. /\ ccval.values \in Seq(Byte) /\ ccval.ranges \in Seq(Byte)
        /\ ccval.char_sets \in Seq(Sets)
    BY <1>1, <2>1, AllFilled DEF Arrays, Full, TheClass
  <2>3. PICK n, v, r, k : /\ ccval = [negated |-> n, values |-> v, ranges |-> r, char_sets |-> k]
                          /\ n \in BOOLEAN
    BY <1>1 DEF TheClass
  <2> QED
    BY <2>2, <2>3 DEF CharClass, Sets
<1>4. cstate \in {"idle", "parse", "done", "error"}
  BY DEF ClassInv
<1> QED
  BY <1>1, <1>2, <1>3, <1>4, Zenon DEF ClassTypeOK, Place, Locals

-----------------------------------------------------------------------------
(* The numbers of a quantifier. *)

IntRange == (-IntMax - 1)..IntMax

QuantInv ==
  /\ qstate \in {"idle", "min", "max", "done", "error"}
  /\ qtext \in Seq(STRING) /\ qtext \in QuantTexts \cup {<<>>}
  /\ qpos \in 1..(Len(qtext) + 1) /\ (qstate = "idle" => qpos = 1)
  /\ min \in IntRange /\ max \in IntRange
  /\ seen_min \in BOOLEAN /\ seen_max \in BOOLEAN /\ greedy \in BOOLEAN

(* Whatever is added up, the int holds it. *)
LEMMA IntWraps ==
  ASSUME NEW n \in Int
  PROVE  ToInt(n) \in IntRange
<1>1. PICK k \in Nat : k = IntMax
  BY IntMaxAssumption
<1>2. PICK w \in Nat \ {0} : w = 2 * k + 2
  OBVIOUS
<1>3. \A x \in Int : x % w \in 0..(w - 1)
  OBVIOUS
<1>4. (n + k + 1) % w \in 0..(w - 1)
  BY <1>3
<1>5. PICK y \in 0..(w - 1) : y = (n + k + 1) % w
  BY <1>4
<1>6. y - k - 1 \in (-k - 1)..k
  BY <1>2
<1>7. ToInt(n) = y - k - 1
  BY <1>1, <1>2, <1>5 DEF ToInt
<1> QED
  BY <1>1, <1>6, <1>7 DEF IntRange

(* A number that fits is kept as it is. *)
LEMMA SmallStays ==
  ASSUME NEW n \in Nat, n <= IntMax
  PROVE  ToInt(n) = n
<1>1. PICK k \in Nat : k = IntMax
  BY IntMaxAssumption
<1>2. PICK w \in Nat \ {0} : w = 2 * k + 2
  OBVIOUS
<1>3. n + k + 1 \in 0..(w - 1)
  BY <1>1, <1>2
<1>4. (n + k + 1) % w = n + k + 1
  BY <1>3
<1> QED
  BY <1>1, <1>2, <1>4 DEF ToInt

LEMMA QPositionInText ==
  ASSUME qtext \in Seq(STRING), qpos \in 1..(Len(qtext) + 1)
  PROVE  /\ qpos <= Len(qtext) => qpos + 1 \in 1..(Len(qtext) + 1)
         /\ NongreedyNext => qpos + 2 \in 1..(Len(qtext) + 1)
BY DEF NongreedyNext

LEMMA QSymbolInText ==
  ASSUME QSymbol # "end of text"
  PROVE  qpos <= Len(qtext)
BY Zenon DEF QSymbol

LEMMA QuantStep ==
  ASSUME QuantInv, [QuantNext]_quantVars
  PROVE  QuantInv'
<1>1. /\ qtext \in Seq(STRING) /\ qpos \in 1..(Len(qtext) + 1)
      /\ min \in Int /\ max \in Int /\ min \in IntRange /\ max \in IntRange
      /\ -1 \in IntRange /\ 0 \in IntRange
  BY IntMaxAssumption DEF QuantInv, IntRange
<1>2. /\ qpos <= Len(qtext) => qpos + 1 \in 1..(Len(qtext) + 1)
      /\ NongreedyNext => qpos + 2 \in 1..(Len(qtext) + 1)
  BY <1>1, QPositionInText
<1>3. ASSUME NEW n \in IntRange, Close(n), qstate # "idle"
      PROVE  QuantInv'
  <2>1. qpos <= Len(qtext)
    BY <1>3, QSymbolInText DEF Close
  <2>2. qpos' \in 1..(Len(qtext) + 1)
    BY <1>2, <1>3, <2>1 DEF Close
  <2>3. greedy' \in BOOLEAN
    BY <1>3 DEF Close
  <2> QED
    BY <1>3, <2>2, <2>3, Zenon DEF Close, QuantInv
<1>4. ASSUME NEW text \in QuantTexts, qstate = "idle", QuantBegin(text)
      PROVE  QuantInv'
  <2>1. text \in Seq(STRING) /\ Len(text) \in Nat
    BY QuantTextsAssumption
  <2>2. 1 \in 1..(Len(text) + 1)
    BY <2>1
  <2> QED
    BY <1>4, <2>1, <2>2, Zenon DEF QuantInv, QuantBegin
<1>5. ASSUME NEW n \in Int, QSymbol \in DOMAIN Digits
      PROVE  /\ ToInt(10 * n + Digits[QSymbol]) \in IntRange
             /\ qpos + 1 \in 1..(Len(qtext) + 1)
  <2>1. PICK k \in 0..9 : k = Digits[QSymbol]
    BY <1>5, DigitsAssumption
  <2>2. 10 * n + k \in Int
    OBVIOUS
  <2>3. qpos <= Len(qtext)
    BY <1>5, DigitsAssumption, QSymbolInText
  <2> QED
    BY <1>2, <2>1, <2>2, <2>3, IntWraps
<1>6. CASE MinDigit
  BY <1>1, <1>5, <1>6, Zenon DEF MinDigit, QuantInv
<1>7. CASE MaxDigit
  BY <1>1, <1>5, <1>7, Zenon DEF MaxDigit, QuantInv
<1>8. CASE Comma
  <2>1. qpos + 1 \in 1..(Len(qtext) + 1)
    BY <1>2, <1>8, QSymbolInText DEF Comma
  <2> QED
    BY <1>8, <2>1, Zenon DEF Comma, QuantInv
<1>9. CASE CloseMin
  BY <1>1, <1>3, <1>9 DEF CloseMin
<1>10. CASE CloseMax
  BY <1>1, <1>3, <1>10 DEF CloseMax
<1>11. CASE QuantError
  BY <1>11, Zenon DEF QuantError, QuantInv
<1>12. CASE QuantEnd
  BY <1>1, <1>12, NoText, Zenon DEF QuantEnd, QuantInv
<1>13. CASE UNCHANGED quantVars
  BY <1>13, Zenon DEF quantVars, QuantInv
<1> QED
  BY <1>4, <1>6, <1>7, <1>8, <1>9, <1>10, <1>11, <1>12, <1>13 DEF QuantNext, QuantTurn

-----------------------------------------------------------------------------
(* The value of a sequence of digits.  Number is defined by its equation;  *)
(* that there is a function which satisfies it is shown for the sequences  *)
(* up to each length, of which the least without one would be next to one  *)
(* with.                                                                   *)
DigitSeqs == Seq(DOMAIN Digits)
Front1(s) == SubSeq(s, 1, Len(s) - 1)
Upto(n) == {s \in DigitSeqs : Len(s) <= n}
ValueBy(f, s) == IF s = <<>> THEN 0 ELSE 10 * f[Front1(s)] + Digits[s[Len(s)]]
Values(f, n) == f \in [Upto(n) -> Nat] /\ \A s \in Upto(n) : f[s] = ValueBy(f, s)

LEMMA FrontShorter ==
  ASSUME NEW s \in DigitSeqs, s # <<>>
  PROVE  /\ Front1(s) \in DigitSeqs /\ Len(Front1(s)) = Len(s) - 1
         /\ Len(s) \in Nat \ {0} /\ s[Len(s)] \in DOMAIN Digits
         /\ Digits[s[Len(s)]] \in 0..9
<1>1. Len(s) \in Nat \ {0} /\ s[Len(s)] \in DOMAIN Digits
  BY DEF DigitSeqs
<1>2. Front1(s) \in DigitSeqs /\ Len(Front1(s)) = Len(s) - 1
  <2>1. PICK m \in Nat : m = Len(s) - 1
    BY <1>1
  <2>2. m \in Int /\ 1 \in Int /\ \A k \in 1..m : s[k] \in DOMAIN Digits
    BY <1>1, <2>1 DEF DigitSeqs
  <2>3. SubSeq(s, 1, m) \in Seq(DOMAIN Digits)
    BY <2>2, SubSeqProperties, Zenon
  <2>4. Len(SubSeq(s, 1, m)) = m
    BY <1>1, <2>1 DEF DigitSeqs
  <2> QED
    BY <2>1, <2>3, <2>4 DEF DigitSeqs, Front1
<1> QED
  BY <1>1, <1>2, DigitsAssumption

LEMMA ValuesAgree ==
  ASSUME NEW f, NEW g, NEW n \in Nat, NEW m \in Nat, Values(f, n), Values(g, m)
  PROVE  \A s \in Upto(n) \cap Upto(m) : f[s] = g[s]
<1> DEFINE T == {Len(s) : s \in {t \in Upto(n) \cap Upto(m) : f[t] # g[t]}}
<1>1. SUFFICES ASSUME T # {}
               PROVE  FALSE
  OBVIOUS
<1>2. T \subseteq Nat
  BY DEF Upto, DigitSeqs
<1>3. PICK k \in T : \A l \in T : k <= l
  <2> HIDE DEF T
  <2> QED
    BY <1>1, <1>2, LeastNat
<1>4. PICK s \in Upto(n) \cap Upto(m) : f[s] # g[s] /\ Len(s) = k
  OBVIOUS
<1>5. s \in DigitSeqs /\ Len(s) <= n /\ Len(s) <= m
  BY DEF Upto
<1>6. f[s] = ValueBy(f, s) /\ g[s] = ValueBy(g, s)
  BY DEF Values
<1>7. s # <<>>
  BY <1>4, <1>6 DEF ValueBy
<1>8. Front1(s) \in Upto(n) \cap Upto(m) /\ Len(Front1(s)) < k
  BY <1>4, <1>5, <1>7, FrontShorter DEF Upto
<1>9. f[Front1(s)] = g[Front1(s)]
  <2>1. k \in Nat /\ Len(Front1(s)) \in Nat
    BY <1>2, <1>5, <1>7, <1>8, FrontShorter
  <2> QED
    BY <1>3, <1>8, <2>1
<1> QED
  BY <1>4, <1>6, <1>7, <1>9 DEF ValueBy

LEMMA ValuesExist ==
  ASSUME NEW n \in Nat
  PROVE  \E f : Values(f, n)
<1> DEFINE T == {k \in Nat : ~ \E f : Values(f, k)}
<1>1. SUFFICES ASSUME T # {}
               PROVE  FALSE
  OBVIOUS
<1>2. PICK k \in T : \A l \in T : k <= l
  <2> T \subseteq Nat
    OBVIOUS
  <2> HIDE DEF T
  <2> QED
    BY <1>1, LeastNat
<1>3. CASE k = 0
  <2> DEFINE z == [s \in Upto(0) |-> 0]
  <2>1. \A s \in Upto(0) : s = <<>>
    BY DEF Upto, DigitSeqs
  <2>2. Values(z, 0)
    BY <2>1 DEF Values, ValueBy
  <2> QED
    BY <1>3, <2>2
<1>4. CASE k # 0
  <2>1. k - 1 \in Nat
    BY <1>4
  <2>2. PICK f : Values(f, k - 1)
    BY <1>2, <2>1
  <2> DEFINE h == [s \in Upto(k) |-> ValueBy(f, s)]
  <2>3. ASSUME NEW s \in Upto(k), s # <<>>
        PROVE  Front1(s) \in Upto(k - 1) /\ Front1(s) \in Upto(k)
    BY <2>3, FrontShorter DEF Upto
  <2>4. ASSUME NEW s \in Upto(k)
        PROVE  ValueBy(f, s) \in Nat
    <3>1. CASE s = <<>>
      BY <3>1 DEF ValueBy
    <3>2. CASE s # <<>>
      <4>1. f[Front1(s)] \in Nat
        BY <2>2, <2>3, <3>2 DEF Values
      <4>2. s \in DigitSeqs
        BY DEF Upto
      <4>3. Digits[s[Len(s)]] \in Nat
        BY <3>2, <4>2, FrontShorter
      <4> QED
        BY <3>2, <4>1, <4>3 DEF ValueBy
    <3> QED
      BY <3>1, <3>2
  <2>5. ASSUME NEW s \in Upto(k)
        PROVE  h[s] = ValueBy(h, s)
    <3>1. CASE s = <<>>
      BY <3>1 DEF ValueBy
    <3>2. CASE s # <<>>
      <4>1. h[Front1(s)] = ValueBy(f, Front1(s))
        BY <2>3, <3>2
      <4>2. f[Front1(s)] = ValueBy(f, Front1(s))
        BY <2>2, <2>3, <3>2 DEF Values
      <4> QED
        BY <3>2, <4>1, <4>2 DEF ValueBy
    <3> QED
      BY <3>1, <3>2
  <2>6. Values(h, k)
    BY <2>4, <2>5 DEF Values
  <2> QED
    BY <2>6
<1> QED
  BY <1>3, <1>4

LEMMA NumberEquation ==
  Number = [s \in DigitSeqs |-> ValueBy(Number, s)]
<1> DEFINE Of(n) == CHOOSE f : Values(f, n)
           F == [s \in DigitSeqs |-> Of(Len(s))[s]]
<1>1. ASSUME NEW s \in DigitSeqs
      PROVE  Len(s) \in Nat /\ s \in Upto(Len(s)) /\ Values(Of(Len(s)), Len(s))
  <2>1. Len(s) \in Nat
    BY DEF DigitSeqs
  <2> QED
    BY <2>1, ValuesExist DEF Upto
<1>2. ASSUME NEW s \in DigitSeqs
      PROVE  F[s] = ValueBy(F, s)
  <2>1. F[s] = ValueBy(Of(Len(s)), s)
    BY <1>1 DEF Values
  <2>2. CASE s = <<>>
    BY <2>1, <2>2 DEF ValueBy
  <2>3. CASE s # <<>>
    <3> DEFINE t == Front1(s)
    <3>1. t \in DigitSeqs /\ t \in Upto(Len(s)) /\ t \in Upto(Len(t))
      BY <2>3, FrontShorter, <1>1 DEF Upto
    <3>2. F[t] = Of(Len(t))[t] /\ Values(Of(Len(t)), Len(t)) /\ Len(t) \in Nat
      BY <1>1, <3>1
    <3>3. Values(Of(Len(s)), Len(s)) /\ Len(s) \in Nat
      BY <1>1
    <3>4. Of(Len(t))[t] = Of(Len(s))[t]
      <4> HIDE DEF Of, t
      <4> QED
        BY <3>1, <3>2, <3>3, ValuesAgree
    <3> QED
      BY <2>1, <2>3, <3>2, <3>4 DEF ValueBy
  <2> QED
    BY <2>2, <2>3
<1>3. F = [s \in DigitSeqs |-> ValueBy(F, s)]
  <2> HIDE DEF F
  <2>1. F = [s \in DigitSeqs |-> F[s]]
    BY DEF F
  <2> QED
    BY <1>2, <2>1
<1>4. \E f : f = [s \in DigitSeqs |-> ValueBy(f, s)]
  BY <1>3
<1> QED
  BY <1>4, Zenon DEF Number, ValueBy, DigitSeqs, Front1

LEMMA NumberValue ==
  /\ \A s \in DigitSeqs : Number[s] \in Nat
  /\ Number[<<>>] = 0
  /\ \A s \in DigitSeqs : s # <<>> => Number[s] = 10 * Number[Front1(s)] + Digits[s[Len(s)]]
<1>1. \A s \in DigitSeqs : Number[s] = ValueBy(Number, s)
  BY NumberEquation, Zenon
<1>2. <<>> \in DigitSeqs
  BY DEF DigitSeqs
<1>3. Number[<<>>] = 0
  BY <1>1, <1>2 DEF ValueBy
<1>4. \A s \in DigitSeqs : s # <<>> => Number[s] = 10 * Number[Front1(s)] + Digits[s[Len(s)]]
  BY <1>1 DEF ValueBy
<1>5. ASSUME NEW s \in DigitSeqs
      PROVE  Number[s] \in Nat
  <2> DEFINE T == {Len(t) : t \in {u \in DigitSeqs : Number[u] \notin Nat}}
  <2>1. SUFFICES ASSUME T # {}
                 PROVE  FALSE
    OBVIOUS
  <2>2. T \subseteq Nat
    BY DEF DigitSeqs
  <2>3. PICK k \in T : \A l \in T : k <= l
    <3> HIDE DEF T
    <3> QED
      BY <2>1, <2>2, LeastNat
  <2>4. PICK t \in DigitSeqs : Number[t] \notin Nat /\ Len(t) = k
    OBVIOUS
  <2>5. t # <<>>
    BY <1>3, <2>4
  <2>6. /\ Front1(t) \in DigitSeqs /\ Len(Front1(t)) = k - 1
        /\ k \in Nat /\ Digits[t[Len(t)]] \in 0..9
    BY <2>4, <2>5, FrontShorter
  <2>7. Number[Front1(t)] \in Nat
    <3>1. ~(k <= k - 1)
      BY <2>6
    <3>2. k - 1 \notin T
      BY <2>3, <3>1
    <3> QED
      BY <2>6, <3>2
  <2>8. Number[t] = 10 * Number[Front1(t)] + Digits[t[Len(t)]]
    BY <1>4, <2>5
  <2> QED
    BY <2>4, <2>6, <2>7, <2>8
<1> QED
  BY <1>3, <1>4, <1>5

-----------------------------------------------------------------------------
(* The symbols that the parser looks for, by name. *)
BRACE == "}"
COMMA == ","
ENDED == "end of text"

LEMMA Symbols ==
  /\ BRACE # COMMA /\ BRACE # ENDED /\ COMMA # ENDED
  /\ BRACE \notin DOMAIN Digits /\ COMMA \notin DOMAIN Digits /\ ENDED \notin DOMAIN Digits
BY DigitsAssumption DEF BRACE, COMMA, ENDED

LEMMA ClosingSymbol ==
  Closing = {i \in DOMAIN qtext : qtext[i] = BRACE /\ \A j \in 1..(i - 1) : qtext[j] # BRACE}
BY Zenon DEF Closing, BRACE

LEMMA CommasSymbol == Commas = {i \in 1..(End - 1) : qtext[i] = COMMA}
BY Zenon DEF Commas, COMMA

LEMMA SymbolAtPlace == QSymbol = IF qpos <= Len(qtext) THEN qtext[qpos] ELSE ENDED
BY Zenon DEF QSymbol, ENDED

LEMMA ErrorSymbol ==
  ASSUME QuantError
  PROVE  /\ QSymbol \notin DOMAIN Digits /\ qstate \in {"min", "max"}
         /\ qstate = "min" => (QSymbol \in {COMMA, BRACE} => ~seen_min)
         /\ qstate = "max" => QSymbol \notin DOMAIN Digits \cup {BRACE}
BY Zenon DEF QuantError, COMMA, BRACE

(* What has been read of a quantifier: the digits of the first number, the *)
(* comma, the digits of the second.  A number is the value of its digits   *)
(* as long as that value is an int.                                        *)
DigitsIn(i, j) == \A k \in i..j : qtext[k] \in DOMAIN Digits
ValueOf(i, j) == Number[SubSeq(qtext, i, j)]
Adds(n, i, j) == ValueOf(i, j) <= IntMax => n = ValueOf(i, j)

MinRead ==
  /\ DigitsIn(1, qpos - 1) /\ Adds(min, 1, qpos - 1)
  /\ seen_min <=> qpos > 1

MaxRead(c) ==
  /\ c \in 2..(qpos - 1) /\ qtext[c] = COMMA
  /\ DigitsIn(1, c - 1) /\ Adds(min, 1, c - 1)
  /\ DigitsIn(c + 1, qpos - 1) /\ Adds(max, c + 1, qpos - 1)
  /\ seen_max <=> qpos > c + 1

ReadInv ==
  /\ qstate = "idle" => min = 0 /\ max = 0 /\ ~seen_min /\ ~seen_max
  /\ qstate = "min" => MinRead /\ max = 0 /\ ~seen_max
  /\ qstate = "max" => \E c : MaxRead(c)
  /\ QuantMeans

(* Ten times what was read and the next digit is what is read then; a sum  *)
(* that fits was added to one that did.                                    *)
LEMMA OneMoreDigit ==
  ASSUME qtext \in Seq(STRING), NEW i \in 1..Len(qtext), NEW j \in i..Len(qtext),
         DigitsIn(i, j), NEW n \in Int, Adds(n, i, j - 1)
  PROVE  Adds(ToInt(10 * n + Digits[qtext[j]]), i, j)
<1> DEFINE s == SubSeq(qtext, i, j)
<1>1. /\ s \in Seq(STRING) /\ Len(s) = j - i + 1
      /\ \A k \in 1..(j - i + 1) : s[k] = qtext[i + k - 1]
  OBVIOUS
<1>2. i \in Int /\ j \in Int /\ \A k \in i..j : qtext[k] \in DOMAIN Digits
  BY  DEF DigitsIn
<1>3. s \in DigitSeqs /\ s # <<>>
  <2>1. s \in Seq(DOMAIN Digits)
    BY <1>2, SubSeqProperties, Zenon
  <2> QED
    BY <1>1, <2>1 DEF DigitSeqs
<1>4. Front1(s) = SubSeq(qtext, i, j - 1)
  BY <1>1 DEF Front1
<1>5. s[Len(s)] = qtext[j]
  BY <1>1
<1>6. PICK d \in 0..9 : d = Digits[qtext[j]]
  BY <1>3, <1>5, FrontShorter
<1>7. PICK v \in Nat : v = ValueOf(i, j - 1)
  BY <1>3, <1>4, FrontShorter, NumberValue DEF ValueOf
<1>8. ValueOf(i, j) = 10 * v + d
  BY <1>3, <1>4, <1>5, <1>6, <1>7, NumberValue DEF ValueOf
<1>9. ASSUME 10 * v + d <= IntMax
      PROVE  ToInt(10 * n + d) = 10 * v + d
  <2>1. IntMax \in Nat
    BY IntMaxAssumption
  <2>2. n = v
    BY <1>7, <1>9, <2>1 DEF Adds
  <2> QED
    BY <1>9, <2>1, <2>2, SmallStays
<1> QED
  BY <1>6, <1>8, <1>9 DEF Adds

(* Nothing is read yet. *)
LEMMA NoDigits ==
  ASSUME NEW i \in Int, qtext \in Seq(STRING)
  PROVE  DigitsIn(i, i - 1) /\ Adds(0, i, i - 1)
<1>1. SubSeq(qtext, i, i - 1) = <<>>
  BY SubSeqEmpty
<1>2. DigitsIn(i, i - 1)
  BY  DEF DigitsIn
<1> QED
  BY <1>1, <1>2, NumberValue DEF Adds, ValueOf

(* The text of a quantifier, and a part of it, place by place. *)
QText == qtext \in Seq(STRING)

LEMMA TextPlaces ==
  ASSUME QText
  PROVE  /\ Len(qtext) \in Nat /\ DOMAIN qtext = 1..Len(qtext)
         /\ \A i \in 1..(Len(qtext) + 1), j \in 0..Len(qtext) :
              i <= j + 1 =>
                LET s == SubSeq(qtext, i, j) IN
                /\ Len(s) = j - i + 1 /\ DOMAIN s = 1..(j - i + 1)
                /\ \A k \in 1..(j - i + 1) : s[k] = qtext[i + k - 1]
                /\ s = <<>> <=> j - i + 1 = 0
<1>1. Len(qtext) \in Nat /\ DOMAIN qtext = 1..Len(qtext)
  BY  DEF QText
<1>2. ASSUME NEW i \in 1..(Len(qtext) + 1), NEW j \in 0..Len(qtext), i <= j + 1
      PROVE  LET s == SubSeq(qtext, i, j) IN
             /\ Len(s) = j - i + 1 /\ DOMAIN s = 1..(j - i + 1)
             /\ \A k \in 1..(j - i + 1) : s[k] = qtext[i + k - 1]
             /\ s = <<>> <=> j - i + 1 = 0
  BY <1>1, <1>2 DEF QText
<1> QED
  BY <1>1, <1>2

LEMMA PartOfText ==
  ASSUME QText, NEW i \in 1..(Len(qtext) + 1), NEW j \in 0..Len(qtext), i <= j + 1
  PROVE  LET s == SubSeq(qtext, i, j) IN
         /\ Len(s) = j - i + 1 /\ DOMAIN s = 1..(j - i + 1)
         /\ \A k \in 1..(j - i + 1) : s[k] = qtext[i + k - 1]
         /\ s = <<>> <=> j - i + 1 = 0
BY TextPlaces, Zenon

LEMMA TextLength ==
  ASSUME QText
  PROVE  Len(qtext) \in Nat /\ DOMAIN qtext = 1..Len(qtext)
BY TextPlaces, Zenon

(* The quantifier ends at its first brace. *)
LEMMA FirstBrace ==
  ASSUME QText, NEW e \in 1..Len(qtext), qtext[e] = BRACE,
         \A j \in 1..(e - 1) : qtext[j] # BRACE
  PROVE  Closing = {e} /\ End = e /\ Commas = {i \in 1..(e - 1) : qtext[i] = COMMA}
<1>1. e \in Closing
  BY TextLength, ClosingSymbol
<1>2. ASSUME NEW i \in Closing
      PROVE  i = e
  <2>1. i \in 1..Len(qtext) /\ qtext[i] = BRACE /\ \A j \in 1..(i - 1) : qtext[j] # BRACE
    BY TextLength, ClosingSymbol
  <2>2. ~(i < e) /\ ~(e < i)
    BY <2>1, TextLength
  <2> QED
    BY <2>1, <2>2, TextLength
<1>3. Closing = {e}
  BY <1>1, <1>2
<1>4. End = e
  BY <1>3 DEF End
<1> QED
  BY <1>3, <1>4, CommasSymbol

LEMMA SymbolRead ==
  ASSUME QText, qpos \in 1..(Len(qtext) + 1), NEW sym, QSymbol = sym,
         sym # ENDED
  PROVE  qpos \in 1..Len(qtext) /\ qtext[qpos] = sym
BY TextLength, SymbolAtPlace

LEMMA DigitsArePlain ==
  ASSUME NEW i \in Int, NEW j \in Int, DigitsIn(i, j)
  PROVE  \A k \in i..j : qtext[k] \notin {COMMA, BRACE, ENDED}
BY Symbols DEF DigitsIn

(* The text of one number, and of two. *)
LEMMA OneNumber ==
  ASSUME QText, qpos \in 1..(Len(qtext) + 1), MinRead, seen_min, QSymbol = BRACE
  PROVE  /\ End = qpos /\ Commas = {} /\ WellWritten
         /\ MinText = SubSeq(qtext, 1, qpos - 1)
<1>1. qpos \in 1..Len(qtext) /\ qtext[qpos] = BRACE
  BY SymbolRead, Symbols
<1>2. DigitsIn(1, qpos - 1) /\ qpos > 1
  BY  DEF MinRead
<1>3. \A k \in 1..(qpos - 1) : qtext[k] \notin {COMMA, BRACE, ENDED}
  BY <1>1, <1>2, DigitsArePlain, TextLength
<1>4. Closing = {qpos} /\ End = qpos /\ Commas = {i \in 1..(qpos - 1) : qtext[i] = COMMA}
  BY <1>1, <1>3, FirstBrace
<1>5. Commas = {}
  BY <1>3, <1>4
<1>6. MinText = SubSeq(qtext, 1, qpos - 1)
  BY <1>4, <1>5 DEF MinText
<1>7. MinText # <<>> /\ AllDigits(MinText)
  <2>1. /\ Len(SubSeq(qtext, 1, qpos - 1)) = qpos - 1
        /\ \A i \in 1..(qpos - 1) : SubSeq(qtext, 1, qpos - 1)[i] = qtext[i]
        /\ DOMAIN SubSeq(qtext, 1, qpos - 1) = 1..(qpos - 1)
    BY <1>1, TextLength
  <2> QED
    BY <1>2, <1>6, <2>1, TextLength DEF AllDigits, DigitsIn
<1> QED
  BY <1>4, <1>5, <1>6, <1>7 DEF WellWritten

LEMMA TwoNumbers ==
  ASSUME QText, qpos \in 1..(Len(qtext) + 1), NEW c, MaxRead(c), QSymbol = BRACE
  PROVE  /\ End = qpos /\ Commas # {} /\ WellWritten
         /\ MinText = SubSeq(qtext, 1, c - 1) /\ MaxText = SubSeq(qtext, c + 1, qpos - 1)
<1>1. qpos \in 1..Len(qtext) /\ qtext[qpos] = BRACE
  BY SymbolRead, Symbols
<1>2. /\ c \in 2..(qpos - 1) /\ qtext[c] = COMMA
      /\ DigitsIn(1, c - 1) /\ DigitsIn(c + 1, qpos - 1)
  BY  DEF MaxRead
<1>3. /\ \A k \in 1..(c - 1) : qtext[k] \notin {COMMA, BRACE, ENDED}
      /\ \A k \in (c + 1)..(qpos - 1) : qtext[k] \notin {COMMA, BRACE, ENDED}
  BY <1>1, <1>2, DigitsArePlain, TextLength
<1>4. \A k \in 1..(qpos - 1) : qtext[k] # BRACE /\ (qtext[k] = COMMA <=> k = c)
  BY <1>1, <1>2, <1>3, TextLength, Symbols
<1>5. Closing = {qpos} /\ End = qpos /\ Commas = {i \in 1..(qpos - 1) : qtext[i] = COMMA}
  BY <1>1, <1>4, FirstBrace
<1>6. Commas = {c}
  BY <1>1, <1>2, <1>4, <1>5, TextLength
<1>7. MinText = SubSeq(qtext, 1, c - 1)
  BY <1>6 DEF MinText
<1>8. Len(SubSeq(qtext, 1, c - 1)) = c - 1
  BY <1>1, <1>2, TextLength
<1>9. MaxText = SubSeq(qtext, c + 1, qpos - 1)
  BY <1>2, <1>5, <1>7, <1>8, TextLength DEF MaxText
<1>10. MinText # <<>> /\ AllDigits(MinText)
  <2>1. /\ \A i \in 1..(c - 1) : SubSeq(qtext, 1, c - 1)[i] = qtext[i]
        /\ DOMAIN SubSeq(qtext, 1, c - 1) = 1..(c - 1)
    BY <1>1, <1>2, TextLength
  <2> QED
    BY <1>2, <1>7, <1>8, <2>1, TextLength DEF AllDigits, DigitsIn
<1>11. AllDigits(MaxText)
  <2>1. /\ DOMAIN SubSeq(qtext, c + 1, qpos - 1) = 1..(qpos - 1 - c)
        /\ \A i \in 1..(qpos - 1 - c) : SubSeq(qtext, c + 1, qpos - 1)[i] = qtext[c + i]
    BY <1>1, <1>2, TextLength
  <2>2. \A i \in 1..(qpos - 1 - c) : c + i \in (c + 1)..(qpos - 1)
    BY <1>1, <1>2, TextLength
  <2> QED
    BY <1>2, <1>9, <2>1, <2>2 DEF AllDigits, DigitsIn
<1> QED
  BY <1>5, <1>6, <1>7, <1>9, <1>10, <1>11 DEF WellWritten

(* What a well written text is, place by place: digits up to a comma or    *)
(* the brace, and digits from that comma on.                               *)
LEMMA WellWrittenText ==
  ASSUME QText, WellWritten
  PROVE  \E e, m \in 1..Len(qtext) :
           /\ m \in 2..e /\ qtext[e] = BRACE /\ qtext[m] \in {COMMA, BRACE}
           /\ \A k \in 1..(m - 1) : qtext[k] \in DOMAIN Digits
           /\ \A k \in (m + 1)..(e - 1) : qtext[k] \in DOMAIN Digits
           /\ m = e \/ qtext[m] = COMMA
<1>1. PICK e \in 1..Len(qtext) : e = End /\ qtext[e] = BRACE /\ \A j \in 1..(e - 1) : qtext[j] # BRACE
  BY TextLength, ClosingSymbol DEF WellWritten, End
<1>2. PICK m \in 1..e : /\ m = IF Commas = {} THEN End ELSE CHOOSE i \in Commas : TRUE
                        /\ Commas # {} => m < e /\ qtext[m] = COMMA
  <2>1. CASE Commas = {}
    BY <1>1, <2>1, TextLength
  <2>2. CASE Commas # {}
    <3>1. (CHOOSE i \in Commas : TRUE) \in Commas
      BY <2>2
    <3> QED
      BY <1>1, <2>2, <3>1, TextLength, CommasSymbol
  <2> QED
    BY <2>1, <2>2
<1>3. MinText = SubSeq(qtext, 1, m - 1)
  BY <1>2 DEF MinText
<1>4. /\ Len(SubSeq(qtext, 1, m - 1)) = m - 1
      /\ DOMAIN SubSeq(qtext, 1, m - 1) = 1..(m - 1)
      /\ \A k \in 1..(m - 1) : SubSeq(qtext, 1, m - 1)[k] = qtext[k]
  OBVIOUS
<1>5. \A k \in 1..(m - 1) : qtext[k] \in DOMAIN Digits
  BY <1>3, <1>4 DEF WellWritten, AllDigits
<1>6. m > 1
  <2>1. ASSUME m = 1
        PROVE  FALSE
    <3>1. SubSeq(qtext, 1, m - 1) = <<>>
      BY <2>1
    <3> QED
      BY <1>3, <3>1 DEF WellWritten
  <2> QED
    BY <2>1
<1>7. CASE Commas = {}
  <2>1. m = e
    BY <1>1, <1>2, <1>7
  <2> QED
    BY <1>1, <1>5, <1>6, <2>1, TextLength
<1>8. CASE Commas # {}
  <2>1. m < e /\ qtext[m] = COMMA
    BY <1>2, <1>8
  <2>2. MaxText = SubSeq(qtext, m + 1, e - 1)
    <3>1. Len(MinText) + 2 = m + 1
      BY <1>3, <1>4
    <3> QED
      BY <1>1, <3>1 DEF MaxText
  <2>3. /\ DOMAIN SubSeq(qtext, m + 1, e - 1) = 1..(e - 1 - m)
        /\ \A i \in 1..(e - 1 - m) : SubSeq(qtext, m + 1, e - 1)[i] = qtext[m + i]
    BY <2>1, TextLength
  <2>4. ASSUME NEW k \in (m + 1)..(e - 1)
        PROVE  qtext[k] \in DOMAIN Digits
    <3>1. k - m \in 1..(e - 1 - m) /\ m + (k - m) = k
      OBVIOUS
    <3> QED
      BY <1>8, <2>2, <2>3, <3>1 DEF WellWritten, AllDigits
  <2> QED
    BY <1>1, <1>5, <1>6, <2>1, <2>4, TextLength
<1> QED
  BY <1>7, <1>8

(* What is rejected is not well written. *)
LEMMA RejectedRightly ==
  ASSUME QText, qpos \in 1..(Len(qtext) + 1), ReadInv, QuantError
  PROVE  ~WellWritten
<1> SUFFICES ASSUME WellWritten
             PROVE  FALSE
  OBVIOUS
<1>1. PICK e, m \in 1..Len(qtext) :
         /\ m \in 2..e /\ qtext[e] = BRACE /\ qtext[m] \in {COMMA, BRACE}
         /\ \A k \in 1..(m - 1) : qtext[k] \in DOMAIN Digits
         /\ \A k \in (m + 1)..(e - 1) : qtext[k] \in DOMAIN Digits
         /\ m = e \/ qtext[m] = COMMA
  BY WellWrittenText
<1>2. COMMA \notin DOMAIN Digits /\ BRACE \notin DOMAIN Digits
  BY Symbols
<1>3. CASE qstate = "min"
  <2>1. DigitsIn(1, qpos - 1) /\ (seen_min <=> qpos > 1)
    BY <1>3 DEF ReadInv, MinRead
  <2>2. qpos <= m
    BY <1>1, <1>2, <2>1, TextLength DEF DigitsIn
  <2>3. QSymbol = qtext[qpos]
    BY <1>1, <2>2, TextLength, SymbolAtPlace
  <2>4. QSymbol \notin DOMAIN Digits /\ (QSymbol \in {COMMA, BRACE} => ~seen_min)
    BY <1>3, ErrorSymbol
  <2>5. qpos = m
    BY <1>1, <2>2, <2>3, <2>4, TextLength
  <2> QED
    BY <1>1, <2>1, <2>3, <2>4, <2>5, TextLength
<1>4. CASE qstate = "max"
  <2>1. PICK c : MaxRead(c)
    BY <1>4 DEF ReadInv
  <2>2. /\ c \in 2..(qpos - 1) /\ qtext[c] = COMMA
        /\ DigitsIn(1, c - 1) /\ DigitsIn(c + 1, qpos - 1)
    BY <2>1 DEF MaxRead
  <2>3. m = c
    BY <1>1, <1>2, <2>2, TextLength DEF DigitsIn
  <2>4. qpos <= e
    <3>1. qtext[c] # BRACE
      BY <2>2, Symbols
    <3>2. c # e
      BY <1>1, <3>1
    <3>3. ~(e \in (c + 1)..(qpos - 1))
      BY <1>1, <1>2, <2>2 DEF DigitsIn
    <3> QED
      BY <1>1, <2>2, <2>3, <3>2, <3>3, TextLength
  <2>5. QSymbol = qtext[qpos]
    BY <1>1, <2>4, TextLength, SymbolAtPlace
  <2>6. QSymbol \notin DOMAIN Digits \cup {BRACE}
    BY <1>4, ErrorSymbol
  <2>7. qpos # e
    BY <1>1, <2>5, <2>6
  <2> QED
    BY <1>1, <2>2, <2>3, <2>4, <2>5, <2>6, <2>7, TextLength
<1> QED
  BY <1>3, <1>4 DEF QuantError

(* What the text says does not change while it is read. *)
LEMMA TextStays ==
  ASSUME qtext' = qtext
  PROVE  /\ End' = End /\ Commas' = Commas /\ WellWritten' = WellWritten
         /\ MinText' = MinText /\ MaxText' = MaxText
<1>1. Closing' = Closing
  BY DEF Closing
<1>2. End' = End
  BY <1>1 DEF End
<1>3. Commas' = Commas
  BY <1>2 DEF Commas
<1>4. MinText' = MinText
  BY <1>2, <1>3 DEF MinText
<1>5. MaxText' = MaxText
  BY <1>2, <1>4 DEF MaxText
<1>6. WellWritten' = WellWritten
  BY <1>1, <1>3, <1>4, <1>5 DEF WellWritten, AllDigits
<1> QED
  BY <1>2, <1>3, <1>4, <1>5, <1>6

LEMMA ReadStays ==
  ASSUME qtext' = qtext, NEW i \in Int, NEW j \in Int
  PROVE  ValueOf(i, j)' = ValueOf(i, j) /\ (DigitsIn(i, j) => DigitsIn(i, j)')
BY DEF ValueOf, DigitsIn

LEMMA ReadStep ==
  ASSUME QuantInv, ReadInv, [QuantNext]_quantVars
  PROVE  ReadInv'
<1>1. PICK p \in 1..(Len(qtext) + 1) : /\ p = qpos /\ QText /\ Len(qtext) \in Nat
                                       /\ min \in Int /\ max \in Int /\ greedy \in BOOLEAN
  BY IntMaxAssumption DEF QuantInv, IntRange, QText
<1>2. ASSUME NEW text \in QuantTexts, qstate = "idle", QuantBegin(text)
      PROVE  ReadInv'
  <2>1. /\ qpos' = 1 /\ min' = 0 /\ max' = 0 /\ seen_min' = FALSE /\ seen_max' = FALSE
        /\ qstate' = "min"
    BY <1>2 DEF QuantBegin, QuantInv, ReadInv
  <2>2. (DigitsIn(1, 0) /\ ValueOf(1, 0) = 0)'
    <3>1. SubSeq(qtext', 1, 0) = <<>>
      BY SubSeqEmpty
    <3>2. ValueOf(1, 0)' = 0
      BY <3>1, NumberValue, Zenon DEF ValueOf
    <3>3. DigitsIn(1, 0)'
      BY DEF DigitsIn
    <3> QED
      BY <3>2, <3>3
  <2>3. MinRead'
    BY <2>1, <2>2 DEF MinRead, Adds
  <2> QED
    BY <2>1, <2>3 DEF ReadInv, QuantMeans
<1>3. CASE MinDigit
  <2>1. /\ qstate = "min" /\ QSymbol \in DOMAIN Digits /\ qpos' = p + 1
        /\ min' = ToInt(10 * min + Digits[QSymbol]) /\ seen_min' = TRUE
        /\ qtext' = qtext /\ max' = max /\ seen_max' = seen_max /\ qstate' = qstate
    BY <1>1, <1>3 DEF MinDigit
  <2>2. p \in 1..Len(qtext) /\ qtext[p] = QSymbol
    BY <1>1, <2>1, Symbols, SymbolRead
  <2>3. DigitsIn(1, p - 1) /\ Adds(min, 1, p - 1) /\ max = 0 /\ ~seen_max
    BY <1>1, <2>1 DEF ReadInv, MinRead
  <2>4. DigitsIn(1, p)
    BY <1>1, <2>1, <2>2, <2>3 DEF DigitsIn
  <2>5. Adds(min', 1, p)
    <3>1. 1 \in 1..Len(qtext)
      BY <1>1, <2>2
    <3>2. Adds(ToInt(10 * min + Digits[qtext[p]]), 1, p)
      BY <1>1, <2>2, <2>3, <2>4, <3>1, OneMoreDigit, Zenon DEF QText
    <3> QED
      BY <2>1, <2>2, <3>2, Zenon
  <2>6. DigitsIn(1, p)' /\ ValueOf(1, p)' = ValueOf(1, p)
    BY <2>1, <2>4, ReadStays
  <2>7. MinRead'
    BY <2>1, <2>5, <2>6 DEF MinRead, Adds
  <2> QED
    BY <2>1, <2>3, <2>7 DEF ReadInv, QuantMeans
<1>4. CASE Comma
  <2>1. /\ qstate = "min" /\ QSymbol = COMMA /\ seen_min /\ qpos' = p + 1 /\ qstate' = "max"
        /\ qtext' = qtext /\ min' = min /\ max' = max /\ seen_max' = seen_max
    BY <1>1, <1>4, Zenon DEF Comma, COMMA
  <2>2. p \in 1..Len(qtext) /\ qtext[p] = COMMA
    BY <1>1, <2>1, Symbols, SymbolRead
  <2>3. DigitsIn(1, p - 1) /\ Adds(min, 1, p - 1) /\ max = 0 /\ ~seen_max /\ p > 1
    BY <1>1, <2>1 DEF ReadInv, MinRead
  <2>4. DigitsIn(p + 1, p) /\ Adds(0, p + 1, p)
    <3>1. PICK q \in Int : q = p + 1 /\ q - 1 = p
      OBVIOUS
    <3>2. DigitsIn(q, q - 1) /\ Adds(0, q, q - 1)
      BY <1>1, NoDigits DEF QText
    <3> QED
      BY <3>1, <3>2
  <2>5. /\ DigitsIn(1, p - 1)' /\ DigitsIn(p + 1, p)'
        /\ ValueOf(1, p - 1)' = ValueOf(1, p - 1) /\ ValueOf(p + 1, p)' = ValueOf(p + 1, p)
    BY <2>1, <2>3, <2>4, ReadStays
  <2>6. MaxRead(p)'
    BY <2>1, <2>2, <2>3, <2>4, <2>5 DEF MaxRead, Adds
  <2> QED
    BY <2>1, <2>6 DEF ReadInv, QuantMeans
<1>5. CASE MaxDigit
  <2>1. /\ qstate = "max" /\ QSymbol \in DOMAIN Digits /\ qpos' = p + 1
        /\ max' = ToInt(10 * max + Digits[QSymbol]) /\ seen_max' = TRUE
        /\ qtext' = qtext /\ min' = min /\ qstate' = qstate
    BY <1>1, <1>5 DEF MaxDigit
  <2>2. p \in 1..Len(qtext) /\ qtext[p] = QSymbol
    BY <1>1, <2>1, Symbols, SymbolRead
  <2>3. PICK c : MaxRead(c)
    BY <2>1 DEF ReadInv
  <2>4. /\ c \in 2..(p - 1) /\ qtext[c] = COMMA
        /\ DigitsIn(1, c - 1) /\ Adds(min, 1, c - 1)
        /\ DigitsIn(c + 1, p - 1) /\ Adds(max, c + 1, p - 1)
    BY <1>1, <2>3 DEF MaxRead
  <2>5. DigitsIn(c + 1, p)
    <3>1. \A k \in (c + 1)..p : k = p \/ k \in (c + 1)..(p - 1)
      BY <2>2, <2>4
    <3> QED
      BY <2>1, <2>2, <2>4, <3>1, Zenon DEF DigitsIn
  <2>6. c + 1 \in 1..Len(qtext) /\ p \in (c + 1)..Len(qtext)
    BY <1>1, <2>2, <2>4
  <2>7. Adds(max', c + 1, p)
    BY <1>1, <2>1, <2>2, <2>4, <2>5, <2>6, OneMoreDigit DEF QText
  <2>8. /\ DigitsIn(1, c - 1)' /\ DigitsIn(c + 1, p)'
        /\ ValueOf(1, c - 1)' = ValueOf(1, c - 1) /\ ValueOf(c + 1, p)' = ValueOf(c + 1, p)
    BY <2>1, <2>4, <2>5, ReadStays
  <2>9. MaxRead(c)'
    BY <2>1, <2>4, <2>7, <2>8 DEF MaxRead, Adds
  <2> QED
    BY <2>1, <2>9 DEF ReadInv, QuantMeans
<1>6. ASSUME NEW n \in Int, Close(n)
      PROVE  /\ qstate' = "done" /\ QSymbol = BRACE /\ qtext' = qtext /\ min' = min /\ max' = n
             /\ greedy' = ~NongreedyNext
             /\ qpos' = IF greedy' THEN p + 1 ELSE p + 2
             /\ End = p => (NongreedyNext <=> (End < Len(qtext) /\ qtext[End + 1] = "?")')
  <2>1. /\ qstate' = "done" /\ QSymbol = BRACE /\ qtext' = qtext /\ min' = min /\ max' = n
        /\ greedy' = ~NongreedyNext
        /\ qpos' = IF NongreedyNext THEN qpos + 2 ELSE qpos + 1
    BY <1>6, Zenon DEF Close, BRACE
  <2>2. End' = End
    BY <2>1, TextStays
  <2>3. End = p => (NongreedyNext <=> (End < Len(qtext) /\ qtext[End + 1] = "?")')
    BY <1>1, <2>1, <2>2, Zenon DEF NongreedyNext
  <2>4. NongreedyNext \in BOOLEAN
    BY DEF NongreedyNext
  <2>5. qpos' = IF greedy' THEN p + 1 ELSE p + 2
    BY <1>1, <2>1, <2>4
  <2> QED
    BY <2>1, <2>3, <2>5
<1>7. CASE CloseMin
  <2>1. qstate = "min" /\ seen_min /\ Close(min)
    BY <1>7 DEF CloseMin
  <2>2. /\ qstate' = "done" /\ QSymbol = BRACE /\ qtext' = qtext /\ min' = min /\ max' = min
        /\ greedy' = ~NongreedyNext
        /\ qpos' = IF greedy' THEN p + 1 ELSE p + 2
        /\ End = p => (NongreedyNext <=> (End < Len(qtext) /\ qtext[End + 1] = "?")')
    BY <1>1, <1>6, <2>1
  <2>3. MinRead
    BY <2>1 DEF ReadInv
  <2>4. End = p /\ Commas = {} /\ WellWritten /\ MinText = SubSeq(qtext, 1, p - 1)
    BY <1>1, <2>1, <2>2, <2>3, OneNumber
  <2>5. Number[MinText] <= IntMax => min = Number[MinText]
    BY <1>1, <2>3, <2>4 DEF MinRead, Adds, ValueOf
  <2>6. End' = End /\ Commas' = Commas /\ WellWritten' = WellWritten /\ MinText' = MinText
    BY <2>2, TextStays
  <2>7. QuantMeans'
    BY <2>2, <2>4, <2>5, <2>6 DEF QuantMeans
  <2> QED
    BY <2>2, <2>7 DEF ReadInv
<1>8. CASE CloseMax
  <2>1. qstate = "max" /\ Close(IF seen_max THEN max ELSE -1)
    BY <1>8 DEF CloseMax, NoMaximum
  <2>2. PICK n \in Int : n = IF seen_max THEN max ELSE -1
    BY <1>1
  <2>3. /\ qstate' = "done" /\ QSymbol = BRACE /\ qtext' = qtext /\ min' = min /\ max' = n
        /\ greedy' = ~NongreedyNext
        /\ qpos' = IF greedy' THEN p + 1 ELSE p + 2
        /\ End = p => (NongreedyNext <=> (End < Len(qtext) /\ qtext[End + 1] = "?")')
    BY <1>1, <1>6, <2>1, <2>2
  <2>4. PICK c : MaxRead(c)
    BY <2>1 DEF ReadInv
  <2>5. /\ End = p /\ Commas # {} /\ WellWritten
        /\ MinText = SubSeq(qtext, 1, c - 1) /\ MaxText = SubSeq(qtext, c + 1, p - 1)
    BY <1>1, <2>3, <2>4, TwoNumbers
  <2>6. /\ Number[MinText] <= IntMax => min = Number[MinText]
        /\ Number[MaxText] <= IntMax => max = Number[MaxText]
    BY <1>1, <2>4, <2>5 DEF MaxRead, Adds, ValueOf
  <2>7. MaxText = <<>> <=> ~seen_max
    <3>1. c \in 2..(p - 1) /\ (seen_max <=> p > c + 1)
      BY <1>1, <2>4 DEF MaxRead
    <3>2. p - 1 \in 0..Len(qtext) /\ c + 1 \in 1..(Len(qtext) + 1) /\ c + 1 <= p - 1 + 1
      BY <1>1, <3>1
    <3>3. SubSeq(qtext, c + 1, p - 1) = <<>> <=> p - 1 - (c + 1) + 1 = 0
      BY <1>1, <3>2, PartOfText
    <3> QED
      BY <1>1, <2>5, <3>1, <3>3
  <2>8. /\ End' = End /\ Commas' = Commas /\ WellWritten' = WellWritten
        /\ MinText' = MinText /\ MaxText' = MaxText
    BY <2>3, TextStays
  <2>9. /\ WellWritten' /\ (Number[MinText] <= IntMax => min = Number[MinText])'
        /\ (Commas # {})' /\ (MaxText = <<>> => max = -1)'
        /\ (MaxText # <<>> /\ Number[MaxText] <= IntMax => max = Number[MaxText])'
    BY <2>2, <2>3, <2>5, <2>6, <2>7, <2>8
  <2>10. /\ (greedy = ~(End < Len(qtext) /\ qtext[End + 1] = "?"))'
         /\ (qpos = IF greedy THEN End + 1 ELSE End + 2)'
    BY <2>3, <2>5, <2>8
  <2>11. QuantMeans'
    BY <2>3, <2>9, <2>10 DEF QuantMeans
  <2> QED
    BY <2>3, <2>11 DEF ReadInv
<1>9. CASE QuantError
  <2>1. qstate' = "error" /\ qtext' = qtext
    BY <1>9 DEF QuantError
  <2>2. ~WellWritten
    BY <1>1, <1>9, RejectedRightly
  <2>3. ~WellWritten'
    BY <2>1, <2>2, TextStays
  <2> QED
    BY <2>1, <2>3 DEF ReadInv, QuantMeans
<1>10. CASE QuantEnd
  BY <1>10 DEF QuantEnd, ReadInv, QuantMeans
<1>11. CASE UNCHANGED quantVars
  <2>1. qtext' = qtext
    BY <1>11 DEF quantVars
  <2>2. /\ End' = End /\ Commas' = Commas /\ WellWritten' = WellWritten
        /\ MinText' = MinText /\ MaxText' = MaxText
    BY <2>1, TextStays
  <2>3. QuantMeans'
    BY <1>11, <2>2 DEF quantVars, QuantMeans, ReadInv
  <2>4. qstate = "min" => MinRead'
    BY <1>11 DEF quantVars, ReadInv, MinRead, DigitsIn, Adds, ValueOf
  <2>5. \A c : MaxRead(c) => MaxRead(c)'
    BY <1>11 DEF quantVars, MaxRead, DigitsIn, Adds, ValueOf
  <2> QED
    BY <1>11, <2>3, <2>4, <2>5 DEF quantVars, ReadInv
<1> QED
  BY <1>2, <1>3, <1>4, <1>5, <1>7, <1>8, <1>9, <1>10, <1>11 DEF QuantNext, QuantTurn

-----------------------------------------------------------------------------
LEMMA Invariance == Spec => [](ClassInv /\ QuantInv)
<1>1. Init => ClassInv /\ QuantInv
  <2> SUFFICES ASSUME Init
               PROVE  ClassInv /\ QuantInv
    OBVIOUS
  <2>1. 0 \in IntRange
    BY IntMaxAssumption DEF IntRange
  <2> QED
    BY <2>1, InitInv, NoText, Zenon DEF Init, QuantInit, QuantInv
<1>2. ClassInv /\ QuantInv /\ [Next]_<<classVars, quantVars>> => (ClassInv /\ QuantInv)'
  <2> SUFFICES ASSUME ClassInv, QuantInv, [Next]_<<classVars, quantVars>>
               PROVE  ClassInv' /\ QuantInv'
    OBVIOUS
  <2>1. [ClassNext]_classVars /\ [QuantNext]_quantVars
    BY DEF Next
  <2> QED
    BY <2>1, NextInv, QuantStep
<1> QED
  BY <1>1, <1>2, PTL DEF Spec

(* The types of both parsers: the positions stay in the text, a number is  *)
(* an int however many digits it has, and what the parser of a bracket     *)
(* returns is a character class, of bytes and of known sets, with no       *)
(* element left unwritten.                                                 *)
THEOREM ParserTypes == Spec => []ParsersTypeOK
<1>1. ClassInv /\ QuantInv => ParsersTypeOK
  <2> SUFFICES ASSUME ClassInv, QuantInv
               PROVE  ClassTypeOK /\ QuantTypeOK
    BY DEF ParsersTypeOK
  <2>1. QuantTypeOK
    BY DEF QuantInv, QuantTypeOK, IntRange
  <2> QED
    BY <2>1, TypesOfInv
<1> QED
  BY <1>1, Invariance, PTL

(* The second pass writes each element of the arrays that the first pass   *)
(* counted and allocated, in order, and nothing beyond them, and it        *)
(* rejects nothing: rx_char_class_init does not look at its result.        *)
THEOREM ArraysFilled == Spec => []SecondPassFits
<1>1. ClassInv => SecondPassFits
  <2> SUFFICES ASSUME ClassInv, save
               PROVE  SecondPassFits
    BY DEF SecondPassFits
  <2>1. cstate \in {"parse", "done"} /\ Arrays /\ TheClass /\ Locals
    BY DEF ClassInv
  <2>2. cstate = "done" => Full
    BY DEF ClassInv
  <2>3. ASSUME NEW array, NEW n \in Nat, NEW size, NEW S, Filled(array, n, size, S)
        PROVE  /\ Len(array) = size /\ n <= size
               /\ \A i \in DOMAIN array : i <= n <=> array[i] # Unwritten
    BY <2>3 DEF Filled
  <2>4. values_count \in Nat /\ ranges_count \in Nat /\ char_sets_count \in Nat
    BY <2>1 DEF Locals
  <2>5. /\ Filled(ccval.values, values_count, counts.values, Byte)
        /\ Filled(ccval.ranges, ranges_count, counts.ranges, Byte)
        /\ Filled(ccval.char_sets, char_sets_count, counts.char_sets, Sets)
    BY <2>1 DEF Arrays
  <2>6. /\ Len(ccval.values) = counts.values /\ values_count <= counts.values
        /\ \A i \in DOMAIN ccval.values : i <= values_count <=> ccval.values[i] # Unwritten
    BY <2>3, <2>4, <2>5
  <2>7. /\ Len(ccval.ranges) = counts.ranges /\ ranges_count <= counts.ranges
        /\ \A i \in DOMAIN ccval.ranges : i <= ranges_count <=> ccval.ranges[i] # Unwritten
    BY <2>3, <2>4, <2>5
  <2>8. /\ Len(ccval.char_sets) = counts.char_sets /\ char_sets_count <= counts.char_sets
        /\ \A i \in DOMAIN ccval.char_sets : i <= char_sets_count <=> ccval.char_sets[i] # Unwritten
    BY <2>3, <2>4, <2>5
  <2> QED
    BY <2>1, <2>2, <2>6, <2>7, <2>8 DEF SecondPassFits, Full
<1> QED
  BY <1>1, Invariance, PTL

(* Exactly the well written quantifiers are accepted, with the numbers     *)
(* that are written, as long as these fit into an int, and the parser      *)
(* stops behind the brace or its ?: rx_quantifier_init, on every text.     *)
THEOREM QuantifierMeans == Spec => []QuantMeans
<1>1. Init => ReadInv
  BY DEF Init, QuantInit, ReadInv, QuantMeans
<1>2. QuantInv /\ ReadInv /\ [Next]_<<classVars, quantVars>> => ReadInv'
  <2> SUFFICES ASSUME QuantInv, ReadInv, [Next]_<<classVars, quantVars>>
               PROVE  ReadInv'
    OBVIOUS
  <2>1. [QuantNext]_quantVars
    BY DEF Next
  <2> QED
    BY <2>1, ReadStep
<1>3. ReadInv => QuantMeans
  BY DEF ReadInv
<1> QED
  BY <1>1, <1>2, <1>3, Invariance, PTL DEF Spec
=============================================================================

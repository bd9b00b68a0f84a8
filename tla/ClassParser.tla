---------------------------- MODULE ClassParser ----------------------------
(***************************************************************************)
(* rx_char_class_init and rx_char_class_parse (rx.c): the text between     *)
(* brackets is parsed twice, once to count the bytes of values, ranges and *)
(* sets, and once to fill arrays that were allocated by that count.        *)
(*                                                                         *)
(* The text is a sequence of symbols: a character or an escape is one      *)
(* symbol, with what it stands for in the tables below; an escape that is  *)
(* cut short or malformed is in no table.                                  *)
(***************************************************************************)
EXTENDS Utf8

CONSTANTS
  ClassTexts,    \* what may follow a [
  Literals,      \* symbol -> its bytes: characters, \n, \x and \] escapes, also - and ^
  UnicodeDigits, \* symbol -> the digits of a \u or \U escape
  ClassTests,    \* the characters and stray bytes a class is tried on
  NamedSets      \* symbol -> the CS_ value of \d \D \w \W \s \S \N

ASSUME ClassTextsAssumption == \A text \in ClassTexts : text \in Seq(STRING)

(* What the symbols stand for; the end of a text is no symbol.             *)
ASSUME LiteralsAssumption ==
  \A sym \in DOMAIN Literals : Literals[sym] \in Seq(Byte) \ {<<>>} /\ Len(Literals[sym]) <= 4
ASSUME UnicodeAssumption ==
  \A sym \in DOMAIN UnicodeDigits : HexToInt(UnicodeDigits[sym]) \in Nat
ASSUME NamedSetsAssumption ==
  /\ \A sym \in DOMAIN NamedSets : NamedSets[sym] \in CS_ANY..CS_NOTSPACE
  /\ DOMAIN NamedSets \cap (DOMAIN Literals \cup DOMAIN UnicodeDigits \cup {"-", "]"}) = {}
  /\ "end of text" \notin DOMAIN Literals \cup DOMAIN UnicodeDigits \cup DOMAIN NamedSets

VARIABLES
  ctext, cpos,
  save,                                        \* the second pass
  values_count, ranges_count, char_sets_count, \* the counts of this pass
  char1, seen_dash, seen_special,
  ccval,                                       \* the class; its arrays once allocated
  counts,                                      \* its three counts, as the last pass left them
  cstate                                       \* "idle", "parse", "done" or "error"

classVars == <<ctext, cpos, save, values_count, ranges_count, char_sets_count,
               char1, seen_dash, seen_special, ccval, counts, cstate>>

Unwritten == -1
Array(n) == [i \in 1..n |-> Unwritten]
NoCounts == [values |-> 0, ranges |-> 0, char_sets |-> 0]
NoClass == [negated |-> FALSE, values |-> <<>>, ranges |-> <<>>, char_sets |-> <<>>]

(* memcpy into an array; a write past its end would extend it here.        *)
Write(array, at, bytes) ==
  [i \in DOMAIN array \cup (at + 1)..(at + Len(bytes)) |->
     IF i \in (at + 1)..(at + Len(bytes)) THEN bytes[i - at] ELSE array[i]]
Saved(array, at, bytes) == IF save THEN Write(array, at, bytes) ELSE array

StartPass ==
  /\ values_count' = 0 /\ ranges_count' = 0 /\ char_sets_count' = 0
  /\ char1' = <<>> /\ seen_dash' = FALSE /\ seen_special' = FALSE

ClassInit ==
  /\ ctext = <<>> /\ cpos = 1 /\ save = FALSE
  /\ values_count = 0 /\ ranges_count = 0 /\ char_sets_count = 0
  /\ char1 = <<>> /\ seen_dash = FALSE /\ seen_special = FALSE
  /\ ccval = NoClass /\ counts = NoCounts /\ cstate = "idle"

First(text) == IF text # <<>> /\ text[1] = "^" THEN 2 ELSE 1

ClassBegin(text) ==
  /\ ctext' = text /\ cpos' = First(text) /\ save' = FALSE
  /\ ccval' = [NoClass EXCEPT !.negated = First(text) = 2]
  /\ counts' = NoCounts
  /\ cstate' = IF Len(text) < First(text) THEN "error" ELSE "parse"
  /\ StartPass

-----------------------------------------------------------------------------
Parsing == cstate = "parse"
Symbol == IF cpos <= Len(ctext) THEN ctext[cpos] ELSE "end of text"
Bytes(sym) == IF sym \in DOMAIN Literals THEN Literals[sym]
              ELSE IntToUtf8(HexToInt(UnicodeDigits[sym]))

IsDash == Symbol = "-" /\ ~seen_dash
IsCharSymbol ==
  /\ ~IsDash /\ Symbol # "]"
  /\ Symbol \in DOMAIN Literals \cup DOMAIN UnicodeDigits
  /\ Bytes(Symbol) # <<>>

Dash ==
  /\ Parsing /\ IsDash
  /\ seen_dash' = TRUE
  /\ cpos' = cpos + 1
  /\ UNCHANGED <<ctext, save, values_count, ranges_count, char_sets_count, char1,
                 seen_special, ccval, counts, cstate>>

NamedSet ==
  /\ Parsing /\ Symbol \in DOMAIN NamedSets /\ ~seen_dash
  /\ ccval' = [ccval EXCEPT !.char_sets = Saved(@, char_sets_count, <<NamedSets[Symbol]>>)]
  /\ char_sets_count' = char_sets_count + 1
  /\ seen_special' = TRUE
  /\ cpos' = cpos + 1
  /\ UNCHANGED <<ctext, save, values_count, ranges_count, char1, seen_dash, counts, cstate>>

(* strncmp over the bytes of char1, and the end must not be shorter. *)
Ascending(c1, c2) ==
  /\ Len(c1) <= Len(c2)
  /\ LET c == SubSeq(c2, 1, Len(c1)) IN c # c1 /\ LexLeq(c1, c)

EndAllowed == save \/ (~seen_special /\ Ascending(char1, Bytes(Symbol)))

(* Mutant: the first pass counts one end of the range. *)
RangeCountedOnce ==
  /\ Parsing /\ IsCharSymbol /\ seen_dash /\ char1 # <<>> /\ EndAllowed
  /\ ccval' = [ccval EXCEPT !.ranges = Saved(@, ranges_count, char1 \o Bytes(Symbol))]
  /\ ranges_count' = ranges_count + Len(char1) + (IF save THEN Len(Bytes(Symbol)) ELSE 0)
  /\ seen_dash' = FALSE /\ char1' = <<>> /\ seen_special' = FALSE
  /\ cpos' = cpos + 1
  /\ UNCHANGED <<ctext, save, values_count, char_sets_count, counts, cstate>>

RangeValue ==
  /\ Parsing /\ IsCharSymbol /\ seen_dash /\ char1 # <<>> /\ EndAllowed
  /\ ccval' = [ccval EXCEPT !.ranges = Saved(@, ranges_count, char1 \o Bytes(Symbol))]
  /\ ranges_count' = ranges_count + Len(char1) + Len(Bytes(Symbol))
  /\ seen_dash' = FALSE /\ char1' = <<>> /\ seen_special' = FALSE
  /\ cpos' = cpos + 1
  /\ UNCHANGED <<ctext, save, values_count, char_sets_count, counts, cstate>>

(* A character may be the start of a range: it is kept until the next one  *)
(* is seen.                                                                *)
CharValue ==
  /\ Parsing /\ IsCharSymbol /\ ~seen_dash
  /\ ccval' = [ccval EXCEPT !.values = Saved(@, values_count, char1)]
  /\ values_count' = values_count + Len(char1)
  /\ char1' = Bytes(Symbol) /\ seen_special' = FALSE
  /\ cpos' = cpos + 1
  /\ UNCHANGED <<ctext, save, ranges_count, char_sets_count, seen_dash, counts, cstate>>

(* Mutant: a dash at the end is dropped. *)
LastCharacter == char1
Trailing == char1 \o (IF seen_dash THEN <<45>> ELSE <<>>)

(* The ] of the first pass: the arrays are allocated by its counts. *)
Counted == [values |-> values_count + Len(Trailing), ranges |-> ranges_count,
            char_sets |-> char_sets_count]

Allocate ==
  /\ Parsing /\ Symbol = "]" /\ ~save
  /\ counts' = Counted
  /\ ccval' = [ccval EXCEPT !.values = Array(Counted.values),
                            !.ranges = Array(Counted.ranges),
                            !.char_sets = Array(Counted.char_sets)]
  /\ save' = TRUE
  /\ cpos' = First(ctext)
  /\ StartPass
  /\ UNCHANGED <<ctext, cstate>>

(* Mutant: the last character is counted and not written. *)
ClassDoneWithoutLast ==
  /\ Parsing /\ Symbol = "]" /\ save
  /\ values_count' = values_count + Len(Trailing)
  /\ counts' = Counted
  /\ cstate' = "done"
  /\ UNCHANGED <<ctext, cpos, save, ranges_count, char_sets_count, char1, seen_dash,
                 seen_special, ccval>>

(* The ] of the second pass. *)
ClassDone ==
  /\ Parsing /\ Symbol = "]" /\ save
  /\ ccval' = [ccval EXCEPT !.values = Write(@, values_count, Trailing)]
  /\ values_count' = values_count + Len(Trailing)
  /\ counts' = Counted
  /\ cstate' = "done"
  /\ UNCHANGED <<ctext, cpos, save, ranges_count, char_sets_count, char1, seen_dash, seen_special>>

ClassRejected ==
  \/ Symbol = "end of text"
  \/ Symbol \in DOMAIN NamedSets /\ seen_dash
  \/ IsCharSymbol /\ seen_dash /\ (char1 = <<>> \/ ~EndAllowed)
  \/ ~IsCharSymbol /\ ~IsDash /\ Symbol \notin {"]", "end of text"} \cup DOMAIN NamedSets

ClassError ==
  /\ Parsing /\ ClassRejected
  /\ cstate' = "error"
  /\ UNCHANGED <<ctext, cpos, save, values_count, ranges_count, char_sets_count,
                 char1, seen_dash, seen_special, ccval, counts>>

(* The caller has the class, or gives up; another [ may come. *)
ClassEnd ==
  /\ cstate \in {"done", "error"}
  /\ ctext' = <<>> /\ cpos' = 1 /\ save' = FALSE
  /\ ccval' = NoClass /\ counts' = NoCounts /\ cstate' = "idle"
  /\ StartPass

ClassTurn == Dash \/ NamedSet \/ RangeValue \/ CharValue \/ Allocate \/ ClassDone \/ ClassError
ClassNext ==
  \/ cstate = "idle" /\ \E text \in ClassTexts : ClassBegin(text)
  \/ ClassTurn
  \/ ClassEnd

-----------------------------------------------------------------------------
ClassTypeOK ==
  /\ cstate \in {"idle", "parse", "done", "error"}
  /\ ctext \in ClassTexts \cup {<<>>} /\ cpos \in 1..(Len(ctext) + 1) /\ save \in BOOLEAN
  /\ {values_count, ranges_count, char_sets_count} \subseteq Nat
  /\ char1 \in Seq(Byte) /\ Len(char1) <= 4
  /\ seen_dash \in BOOLEAN /\ seen_special \in BOOLEAN
  /\ cstate = "done" => ccval \in CharClass

(* The second pass writes each element of the arrays that the first pass   *)
(* counted, in order, and no other, and rejects nothing: its result is not *)
(* looked at (rx_char_class_init).                                         *)
SecondPassFits ==
  save =>
    /\ cstate # "error"
    /\ \A p \in {<<ccval.values, values_count, counts.values>>,
                 <<ccval.ranges, ranges_count, counts.ranges>>,
                 <<ccval.char_sets, char_sets_count, counts.char_sets>>} :
         /\ Len(p[1]) = p[3]
         /\ p[2] <= p[3] /\ (cstate = "done" => p[2] = p[3])
         /\ \A i \in DOMAIN p[1] : i <= p[2] <=> p[1][i] # Unwritten
=============================================================================

------------------------------- MODULE Chars -------------------------------
(***************************************************************************)
(* What rx_match asks of the bytes of a string: how many bytes the         *)
(* character at a position has, whether a character belongs to a set or to *)
(* a character class, and whether an assertion holds at a position.        *)
(*                                                                         *)
(* The C code counts positions from 0: byte number p of s is s[p + 1].     *)
(***************************************************************************)
EXTENDS Nfa

NEWLINE == 10
SPACE == {32, 9, 10, 13}
DIGIT == 48..57
UPPER == 65..90
LOWER == 97..122
WORD == DIGIT \cup UPPER \cup LOWER \cup {95}

(* rx_utf8_char_size: the size the first byte announces, or 1 when that    *)
(* many bytes are not there or are not all continuation bytes.             *)
Announced(b) ==
  IF b \in 192..223 THEN 2
  ELSE IF b \in 224..239 THEN 3
  ELSE IF b \in 240..247 THEN 4
  ELSE 1

Utf8CharSize(s, p) ==
  LET size == Announced(s[p + 1]) IN
  IF p + size <= Len(s) /\ \A i \in 2..size : s[p + i] \in 128..191
  THEN size ELSE 1

(* flip_case changes only ASCII letters and says whether it did. *)
HasCase(b) == b \in UPPER \cup LOWER
FlipCase(b) == IF b \in UPPER THEN b + 32 ELSE IF b \in LOWER THEN b - 32 ELSE b

(* The test of a CHAR_SET node, and of a set named inside brackets.  The   *)
(* code of a class does not know CS_ANY, which the parser never puts there.*)
InCharSet(cs, b) ==
  \/ cs = CS_ANY
  \/ cs = CS_NOTNL /\ b # NEWLINE
  \/ cs = CS_DIGIT /\ b \in DIGIT
  \/ cs = CS_NOTDIGIT /\ b \notin DIGIT
  \/ cs = CS_WORD /\ b \in WORD
  \/ cs = CS_NOTWORD /\ b \notin WORD
  \/ cs = CS_SPACE /\ b \in SPACE
  \/ cs = CS_NOTSPACE /\ b \notin SPACE

(* The flat bytes of a class are cut into characters as they are read.     *)
Characters[bytes \in Seq(Byte)] ==
  IF bytes = <<>> THEN <<>>
  ELSE LET n == Utf8CharSize(bytes, 0) IN
       <<SubSeq(bytes, 1, n)>> \o Characters[SubSeq(bytes, n + 1, Len(bytes))]

(* strncmp of two characters of the same size. *)
LexLeq(a, b) ==
  \/ a = b
  \/ \E i \in 1..Len(a) : a[i] < b[i] /\ \A j \in 1..(i - 1) : a[j] = b[j]

AtLeast(test, c) == Len(test) > Len(c) \/ (Len(test) = Len(c) /\ LexLeq(c, test))
AtMost(test, c) == Len(test) < Len(c) \/ (Len(test) = Len(c) /\ LexLeq(test, c))

(* The ends of the ranges come in pairs; an end with no partner is paired  *)
(* with the zero byte that follows the array.                              *)
InRanges(bytes, test) ==
  LET ends == Characters[bytes] \o <<<<0>>>> IN
  \E k \in 1..(Len(ends) \div 2) :
    AtLeast(test, ends[2 * k - 1]) /\ AtMost(test, ends[2 * k])

MatchCharClass(cc, test) ==
  LET chars == Characters[cc.values]
      matched == \/ \E i \in DOMAIN chars : chars[i] = test
                 \/ InRanges(cc.ranges, test)
                 \/ \E i \in DOMAIN cc.char_sets : InCharSet(cc.char_sets[i], test[1])
  IN  matched # cc.negated

IsWordAt(s, p) == p \in 0..(Len(s) - 1) /\ s[p + 1] \in WORD

(* rx_match_assertion; start_pos is the position the attempt began at. *)
MatchAssertion(kind, start_pos, s, p) ==
  \/ kind = ASSERT_SOS /\ p = 0
  \/ kind = ASSERT_SOL /\ (p > 0 => s[p] = NEWLINE)
  \/ kind = ASSERT_EOS /\ p = Len(s)
  \/ kind = ASSERT_EOL /\ (p < Len(s) => s[p + 1] \in {10, 13})
  \/ kind = ASSERT_SOP /\ p = start_pos
  \/ kind = ASSERT_SOW /\ ~IsWordAt(s, p - 1) /\ IsWordAt(s, p)
  \/ kind = ASSERT_EOW /\ IsWordAt(s, p - 1) /\ ~IsWordAt(s, p)
=============================================================================

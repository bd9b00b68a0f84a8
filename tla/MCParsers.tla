----------------------------- MODULE MCParsers -----------------------------
(***************************************************************************)
(* ClassParser and QuantifierParser on every text of a few symbols.        *)
(***************************************************************************)
EXTENDS Parsers, ClassMeaning

CONSTANTS ClassLen, QuantLen

(* é = c3 a9, ü = c3 bc; ff is no character in any encoding. *)
MCLiterals ==
  [sym \in {"a", "c", "-", "^", "+", "é", "ü", "\\xff"} |->
     CASE sym = "a" -> <<97>> [] sym = "c" -> <<99>> [] sym = "-" -> <<45>>
       [] sym = "^" -> <<94>> [] sym = "+" -> <<43>>
       [] sym = "é" -> <<195, 169>> [] sym = "ü" -> <<195, 188>>
       [] sym = "\\xff" -> <<255>>]
MCUnicode == [sym \in {"\\u0062", "\\u2603", "\\U0001f600", "\\U00200000"} |->
                CASE sym = "\\u0062" -> <<0, 0, 6, 2>>
                  [] sym = "\\u2603" -> <<2, 6, 0, 3>>
                  [] sym = "\\U0001f600" -> <<0, 0, 0, 1, 15, 6, 0, 0>>
                  [] sym = "\\U00200000" -> <<0, 0, 2, 0, 0, 0, 0, 0>>]
TwoByteUnicode == [sym \in {"\\u00e9"} |-> <<0, 0, 14, 9>>]
MCSets == [sym \in {"\\d", "\\S"} |-> IF sym = "\\d" THEN CS_DIGIT ELSE CS_NOTSPACE]

MCTests == {<<b>> : b \in {10, 43, 44, 45, 49, 94, 97, 98, 99, 100, 127, 169, 195, 255}}
           \cup {<<195, b>> : b \in {168, 169, 170, 187, 188}}
           \cup {<<226, 152, b>> : b \in {130, 131, 132}}
           \cup {<<240, 159, 152, 128>>, <<240, 159, 152, 129>>}

ClassSymbols == DOMAIN MCLiterals \cup DOMAIN MCUnicode \cup DOMAIN MCSets \cup {"]", "bad"}
MCClassTexts ==
  LET Upto(n) == UNION {[1..k -> ClassSymbols] : k \in 0..n} IN
  Upto(ClassLen) \cup {<<"a", "-">> \o t : t \in Upto(ClassLen - 1)}
  \cup {t \o <<"]">> : t \in {u \in Upto(ClassLen) : "]" \notin {u[i] : i \in DOMAIN u}}}
  \cup {<<"^", "a", "-", "c", s, t, "-", "]">> : s, t \in ClassSymbols}
  \cup {<<s, "-", t, u, "]">> : s, t, u \in ClassSymbols}

TwoByteTexts == {<<"\\u00e9", "]">>}

MCDigits == [sym \in {"0", "1", "2", "8"} |->
               CASE sym = "0" -> 0 [] sym = "1" -> 1 [] sym = "2" -> 2 [] sym = "8" -> 8]
MCQuantTexts == UNION {[1..k -> {"1", "2", "8", ",", "}", "?", "x"}] : k \in 0..QuantLen}
                \cup {<<"1", ",", "1", "2", "8", "}">>, <<"1", "2", "8", ",", "}", "?">>,
                      <<"2", ",", "0", "}", "?">>, <<"0", ",", "1", "2", "}">>}
=============================================================================

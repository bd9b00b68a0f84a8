---------------------------- MODULE ClassMeaning ----------------------------
(***************************************************************************)
(* What a character class means, read off its text without the two passes  *)
(* of the parser, and that the class which ClassParser makes means it.     *)
(* The meaning is recursive, so it is apart from the parser, which is      *)
(* proved about.                                                           *)
(***************************************************************************)
EXTENDS ClassParser

(* What a class means, read off its text: a list of sets, of characters,   *)
(* of ranges c-d, and at the end a dash.                                   *)
Meant(sym) == IF sym \in DOMAIN Literals THEN [bytes |-> Literals[sym], point |-> -1]
              ELSE [bytes |-> <<>>, point |-> HexToInt(UnicodeDigits[sym])]
Is(test, sym) == IF Meant(sym).point = -1 THEN test = Meant(sym).bytes
                 ELSE IsCharacter(test) /\ CodePoint(test) = Meant(sym).point

(* Characters are ordered by code point; a byte that is no character is in *)
(* a range of bytes only.                                                  *)
Point(sym) == IF Meant(sym).point = -1 THEN CodePoint(Meant(sym).bytes) ELSE Meant(sym).point
IsByte(sym) == sym \in DOMAIN Literals /\ ~IsCharacter(Literals[sym])
Between(test, c, d) ==
  IF IsByte(c) \/ IsByte(d) \/ ~IsCharacter(test)
  THEN Len(Bytes(c)) = 1 /\ Len(Bytes(d)) = 1 /\ Len(test) = 1
       /\ Bytes(c)[1] <= test[1] /\ test[1] <= Bytes(d)[1]
  ELSE Point(c) <= CodePoint(test) /\ CodePoint(test) <= Point(d)

Character(sym) ==
  \/ sym \in DOMAIN Literals
  \/ sym \in DOMAIN UnicodeDigits /\ HexToInt(UnicodeDigits[sym]) < 2 ^ 21

RECURSIVE Means(_, _), Valid(_)
Means(t, test) ==
  CASE t[1] = "]" -> FALSE
    [] t[1] \in DOMAIN NamedSets -> InCharSet(NamedSets[t[1]], test[1]) \/ Means(Tail(t), test)
    [] t[1] = "-" -> test = <<45>>
    [] t[1] \notin DOMAIN NamedSets \cup {"]", "-"} ->
         IF t[2] = "-" /\ t[3] # "]"
         THEN Between(test, t[1], t[3]) \/ Means(SubSeq(t, 4, Len(t)), test)
         ELSE Is(test, t[1]) \/ Means(Tail(t), test)

(* Which texts are classes: a dash stands between two characters, of which *)
(* the first is the lower one, or at the end.                              *)
Below(c, d) ==
  IF IsByte(c) \/ IsByte(d)
  THEN Len(Bytes(c)) = 1 /\ Len(Bytes(d)) = 1 /\ Bytes(c)[1] < Bytes(d)[1]
  ELSE Point(c) < Point(d)

Valid(t) ==
  /\ t # <<>>
  /\ t[1] # "]" =>
       \/ t[1] \in DOMAIN NamedSets /\ Valid(Tail(t))
       \/ t[1] = "-" /\ Len(t) >= 2 /\ t[2] = "]"
       \/ /\ Character(t[1]) /\ t[1] # "-"
          /\ IF Len(t) >= 3 /\ t[2] = "-" /\ t[3] # "]"
             THEN Character(t[3]) /\ Below(t[1], t[3]) /\ Valid(SubSeq(t, 4, Len(t)))
             ELSE Valid(Tail(t))

Body == SubSeq(ctext, First(ctext), Len(ctext))

(* A range whose ends have different sizes takes in every byte that is no  *)
(* character and not below its start; what is said of ranges in the        *)
(* comment above rx_char_class_init holds of the others.                   *)
Widening ==
  \E i \in 2..(Len(ctext) - 1) :
    /\ ctext[i] = "-" /\ Character(ctext[i - 1]) /\ Character(ctext[i + 1])
    /\ Len(Bytes(ctext[i - 1])) # Len(Bytes(ctext[i + 1]))

(* A text is accepted if it is a class, and only then, and the class       *)
(* matches the characters its text names and no others: through the two    *)
(* passes, and through rx_match_char_class, which cuts the flat bytes into *)
(* characters again.                                                       *)
ClassMeans ==
  /\ cstate = "error" => ~Valid(Body)
  /\ cstate = "done" =>
       /\ Valid(Body)
       /\ \A test \in ClassTests :
            IsCharacter(test) \/ ~Widening =>
              (MatchCharClass(ccval, test) <=> (Means(Body, test) # ccval.negated))
=============================================================================

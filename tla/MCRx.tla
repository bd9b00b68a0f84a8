-------------------------------- MODULE MCRx --------------------------------
(***************************************************************************)
(* Rx on expressions over a and b: quantified atoms, captures and groups,  *)
(* put in sequence, in alternatives and inside one another.                *)
(***************************************************************************)
EXTENDS Rx, TLC

MCAtoms == ("a" :> <<[type |-> "TAKE", u |-> 97]>>) @@ ("b" :> <<[type |-> "TAKE", u |-> 98]>>)
  @@ ("." :> <<[type |-> "CHAR_SET", u |-> CS_ANY]>>)
MCEscapes == ("\\<" :> ASSERT_SOW) @@ ("\\>" :> ASSERT_EOW)
MCCounts == ("{2}" :> [min |-> 2, max |-> 2]) @@ ("{0,2}" :> [min |-> 0, max |-> 2])
  @@ ("{1,3}" :> [min |-> 1, max |-> 3]) @@ ("{2,}" :> [min |-> 2, max |-> -1])
  @@ ("{0,}" :> [min |-> 0, max |-> -1])

A == Lit("a", 97)
B == Lit("b", 98)

Limits == ("*" :> <<0, -1>>) @@ ("+" :> <<1, -1>>) @@ ("?" :> <<0, 1>>)
  @@ [q \in DOMAIN MCCounts |-> <<MCCounts[q].min, MCCounts[q].max>>]
Quant(x, q, greedy) == Rep(x, q, Limits[q][1], Limits[q][2], greedy)

(* None of the bodies can match the empty string. *)
Bodies == {A, AnyByte, Capture(Alt(A, Cat(A, B))), Group(Alt(B, A)), Capture(Cat(Capture(A), B))}
Repeated == {Quant(x, q, g) : x \in Bodies, q \in DOMAIN Limits, g \in BOOLEAN}
InGroup == {Capture(Alt(x, B)) : x \in Bodies}
           \cup {Group(Cat(B, Quant(A, q, TRUE))) : q \in DOMAIN Limits}

FollowedBy == {Cat(x, B) : x \in Repeated} \cup {Cat(x, Capture(Alt(B, A))) : x \in Repeated}
Alternatives == {Alt(B, x) : x \in Repeated}
Nested == {Quant(x, q, g) : x \in InGroup, q \in {"*", "{2}", "{1,3}"}, g \in BOOLEAN}
Pairs == {Cat(Quant(x, q, g), Quant(y, r, h)) :
            x \in {Capture(Alt(A, Cat(A, B))), A}, y \in {AnyByte, Capture(B)},
            q, r \in {"*", "+", "?", "{0,2}"}, g, h \in BOOLEAN}
Anchored == {Cat(Check(<<"^">>, ASSERT_SOS), Cat(A, Check(<<"$">>, ASSERT_EOS))),
             Cat(Check(<<"\\<">>, ASSERT_SOW), Cat(AnyByte, Check(<<"\\>">>, ASSERT_EOW)))}

MCExpressions == FollowedBy \cup Alternatives \cup Nested \cup Pairs \cup Anchored
NoClasses == <<>>
MCSubjects == {<<97, 98, 97>>, <<98, 97, 97, 98>>}

(* A first alternative that begins with a + quantified atom. *)
PlusExpressions == {Alt(Quant(A, "+", TRUE), B)}
=============================================================================

-------------------------------- MODULE Utf8 --------------------------------
(***************************************************************************)
(* Code points written as \u and \U escapes: rx_hex_to_int and             *)
(* rx_int_to_utf8 (rx.c), and the encoding they are meant to give.         *)
(***************************************************************************)
EXTENDS Chars, SequencesExt

(* rx_hex_to_int: the digits are their values; another character is        *)
(* rejected before this.                                                   *)
HexToInt(digits) == FoldLeft(LAMBDA n, d : 16 * n + d, 0, digits)

Continuation(n) == 128 + (n % 64)

(* rx_int_to_utf8; <<>> stands for its 0.  Of the upper bits of two bytes  *)
(* it keeps one, and the first byte is made like a continuation.           *)
IntToUtf8(n) ==
  IF n < 128 THEN <<n>>
  ELSE IF n < 2048 THEN <<128 + ((n % 128) \div 64), Continuation(n)>>
  ELSE IF n < 65536 THEN <<224 + (n \div 4096), Continuation(n \div 64), Continuation(n)>>
  ELSE IF n < 2097152
       THEN <<240 + (n \div 262144), Continuation(n \div 4096), Continuation(n \div 64), Continuation(n)>>
  ELSE <<>>

-----------------------------------------------------------------------------
(* The code point of a character: what UTF-8 defines, read backwards.      *)
IsCharacter(bytes) == bytes # <<>> /\ Utf8CharSize(bytes, 0) = Len(bytes)
                      /\ (Len(bytes) = 1 => bytes[1] < 128)
CodePoint(bytes) ==
  LET lead == IF Len(bytes) = 1 THEN bytes[1] ELSE bytes[1] % (2 ^ (7 - Len(bytes)))
  IN  FoldLeft(LAMBDA n, b : 64 * n + (b % 64), lead, Tail(bytes))
=============================================================================

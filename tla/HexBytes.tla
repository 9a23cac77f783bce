------------------------------- MODULE HexBytes -------------------------------
(***************************************************************************)
(* What decode_hex_in_place makes of a text, digit by digit and as a whole *)
(* (c/glue.h:488-526, copied in c/native_args_assembler.c:8-46).           *)
(* HexDecode has the loop that does it; its property DecodesAtOnce says    *)
(* that the loop makes just this of every text.                            *)
(***************************************************************************)
EXTENDS Integers, Sequences

NotHex == -1

\* to_int, the value it stores; NotHex stands for its return code 2.  The
\* last range stores the constant 'A' + 10, whatever the digit is.
to_int(ch) ==
  CASE ch \in 48 .. 57  -> ch - 48
    [] ch \in 97 .. 102 -> ch - 97 + 10
    [] ch \in 65 .. 70  -> 65 + 10
    [] OTHER            -> NotHex

Bit(x, k) == (x \div k) % 2
OrNibble(x, y) ==
  LET Or(k) == IF Bit(x, k) = 1 \/ Bit(y, k) = 1 THEN k ELSE 0
  IN  Or(1) + Or(2) + Or(4) + Or(8)

\* Faulty: the two nibbles change places.
PackedSwapped(higher, lower) == 16 * (lower % 16) + (higher % 16)

\* (higher << 4) | lower, stored in a char.
Packed(higher, lower) ==
  16 * OrNibble(higher % 16, lower \div 16) + (lower % 16)

\* It returns 0: to_int takes every character, and none is left over.
Decodes(s) == Len(s) % 2 = 0 /\ \A i \in 1 .. Len(s) : to_int(s[i]) # NotHex

\* The bytes it leaves then.
Decoded(s) ==
  [ i \in 1 .. Len(s) \div 2 |-> Packed(to_int(s[2*i - 1]), to_int(s[2*i])) ]
==============================================================================

----------------------------- MODULE MCHexDecode -----------------------------
(***************************************************************************)
(* Instances of HexDecode for TLC: every text over the characters at the   *)
(* two ends of each range of to_int and just outside them.                 *)
(***************************************************************************)
EXTENDS HexDecode

CONSTANT MaxLen       \* the longest argument

UpTo(chars) == UNION { [ 1 .. n -> chars ] : n \in 0 .. MaxLen }

Chars == { 47, 48, 57, 58, 96, 97, 102, 103, 64, 65, 70, 71 }
AllTexts == UpTo(Chars)

==============================================================================

----------------------------- MODULE Hexadecimal -----------------------------
(***************************************************************************)
(* What hexadecimal text means, whatever decodes it: pairs of digits, each *)
(* pair the number of one byte.  A text is a sequence of character codes.  *)
(***************************************************************************)
EXTENDS Integers, Sequences

Decimal == 48 .. 57   \* '0'..'9'
Lower == 97 .. 102    \* 'a'..'f'
Upper == 65 .. 70     \* 'A'..'F'
HexDigits == Decimal \union Lower \union Upper

\* The number a hexadecimal digit stands for.
HexValue(ch) ==
  CASE ch \in Decimal -> ch - 48
    [] ch \in Lower   -> ch - 97 + 10
    [] ch \in Upper   -> ch - 65 + 10

IsHex(s) == Len(s) % 2 = 0 /\ \A i \in 1 .. Len(s) : s[i] \in HexDigits

\* No digit of it is an upper-case letter.
IsPlain(s) == \A i \in 1 .. Len(s) : s[i] \notin Upper

\* The bytes a text of pairs of digits stands for.
Denoted(s) ==
  [ i \in 1 .. Len(s) \div 2 |-> 16 * HexValue(s[2*i - 1]) + HexValue(s[2*i]) ]
==============================================================================

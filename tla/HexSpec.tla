------------------------------- MODULE HexSpec -------------------------------
(***************************************************************************)
(* What decoding a hexadecimal argument promises, independent of how       *)
(* c/glue.h does it: the whole text is judged at once, on a copy that      *)
(* nothing overwrites.  Either every pair of characters is a pair of       *)
(* hexadecimal digits and the result is the bytes they denote, or the      *)
(* leftmost pair that is not decides the error: 3 when the last character  *)
(* has no partner, 2 when one of the two is not a digit.                   *)
(***************************************************************************)
EXTENDS Hexadecimal

CONSTANT Strings      \* the argument texts, as sequences of character codes

VARIABLES
  text,               \* the argument
  status,             \* Pending, or the code returned
  bytes               \* the decoded bytes, empty unless status = 0

Pending == -1
OK == 0
NotADigit == 2
OddLength == 3

\* Pairs are numbered from 0; the last one may have a single character.
Pairs(s) == { k \in 0 .. Len(s) : 2*k < Len(s) }
Whole(s, k) == 2*k + 1 < Len(s)
Good(s, k) == Whole(s, k) /\ s[2*k + 1] \in HexDigits /\ s[2*k + 2] \in HexDigits
Fault(s, k) == IF Whole(s, k) THEN NotADigit ELSE OddLength

vars == << text, status, bytes >>

Init == text \in Strings /\ status = Pending /\ bytes = << >>

Succeed ==
  /\ status = Pending
  /\ \A k \in Pairs(text) : Good(text, k)
  /\ status' = OK
  /\ bytes' = Denoted(text)
  /\ UNCHANGED text

Fail ==
  /\ status = Pending
  /\ \E k \in Pairs(text) :
       /\ ~ Good(text, k)
       /\ \A j \in 0 .. k - 1 : Good(text, j)
       /\ status' = Fault(text, k)
  /\ UNCHANGED << text, bytes >>

Next == Succeed \/ Fail
Spec == Init /\ [][Next]_vars
==============================================================================

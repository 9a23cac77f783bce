--------------------------- MODULE HexDecodeProofs ---------------------------
(***************************************************************************)
(* Theorems about HexDecode, for every set of argument texts.  The         *)
(* invariant that carries them says that the write cursor is at half the   *)
(* read cursor, that the pairs behind it were all good and are now the     *)
(* bytes to_int and the shift make of them, and that the buffer is still   *)
(* the argument from the write cursor on.                                  *)
(***************************************************************************)
EXTENDS HexDecode, SequenceTheorems, TLAPS

TextOK == text \in Seq(1 .. 255)

Behind == /\ src = 2*dst
          /\ src <= Len(text)
          /\ PrefixOK(dst)

PairByte(k) == Packed(to_int(text[2*k + 1]), to_int(text[2*k + 2]))
Stored == \A k \in 0 .. dst - 1 : buf[k] = PairByte(k)

IInv == TypeOK /\ TextOK /\ Behind /\ Stored /\ UnreadIntact /\ CodeJustified
        /\ DecodesAtOnce /\ (ret = 0 => len = dst)

------------------------------------------------------------------------------
(* The operators. *)

\* to_int accepts exactly the hexadecimal digits (c/glue.h:488).
LEMMA ToIntAccepts ==
  ASSUME NEW ch \in 0 .. 255
  PROVE  /\ to_int(ch) \in -1 .. 15 \union {75}
         /\ to_int(ch) # NotHex <=> ch \in HS!HexDigits
  BY DEF to_int, NotHex, HS!HexDigits, HS!Decimal, HS!Lower, HS!Upper

\* On two digits' values below 16 the shift and the or put them side by side.
LEMMA PackedDigits ==
  ASSUME NEW h \in 0 .. 15, NEW l \in 0 .. 15
  PROVE  Packed(h, l) = 16*h + l
<1>1. h % 16 = h /\ l \div 16 = 0 /\ l % 16 = l
  OBVIOUS
<1>2. OrNibble(h, 0) = h
  <2>1. h \in {0, 1, 2, 3, 4, 5, 6, 7, 8, 9, 10, 11, 12, 13, 14, 15}
    OBVIOUS
  <2>2. QED
    BY <2>1 DEF OrNibble, Bit
<1>3. QED
  BY <1>1, <1>2 DEF Packed

\* What is stored is a byte whatever to_int produced.
LEMMA PackedByte ==
  ASSUME NEW h \in Nat, NEW l \in Nat
  PROVE  Packed(h, l) \in 0 .. 255
<1>1. \A x, y \in Nat : OrNibble(x, y) \in 0 .. 15
  BY DEF OrNibble, Bit
<1>2. h % 16 \in Nat /\ l \div 16 \in Nat /\ l % 16 \in 0 .. 15
  OBVIOUS
<1>3. OrNibble(h % 16, l \div 16) \in 0 .. 15
  BY <1>1, <1>2
<1>4. QED
  BY <1>2, <1>3 DEF Packed

\* The buffer of a fresh argument: its characters, then the terminator.
LEMMA CStringShape ==
  ASSUME NEW s \in Seq(1 .. 255)
  PROVE  /\ CString(s) \in [ 0 .. Len(s) -> 0 .. 255 ]
         /\ \A i \in 0 .. Len(s) - 1 : CString(s)[i] = s[i + 1] /\ CString(s)[i] # 0
         /\ CString(s)[Len(s)] = 0
<1>1. Len(s) \in Nat /\ \A i \in 1 .. Len(s) : s[i] \in 1 .. 255
  BY LenProperties, ElementOfSeq
<1>2. \A i \in 0 .. Len(s) - 1 : s[i + 1] \in 1 .. 255
  BY <1>1
<1>3. CString(s) \in [ 0 .. Len(s) -> 0 .. 255 ]
  <2>1. \A i \in 0 .. Len(s) : (IF i < Len(s) THEN s[i + 1] ELSE 0) \in 0 .. 255
    <3> TAKE i \in 0 .. Len(s)
    <3>1. CASE i < Len(s)
      <4>1. i \in 0 .. Len(s) - 1
        BY <1>1, <3>1
      <4>2. QED
        BY <1>2, <3>1, <4>1
    <3>2. CASE ~ (i < Len(s))
      BY <3>2
    <3>3. QED
      BY <3>1, <3>2
  <2>2. QED
    BY <2>1 DEF CString
<1>4. \A i \in 0 .. Len(s) - 1 : CString(s)[i] = s[i + 1] /\ CString(s)[i] # 0
  <2> TAKE i \in 0 .. Len(s) - 1
  <2>1. i \in 0 .. Len(s) /\ i < Len(s)
    BY <1>1
  <2>2. CString(s)[i] = s[i + 1]
    BY <2>1 DEF CString
  <2>3. s[i + 1] \in 1 .. 255
    BY <1>2
  <2>4. \A x \in 1 .. 255 : x # 0
    OBVIOUS
  <2>5. QED
    BY <2>2, <2>3, <2>4
<1>5. CString(s)[Len(s)] = 0
  BY <1>1 DEF CString
<1>6. QED
  BY <1>3, <1>4, <1>5

\* Where the loop looks, the buffer is still the argument.
LEMMA LookAhead ==
  ASSUME IInv, ret = Running
  PROVE  /\ Len(text) \in Nat
         /\ src \in 0 .. Len(text)
         /\ buf[src] = CString(text)[src]
         /\ buf[src] # 0 <=> src < Len(text)
         /\ src < Len(text) => /\ buf[src + 1] = CString(text)[src + 1]
                               /\ (buf[src + 1] # 0 <=> src + 1 < Len(text))
<1> USE DEF IInv, Behind, TypeOK, TextOK, UnreadIntact
<1>1. Len(text) \in Nat /\ DOMAIN buf = 0 .. Len(text)
  OBVIOUS
<1>2. src \in 0 .. Len(text) /\ src >= dst
  BY <1>1
<1>3. buf[src] = CString(text)[src]
  BY <1>1, <1>2
<1>4. buf[src] # 0 <=> src < Len(text)
  BY <1>1, <1>2, <1>3, CStringShape
<1>5. src < Len(text) => /\ buf[src + 1] = CString(text)[src + 1]
                         /\ (buf[src + 1] # 0 <=> src + 1 < Len(text))
  BY <1>1, <1>2, CStringShape
<1>6. QED
  BY <1>1, <1>2, <1>3, <1>4, <1>5

------------------------------------------------------------------------------
(* The invariant. *)

LEMMA InitIInv == Init => IInv
<1> SUFFICES ASSUME Init PROVE IInv
  OBVIOUS
<1>1. TextOK
  BY StringsAssumption DEF Init, TextOK
<1>2. TypeOK
  BY <1>1, CStringShape DEF Init, TypeOK, TextOK, Running, Returns
<1>3. Behind /\ Stored /\ UnreadIntact /\ CodeJustified /\ DecodesAtOnce
  BY <1>1 DEF Init, Behind, Stored, PrefixOK, UnreadIntact, CodeJustified, DecodesAtOnce,
              Running, TextOK
<1>4. QED
  BY <1>1, <1>2, <1>3 DEF IInv, Init, Running

\* The pair under the cursor is good exactly when to_int accepts both.
LEMMA PairUnderCursor ==
  ASSUME IInv, ret = Running, buf[src] # 0, buf[src + 1] # 0
  PROVE  /\ HS!Whole(text, dst)
         /\ text[2*dst + 1] = buf[src] /\ text[2*dst + 2] = buf[src + 1]
         /\ buf[src] \in 0 .. 255 /\ buf[src + 1] \in 0 .. 255
         /\ HS!Good(text, dst) <=> /\ to_int(buf[src]) # NotHex
                                   /\ to_int(buf[src + 1]) # NotHex
<1>1. src = 2*dst /\ src + 1 < Len(text) /\ Len(text) \in Nat /\ src \in Nat /\ dst \in Nat
  BY LookAhead DEF IInv, Behind, TypeOK
<1>2. buf[src] = text[2*dst + 1] /\ buf[src + 1] = text[2*dst + 2]
  BY <1>1, LookAhead, CStringShape DEF IInv, TextOK
<1>3. buf[src] \in 0 .. 255 /\ buf[src + 1] \in 0 .. 255
  <2>1. src \in 0 .. Len(text) /\ src + 1 \in 0 .. Len(text)
    BY <1>1
  <2>2. buf \in [ 0 .. Len(text) -> 0 .. 255 ]
    BY DEF IInv, TypeOK
  <2>3. QED
    BY <2>1, <2>2
<1>4. HS!Whole(text, dst)
  BY <1>1 DEF HS!Whole
<1>5. QED
  BY <1>2, <1>3, <1>4, ToIntAccepts DEF HS!Good

\* A text of good pairs only is decoded.
LEMMA AllGoodDecodes ==
  ASSUME NEW s \in Seq(1 .. 255), NEW n \in Nat, Len(s) = 2*n,
         \A k \in 0 .. n - 1 : HS!Good(s, k)
  PROVE  Decodes(s)
<1>1. Len(s) % 2 = 0
  OBVIOUS
<1>2. ASSUME NEW i \in 1 .. Len(s)
      PROVE  s[i] \in HS!HexDigits
  <2>1. CASE i % 2 = 1
    <3>1. (i - 1) \div 2 \in 0 .. n - 1 /\ 2 * ((i - 1) \div 2) + 1 = i
      BY <2>1
    <3>2. QED
      BY <3>1 DEF HS!Good
  <2>2. CASE i % 2 = 0
    <3>1. i \div 2 - 1 \in 0 .. n - 1 /\ 2 * (i \div 2 - 1) + 2 = i
      BY <2>2
    <3>2. QED
      BY <3>1 DEF HS!Good
  <2>3. QED
    BY <2>1, <2>2
<1>3. ASSUME NEW i \in 1 .. Len(s)
      PROVE  to_int(s[i]) # NotHex
  <2>1. s[i] \in 1 .. 255
    BY ElementOfSeq
  <2>2. s[i] \in 0 .. 255
    BY <2>1
  <2>3. s[i] \in HS!HexDigits
    BY <1>2
  <2>4. QED
    BY <2>2, <2>3, ToIntAccepts, Zenon
<1>4. QED
  BY <1>1, <1>3 DEF Decodes

LEMMA StepIInv == IInv /\ [Next]_vars => IInv'
<1> SUFFICES ASSUME IInv, [Next]_vars PROVE IInv'
  OBVIOUS
<1>1. CASE ReachEnd
  <2>1. Len(text) = 2*dst /\ dst \in Nat
    BY <1>1, LookAhead DEF ReachEnd, IInv, Behind, TypeOK
  <2>2. TypeOK'
    BY <1>1 DEF ReachEnd, IInv, TypeOK, Returns
  <2>3. TextOK' /\ Behind' /\ Stored' /\ UnreadIntact'
    BY <1>1 DEF ReachEnd, IInv, TextOK, Behind, Stored, PairByte, PrefixOK, UnreadIntact
  <2>4. CodeJustified'
    BY <1>1, <2>1 DEF ReachEnd, IInv, Behind, CodeJustified, PrefixOK
  <2>5. Decodes(text)
    BY <2>1, AllGoodDecodes DEF IInv, Behind, TextOK, PrefixOK
  <2>6. [ i \in 1 .. dst |-> buf[i - 1] ] = Decoded(text)
    <3>1. Len(text) \div 2 = dst
      BY <2>1
    <3>2. \A i \in 1 .. dst :
            i - 1 \in 0 .. dst - 1 /\ 2*(i - 1) + 1 = 2*i - 1 /\ 2*(i - 1) + 2 = 2*i
      BY <2>1
    <3>3. \A i \in 1 .. dst : buf[i - 1] = Packed(to_int(text[2*i - 1]), to_int(text[2*i]))
      BY <3>2 DEF IInv, Stored, PairByte
    <3>4. QED
      BY <3>1, <3>3 DEF Decoded
  <2>7. DecodesAtOnce'
    BY <1>1, <2>5, <2>6 DEF ReachEnd, DecodesAtOnce
  <2>8. QED
    BY <1>1, <2>2, <2>3, <2>4, <2>7 DEF IInv, ReachEnd
<1>2. CASE RejectOdd
  <2>1. Len(text) = 2*dst + 1
    <3>1. ret = Running /\ buf[src] # 0 /\ buf[src + 1] = 0
      BY <1>2 DEF RejectOdd
    <3>2. src < Len(text) /\ ~ (src + 1 < Len(text)) /\ Len(text) \in Nat
      BY <3>1, LookAhead
    <3>3. src = 2*dst /\ dst \in Nat
      BY DEF IInv, Behind, TypeOK
    <3>4. QED
      BY <3>2, <3>3
  <2>2. TypeOK'
    BY <1>2 DEF RejectOdd, IInv, TypeOK, Returns
  <2>3. TextOK' /\ Behind' /\ Stored' /\ UnreadIntact'
    BY <1>2 DEF RejectOdd, IInv, TextOK, Behind, Stored, PairByte, PrefixOK, UnreadIntact
  <2>4. CodeJustified'
    BY <1>2, <2>1 DEF RejectOdd, IInv, Behind, CodeJustified, PrefixOK
  <2>5. DecodesAtOnce'
    BY <1>2, <2>1 DEF RejectOdd, DecodesAtOnce, Decodes, IInv, TypeOK
  <2>6. QED
    BY <1>2, <2>2, <2>3, <2>4, <2>5 DEF IInv, RejectOdd
<1>3. CASE RejectDigit
  <2>1. HS!Whole(text, dst) /\ ~ HS!Good(text, dst)
    BY <1>3, PairUnderCursor DEF RejectDigit
  <2>2. TypeOK'
    BY <1>3 DEF RejectDigit, IInv, TypeOK, Returns
  <2>3. TextOK' /\ Behind' /\ Stored' /\ UnreadIntact'
    BY <1>3 DEF RejectDigit, IInv, TextOK, Behind, Stored, PairByte, PrefixOK, UnreadIntact
  <2>4. CodeJustified'
    BY <1>3, <2>1 DEF RejectDigit, IInv, Behind, CodeJustified, PrefixOK, HS!Whole
  <2>5. ~ Decodes(text)
    <3>1. text[2*dst + 1] = buf[src] /\ text[2*dst + 2] = buf[src + 1]
      BY <1>3, PairUnderCursor DEF RejectDigit
    <3>2. 2*dst + 1 \in 1 .. Len(text) /\ 2*dst + 2 \in 1 .. Len(text)
      BY <2>1 DEF HS!Whole, IInv, TypeOK, TextOK
    <3>3. QED
      BY <1>3, <3>1, <3>2 DEF RejectDigit, Decodes
  <2>6. DecodesAtOnce'
    BY <1>3, <2>5 DEF RejectDigit, DecodesAtOnce
  <2>7. QED
    BY <1>3, <2>2, <2>3, <2>4, <2>6 DEF IInv, RejectDigit
<1>4. CASE StorePair
  <2> DEFINE h == to_int(buf[src])
             l == to_int(buf[src + 1])
  <2>1. HS!Good(text, dst) /\ HS!Whole(text, dst)
    BY <1>4, PairUnderCursor DEF StorePair
  <2>2. h \in Nat /\ l \in Nat
    <3>1. buf[src] \in 0 .. 255 /\ buf[src + 1] \in 0 .. 255 /\ h # NotHex /\ l # NotHex
      BY <1>4, PairUnderCursor DEF StorePair
    <3>2. h \in -1 .. 15 \union {75} /\ l \in -1 .. 15 \union {75}
      BY <3>1, ToIntAccepts
    <3>3. QED
      BY <3>1, <3>2 DEF NotHex
  <2>3. Len(text) \in Nat /\ dst \in 0 .. Len(text) /\ src + 2 <= Len(text)
        /\ src = 2*dst /\ src \in Nat
    BY <2>1 DEF HS!Whole, IInv, Behind, TypeOK, TextOK
  <2>4. TypeOK'
    <3>1. buf' \in [ 0 .. Len(text) -> 0 .. 255 ]
      BY <1>4, <2>2, <2>3, PackedByte DEF StorePair, IInv, TypeOK
    <3>2. QED
      BY <1>4, <3>1 DEF StorePair, IInv, TypeOK
  <2>5. Behind' /\ TextOK'
    <3>1. PrefixOK(dst + 1)
      BY <2>1, <2>3 DEF PrefixOK, IInv, Behind
    <3>2. QED
      BY <1>4, <2>3, <3>1 DEF StorePair, Behind, PrefixOK, IInv, TextOK
  <2>6. UnreadIntact'
    BY <1>4, <2>3 DEF StorePair, UnreadIntact, IInv, TypeOK
  <2>7. CodeJustified' /\ DecodesAtOnce' /\ (ret = 0 => len = dst)'
    BY <1>4 DEF StorePair, CodeJustified, DecodesAtOnce, Running
  <2>8. Stored'
    <3>1. text' = text /\ dst' = dst + 1 /\ buf' = [ buf EXCEPT ![dst] = Packed(h, l) ]
      BY <1>4 DEF StorePair
    <3>2. buf'[dst] = PairByte(dst)
      BY <1>4, <2>3, <3>1, PairUnderCursor DEF StorePair, PairByte, IInv, TypeOK
    <3>3. \A k \in 0 .. dst - 1 : buf'[k] = PairByte(k)
      BY <2>3, <3>1 DEF IInv, TypeOK, Stored
    <3>4. \A k \in 0 .. dst : buf'[k] = PairByte(k)
      BY <2>3, <3>2, <3>3
    <3>5. QED
      BY <2>3, <3>1, <3>4 DEF Stored, PairByte
  <2>9. QED
    BY <2>4, <2>5, <2>6, <2>7, <2>8 DEF IInv
<1>5. CASE UNCHANGED vars
  BY <1>5 DEF vars, IInv, TypeOK, TextOK, Behind, Stored, PairByte, PrefixOK, UnreadIntact,
              CodeJustified, DecodesAtOnce
<1>6. QED
  BY <1>1, <1>2, <1>3, <1>4, <1>5 DEF Next

LEMMA SpecIInv == Spec => []IInv
  BY InitIInv, StepIInv, PTL DEF Spec

------------------------------------------------------------------------------
(* The properties. *)

\* The decoder keeps its types for every argument.
THEOREM TypeCorrect == Spec => []TypeOK
<1>1. IInv => TypeOK
  BY DEF IInv
<1>2. QED
  BY SpecIInv, <1>1, PTL

\* decode_hex_in_place never reads past the terminator of its argument, also
\* once it has overwritten the front of it.
THEOREM NeverPastTerminator == Spec => []ReadsInBounds
<1>1. IInv => ReadsInBounds
  <2>1. SUFFICES ASSUME IInv, ret = Running
                 PROVE  src \in DOMAIN buf /\ (buf[src] # 0 => src + 1 \in DOMAIN buf)
    BY DEF ReadsInBounds
  <2>2. DOMAIN buf = 0 .. Len(text)
    BY <2>1 DEF IInv, TypeOK
  <2>3. /\ Len(text) \in Nat /\ src \in 0 .. Len(text)
        /\ buf[src] # 0 => src < Len(text)
    BY <2>1, LookAhead
  <2>4. QED
    BY <2>2, <2>3
<1>2. QED
  BY SpecIInv, <1>1, PTL

\* Decoding in place loses no text that is still to be read.
THEOREM InPlaceIsSafe == Spec => []UnreadIntact
<1>1. IInv => UnreadIntact
  BY DEF IInv
<1>2. QED
  BY SpecIInv, <1>1, PTL

\* The code returned is about the whole argument: 0 only if all of it was pairs of
\* digits, and otherwise the code of its leftmost fault.  And what the loop leaves in
\* the buffer it reads from is what the digits of the whole text give, for every text,
\* upper-case digits included.
THEOREM AnswersForTheArgument == Spec => []AnswerJustified
<1>1. IInv => AnswerJustified
  BY DEF IInv, AnswerJustified
<1>2. QED
  BY SpecIInv, <1>1, PTL

------------------------------------------------------------------------------
(* Refinement, for arguments without upper-case digits. *)

\* On the other digits to_int is the digit's value.
LEMMA ToIntExact ==
  ASSUME NEW ch \in HS!HexDigits, ch \notin HS!Upper
  PROVE  to_int(ch) = HS!HexValue(ch) /\ to_int(ch) \in 0 .. 15
  BY DEF to_int, HS!HexValue, HS!HexDigits, HS!Decimal, HS!Lower, HS!Upper

\* So a text without upper-case digits is decoded to what it stands for.
LEMMA DecodedDenoted ==
  ASSUME NEW s \in Seq(1 .. 255), Decodes(s), HS!IsPlain(s)
  PROVE  Decoded(s) = HS!Denoted(s)
<1>1. Len(s) \in Nat /\ \A i \in 1 .. Len(s) : s[i] \in 1 .. 255
  BY LenProperties, ElementOfSeq
<1>2. ASSUME NEW i \in 1 .. Len(s)
      PROVE  to_int(s[i]) = HS!HexValue(s[i]) /\ to_int(s[i]) \in 0 .. 15
  <2>1. s[i] \in 0 .. 255 /\ to_int(s[i]) # NotHex /\ s[i] \notin HS!Upper
    BY <1>1 DEF Decodes, HS!IsPlain
  <2>2. s[i] \in HS!HexDigits
    BY <2>1, ToIntAccepts
  <2>3. QED
    BY <2>1, <2>2, ToIntExact
<1>3. ASSUME NEW i \in 1 .. Len(s) \div 2
      PROVE  Packed(to_int(s[2*i - 1]), to_int(s[2*i]))
               = 16 * HS!HexValue(s[2*i - 1]) + HS!HexValue(s[2*i])
  <2>1. 2*i - 1 \in 1 .. Len(s) /\ 2*i \in 1 .. Len(s)
    BY <1>1
  <2>2. QED
    BY <1>2, <2>1, PackedDigits
<1>4. QED
  BY <1>3 DEF Decoded, HS!Denoted

LEMMA StepRefines ==
  ASSUME NoUpperCase, IInv, IInv', [Next]_vars
  PROVE  [HS!Next]_(HS!vars)
<1>1. CASE ReachEnd
  <2>1. Len(text) = 2*dst /\ dst \in Nat /\ ret = Running
    BY <1>1, LookAhead DEF ReachEnd, IInv, Behind, TypeOK
  <2>2. \A k \in HS!Pairs(text) : HS!Good(text, k)
    BY <2>1 DEF HS!Pairs, IInv, Behind, PrefixOK
  <2>3. [ i \in 1 .. dst |-> buf[i - 1] ] = HS!Denoted(text)
    <3>1. Decodes(text) /\ [ i \in 1 .. dst |-> buf[i - 1] ] = Decoded(text)
      BY <1>1 DEF ReachEnd, IInv, DecodesAtOnce
    <3>2. QED
      BY <3>1, DecodedDenoted DEF IInv, TextOK, NoUpperCase
  <2>4. HS!Succeed
    BY <1>1, <2>1, <2>2, <2>3 DEF ReachEnd, HS!Succeed, HS!Pending, HS!OK, Running
  <2>5. QED
    BY <2>4 DEF HS!Next
<1>2. CASE RejectOdd \/ RejectDigit
  <2>1. ret = Running /\ ret' \in {2, 3} /\ text' = text /\ dst \in Nat
    BY <1>2 DEF RejectOdd, RejectDigit, IInv, TypeOK
  <2>2. dst \in HS!Pairs(text) /\ ~ HS!Good(text, dst) /\ ret' = HS!Fault(text, dst)
    <3>1. CASE RejectOdd
      <4>1. buf[src] # 0 /\ buf[src + 1] = 0 /\ ret = Running
        BY <3>1 DEF RejectOdd
      <4>2. 2*dst < Len(text) /\ ~ (2*dst + 1 < Len(text)) /\ Len(text) \in Nat
        BY <4>1, LookAhead DEF IInv, Behind
      <4>3. QED
        BY <2>1, <3>1, <4>2 DEF RejectOdd, HS!Pairs, HS!Good, HS!Whole, HS!Fault, HS!OddLength
    <3>2. CASE RejectDigit
      <4>1. HS!Whole(text, dst) /\ ~ HS!Good(text, dst) /\ Len(text) \in Nat
        BY <3>2, PairUnderCursor DEF RejectDigit, IInv, TextOK
      <4>2. QED
        BY <2>1, <3>2, <4>1 DEF RejectDigit, HS!Pairs, HS!Whole, HS!Fault, HS!NotADigit
    <3>3. QED
      BY <1>2, <3>1, <3>2
  <2>3. \A j \in 0 .. dst - 1 : HS!Good(text, j)
    BY DEF IInv, Behind, PrefixOK
  <2>4. HS!Fail
    BY <2>1, <2>2, <2>3 DEF HS!Fail, HS!Pending, Running
  <2>5. QED
    BY <2>4 DEF HS!Next
<1>3. CASE StorePair
  BY <1>3 DEF StorePair, HS!vars, Running
<1>4. CASE UNCHANGED vars
  BY <1>4 DEF vars, HS!vars
<1>5. QED
  BY <1>1, <1>2, <1>3, <1>4 DEF Next

\* decode_hex_in_place implements the out-of-place decoder on every argument
\* that holds no 'A'..'F'.
THEOREM ImplementsOnLowerCase == Spec => ImplementsWithoutUpperCase
<1>1. Init => HS!Init
  BY DEF Init, HS!Init, HS!Pending, Running
<1>2. IInv /\ IInv' /\ [Next]_vars => [NoUpperCase => HS!Next]_(HS!vars)
  BY StepRefines
<1>3. QED
  BY SpecIInv, <1>1, <1>2, PTL DEF Spec, ImplementsWithoutUpperCase
==============================================================================

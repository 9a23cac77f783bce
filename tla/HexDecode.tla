------------------------------ MODULE HexDecode ------------------------------
(***************************************************************************)
(* decode_hex_in_place (c/glue.h:502, copied in                            *)
(* c/native_args_assembler.c:22): turns a hexadecimal C string into bytes, *)
(* writing each byte over text it has already read.  One action is one     *)
(* turn of the while loop, with its early returns; the caller's buffer,    *)
(* the two cursors and *len are the state.  What a digit and a pair give   *)
(* is in HexBytes.                                                         *)
(***************************************************************************)
EXTENDS HexBytes

CONSTANT Strings      \* the argument texts, as sequences of character codes

\* C strings hold no NUL before their end.
ASSUME StringsAssumption == \A s \in Strings : s \in Seq(1 .. 255)

VARIABLES
  text,               \* the argument as the caller passed it (never written)
  buf,                \* the caller's buffer, NUL included
  src, dst,           \* the cursors of the loop
  len,                \* the caller's *len
  ret                 \* Running, or the code returned

vars == << text, buf, src, dst, len, ret >>

Running == -1
Returns == { 0, 2, 3 }

CString(s) == [ i \in 0 .. Len(s) |-> IF i < Len(s) THEN s[i + 1] ELSE 0 ]

Init ==
  /\ text \in Strings
  /\ buf = CString(text)
  /\ src = 0 /\ dst = 0
  /\ len = 0
  /\ ret = Running

\* The terminator is reached: *len = dst, return 0.
ReachEnd ==
  /\ ret = Running
  /\ buf[src] = 0
  /\ len' = dst
  /\ ret' = 0
  /\ UNCHANGED << text, buf, src, dst >>

\* A last character without a partner: return 3.
RejectOdd ==
  /\ ret = Running
  /\ buf[src] # 0
  /\ buf[src + 1] = 0
  /\ ret' = 3
  /\ UNCHANGED << text, buf, src, dst, len >>

\* One of the two characters is no digit: return to_int's 2.
RejectDigit ==
  /\ ret = Running
  /\ buf[src] # 0
  /\ buf[src + 1] # 0
  /\ to_int(buf[src]) = NotHex \/ to_int(buf[src + 1]) = NotHex
  /\ ret' = 2
  /\ UNCHANGED << text, buf, src, dst, len >>

\* Faulty: the read cursor skips a character.
StorePairSkipping ==
  /\ ret = Running
  /\ buf[src] # 0
  /\ buf[src + 1] # 0
  /\ to_int(buf[src]) # NotHex
  /\ to_int(buf[src + 1]) # NotHex
  /\ buf' = [ buf EXCEPT ![dst] = Packed(to_int(buf[src]), to_int(buf[src + 1])) ]
  /\ src' = src + 3
  /\ dst' = dst + 1
  /\ UNCHANGED << text, len, ret >>

\* Faulty: the byte goes over the next pair, not over this one.
StorePairAhead ==
  /\ ret = Running
  /\ buf[src] # 0
  /\ buf[src + 1] # 0
  /\ to_int(buf[src]) # NotHex
  /\ to_int(buf[src + 1]) # NotHex
  /\ buf' = [ buf EXCEPT ![src + 2] = Packed(to_int(buf[src]), to_int(buf[src + 1])) ]
  /\ src' = src + 2
  /\ dst' = dst + 1
  /\ UNCHANGED << text, len, ret >>

\* Faulty: the second digit is taken next to the write cursor.
StorePairMixed ==
  /\ ret = Running
  /\ buf[src] # 0
  /\ buf[src + 1] # 0
  /\ to_int(buf[src]) # NotHex
  /\ to_int(buf[src + 1]) # NotHex
  /\ buf' = [ buf EXCEPT ![dst] = Packed(to_int(buf[src]), to_int(buf[dst + 1])) ]
  /\ src' = src + 2
  /\ dst' = dst + 1
  /\ UNCHANGED << text, len, ret >>

\* Two digits: the byte overwrites buf[dst++].
StorePair ==
  /\ ret = Running
  /\ buf[src] # 0
  /\ buf[src + 1] # 0
  /\ to_int(buf[src]) # NotHex
  /\ to_int(buf[src + 1]) # NotHex
  /\ buf' = [ buf EXCEPT ![dst] = Packed(to_int(buf[src]), to_int(buf[src + 1])) ]
  /\ src' = src + 2
  /\ dst' = dst + 1
  /\ UNCHANGED << text, len, ret >>

Next == ReachEnd \/ RejectOdd \/ RejectDigit \/ StorePair

\* The decoder is a straight loop of the calling thread: nothing preempts it.
Spec == Init /\ [][Next]_vars /\ WF_vars(Next)

------------------------------------------------------------------------------

\* The abstract decoder: its result is the first *len bytes of the buffer.
HS == INSTANCE HexSpec WITH
        status <- ret,
        bytes  <- IF ret = 0 THEN [ i \in 1 .. len |-> buf[i - 1] ] ELSE << >>

\* Every variable keeps its shape: the buffer has the length of the argument
\* plus its terminator and holds bytes only.
TypeOK ==
  /\ text \in Strings
  /\ buf \in [ 0 .. Len(text) -> 0 .. 255 ]
  /\ src \in Nat
  /\ dst \in Nat
  /\ len \in Nat
  /\ ret \in Returns \union { Running }

\* The loop never looks past the terminator: while it runs, src is inside the
\* buffer, and when buf[src] is a character buf[src + 1] is still inside it
\* (the two reads of c/glue.h:506-507).
ReadsInBounds ==
  ret = Running =>
    /\ src \in DOMAIN buf
    /\ buf[src] # 0 => src + 1 \in DOMAIN buf

\* Writing in place never destroys text that is still to be read: the bytes
\* from dst on are those of the argument (c/glue.h:522 writes at dst, the
\* loop reads at src).
UnreadIntact == \A i \in DOMAIN buf : i >= dst => buf[i] = CString(text)[i]

\* The code returned: success means the whole text was pairs of digits and *len
\* counts them, and each error names the leftmost fault (c/glue.h:507-519).
PrefixOK(n) == \A k \in 0 .. n - 1 : HS!Good(text, k)
CodeJustified ==
  /\ ret = 0 => 2*len = Len(text) /\ PrefixOK(len)
  /\ ret = 3 => Len(text) = 2*dst + 1 /\ PrefixOK(dst)
  /\ ret = 2 =>
       /\ 2*dst + 1 < Len(text)
       /\ PrefixOK(dst)
       /\ ~ HS!Good(text, dst)

\* What the loop leaves, overwriting the text it reads from, is what its digits give
\* taken from the text as it was: the byte of every pair, upper-case digits and the
\* 75 to_int stores for them included; and it fails for no other text.  The tools
\* that call it are modelled by this.
DecodesAtOnce ==
  /\ ret = 0 => Decodes(text) /\ [ i \in 1 .. len |-> buf[i - 1] ] = Decoded(text)
  /\ ret \in { 2, 3 } => ~ Decodes(text)

\* The answer is about the argument, not about the half overwritten buffer: the code
\* is that of the whole text, and the bytes are those its digits give, taken all at
\* once (c/glue.h:488-526).
AnswerJustified == CodeJustified /\ DecodesAtOnce

\* On an argument without an upper-case digit the decoder implements HexSpec:
\* it answers in one step what HexSpec answers, with the bytes the text denotes
\* at the front of its buffer, whatever the steps before (c/glue.h:502-526).
NoUpperCase == HS!IsPlain(text)
ImplementsWithoutUpperCase == HS!Init /\ [][NoUpperCase => HS!Next]_(HS!vars)

\* On every argument it does: this is what hexadecimal means, and what fails
\* for 'A'..'F', whose value in to_int (c/glue.h:496) is not the digit's.
ImplementsHexSpec == HS!Spec
==============================================================================

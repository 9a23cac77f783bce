-------------------------- MODULE SyscallGlueProofs --------------------------
(***************************************************************************)
(* Proofs about the functions of the CKB object, for every width of int    *)
(* and size_t, every host, every value and every set of calls.             *)
(*                                                                         *)
(* The properties are not inductive: what a call answers at its end rests  *)
(* on what it asked for, on the room it made, and on the length the host   *)
(* named before.  IInv says at each step what the earlier ones left.       *)
(***************************************************************************)
EXTENDS SyscallGlue, SequenceTheorems, TLAPS

\* A stack of two values, made by a push and undone by a pop.
LEMMA TwoValues ==
  ASSUME NEW j \in Kinds, NEW k \in Kinds
  PROVE  Push(<< j >>, k) = << j, k >> /\ Pop(<< j, k >>) = << j >>
<1> DEFINE one == << j >>
<1> DEFINE two == << j, k >>
<1>1. /\ one \in Seq(Kinds) /\ Len(one) = 1 /\ one[1] = j
      /\ two \in Seq(Kinds) /\ Len(two) = 2 /\ two[1] = j /\ two[2] = k
  OBVIOUS
<1> HIDE DEF one, two
<1>2. /\ Push(one, k) \in Seq(Kinds) /\ Len(Push(one, k)) = 2
      /\ Push(one, k)[1] = j /\ Push(one, k)[2] = k
  <2>1. /\ Push(one, k) \in Seq(Kinds) /\ Len(Push(one, k)) = Len(one) + 1
        /\ \A i \in 1 .. Len(one) : Push(one, k)[i] = one[i]
        /\ Push(one, k)[Len(one) + 1] = k
    <3>1. \A s \in Seq(Kinds) : /\ Append(s, k) \in Seq(Kinds) /\ Len(Append(s, k)) = Len(s) + 1
                                /\ \A i \in 1 .. Len(s) : Append(s, k)[i] = s[i]
                                /\ Append(s, k)[Len(s) + 1] = k
      BY AppendProperties
    <3>2. QED
      BY <1>1, <3>1, Zenon DEF Push
  <2>2. 1 \in 1 .. Len(one)
    BY <1>1
  <2>3. QED
    BY <1>1, <2>1, <2>2
<1>3. Push(one, k) = two
  BY <1>1, <1>2, SeqEqual
<1>4. SubSeq(two, 1, 1) = one
  <2>1. SubSeq(two, 1, 1) \in Seq(Kinds) /\ Len(SubSeq(two, 1, 1)) = 1 /\ SubSeq(two, 1, 1)[1] = j
    BY <1>1, SubSeqProperties
  <2>2. QED
    BY <1>1, <2>1, SeqEqual
<1>5. Pop(two) = one
  BY <1>1, <1>4 DEF Pop, PopN
<1>6. QED
  BY <1>3, <1>5 DEF one, two

Labels == { "idle", "check", "raw", "probe", "allocate", "fill", "wrap", "done" }
Asking == { "raw", "probe", "allocate", "fill", "wrap" }

Halves == 0 .. SizeHalf - 1
Requests == [ offset : Sizes, index : Sizes, source : Sizes, field : Sizes ]
Buffers == [ size : Nat, live : BOOLEAN ]
Writes == [ bytes : Nat, size : Nat, live : BOOLEAN ]
Outcomes == [ kind : { "none", "number", "arraybuffer", "thrown" }, val : Int ]

\* The types of the variables.
CallInv ==
  /\ host \in Hosts /\ pc \in Labels /\ held \in BOOLEAN
  /\ b \in Bindings /\ call.args \in [ 1 .. Arity(b) -> Values ]
DataInv ==
  /\ request \in Requests /\ len \in Sizes
  /\ buffer \in Buffers /\ wrote \in Writes /\ outcome \in Outcomes

\* The arguments are on the stack until they are converted, then nothing is,
\* then the new buffer alone.
FrameInv ==
  /\ pc = "idle" => frame = << >>
  /\ pc = "check" => frame \in Seq(Kinds) /\ Len(frame) = Arity(b)
  /\ pc \in { "raw", "probe", "allocate" } => frame = << >>
  /\ pc \in { "fill", "wrap" } => frame = << "buffer" >>
  /\ pc = "done" => frame \in Seq(Kinds) /\ FrameBalanced

\* The host is asked for the arguments, converted.
AskInv == pc \in Asking => request = Requested

\* Each step belongs to its kind of binding.
RouteInv ==
  /\ pc = "raw" => b.raw
  /\ pc = "probe" => ~ b.raw /\ b.depth # 0
  /\ pc \in { "allocate", "fill", "wrap" } => ~ b.raw

\* The room: the script's buffer, or a new one of the length asked for, which
\* is that of the item or of a hash.
RoomInv ==
  /\ pc = "raw" => buffer = [ size |-> call.args[1].size, live |-> held ]
  /\ pc \in { "allocate", "fill" } =>
       IF b.depth = 0 THEN len = HashSize
       ELSE Exists(request) /\ len = Left(request)
  /\ pc = "fill" => buffer = [ size |-> len, live |-> TRUE ]

\* What the host wrote: nothing yet, then all that the room holds.
WriteInv ==
  /\ pc \in { "idle", "check", "raw", "probe", "allocate", "fill" } => wrote = NoWrite
  /\ pc = "wrap" =>
       /\ Exists(request) /\ len = Left(request)
       /\ wrote.bytes = IF b.depth = 0 THEN Smaller(HashSize, len) ELSE len
  /\ WritesInBounds

\* No answer before the end, and then a true one.
AnswerInv ==
  /\ pc # "done" => outcome = NoOutcome
  /\ pc = "done" => outcome.kind # "none"
  /\ AnswersTruly

IInv ==
  /\ CallInv /\ DataInv /\ FrameInv /\ AskInv /\ RouteInv /\ RoomInv /\ WriteInv
  /\ AnswerInv

------------------------------------------------------------------------------
(* Numbers and bindings. *)

LEMMA Numbers ==
  /\ IntHalf \in Nat /\ SizeHalf \in Nat /\ GroupFlag \in Nat /\ HashSize \in Halves
  /\ IntMax = IntHalf - 1 /\ SizeMod = 2 * SizeHalf /\ SizeMod \in Nat \ { 0 }
  /\ 5 <= IntHalf /\ IntHalf < SizeHalf /\ IntHalf <= GroupFlag /\ GroupFlag + 2 < SizeHalf
BY WidthAssumption DEF IntMax, SizeMod, Halves

\* Duktape cuts or pads the arguments to as many as the C function pops.
LEMMA BindingFacts ==
  ASSUME NEW c \in Bindings
  PROVE  /\ c.raw \in BOOLEAN /\ c.depth \in { 0, 1, 3, 4 }
         /\ c.depth = 0 => ~ c.raw
         /\ Arity(c) = Taken(c) /\ Arity(c) \in Nat
         /\ First(c) \in { 0, 1 } /\ (c.raw => First(c) = 1)
         /\ Arity(c) = First(c) + c.depth
<1>1. /\ c.raw \in { TRUE, FALSE }
      /\ \/ c.call \in Hashes /\ c.raw = FALSE /\ c.depth = 0
         \/ c.call \in Singles /\ c.depth = 1
         \/ c.call \in Items /\ c.depth = 3
         \/ c.call \in ItemFields /\ c.depth = 4
  BY DEF Bindings
<1>2. /\ Hashes \cap Singles = {} /\ Hashes \cap Items = {} /\ Hashes \cap ItemFields = {}
      /\ Singles \cap Items = {} /\ Singles \cap ItemFields = {}
      /\ Items \cap ItemFields = {}
  BY DEF Hashes, Singles, Items, ItemFields
<1>3. First(c) = (IF c.raw = TRUE THEN 1 ELSE 0)
  BY <1>1 DEF First
<1>4. Arity(c) = First(c) + c.depth
  <2>1. CASE c.call \in Hashes
    BY <1>1, <1>2, <1>3, <2>1 DEF Arity
  <2>2. CASE c.call \in Singles
    BY <1>1, <1>2, <1>3, <2>2 DEF Arity
  <2>3. CASE c.call \in Items
    BY <1>1, <1>2, <1>3, <2>3 DEF Arity
  <2>4. CASE c.call \in ItemFields
    BY <1>1, <1>2, <1>3, <2>4 DEF Arity
  <2>5. QED
    BY <1>1, <2>1, <2>2, <2>3, <2>4
<1>5. c.depth \in { 0, 1, 3, 4 } /\ (c.depth = 0 => c.raw = FALSE)
  BY <1>1
<1>6. First(c) \in { 0, 1 } /\ (c.raw = TRUE => First(c) = 1)
  BY <1>3
<1>7. Arity(c) \in Nat
  BY <1>4, <1>5, <1>6
<1>8. QED
  BY <1>1, <1>4, <1>5, <1>6, <1>7 DEF Taken

------------------------------------------------------------------------------
(* Conversions. *)

\* Storing an int in a size_t: always a size_t, and the same number when it
\* is one.
LEMMA SizeConversion ==
  ASSUME NEW i \in Int
  PROVE  AsSize(i) \in Sizes /\ (i \in Sizes => AsSize(i) = i)
BY Numbers DEF AsSize, Sizes

\* A negative int becomes a size beyond every length.
LEMMA NegativeIsHuge ==
  ASSUME NEW i \in -IntHalf .. -1
  PROVE  AsSize(i) = i + SizeMod
<1>1. i + SizeMod \in Sizes
  BY Numbers DEF Sizes
<1>2. QED
  BY <1>1, Numbers DEF AsSize, Sizes

LEMMA ClampFacts ==
  ASSUME NEW n \in Int, NEW half \in Nat \ { 0 }
  PROVE  /\ Clamp(n, half) \in -half .. half - 1
         /\ n \in -half .. half - 1 => Clamp(n, half) = n
BY DEF Clamp, Smaller

LEMMA IntArgFacts ==
  ASSUME NEW v, v.val \in Int
  PROVE  /\ IntArg(v) \in Sizes
         /\ Arrives(v, IntArg(v))
<1>0. v.val \in Int /\ IntHalf \in Nat \ { 0 } /\ IntMax = IntHalf - 1
  BY Numbers
<1>1. /\ Clamp(v.val, IntHalf) \in -IntHalf .. IntHalf - 1
      /\ v.val < 0 => Clamp(v.val, IntHalf) \in -IntHalf .. -1
      /\ v.val >= 0 => Clamp(v.val, IntHalf) = Smaller(v.val, IntMax)
  BY <1>0 DEF Clamp, Smaller
<1>2. IntArg(v) \in Sizes
  BY <1>0, <1>1, SizeConversion DEF IntArg
<1>3. CASE v.val < 0
  <2>1. IntArg(v) = Clamp(v.val, IntHalf) + SizeMod
    BY <1>1, <1>3, NegativeIsHuge DEF IntArg
  <2>2. IntArg(v) >= SizeHalf
    BY <1>1, <1>3, <2>1, Numbers
  <2>3. QED
    BY <1>2, <1>3, <2>2 DEF Arrives
<1>4. CASE v.val >= 0
  <2>1. Smaller(v.val, IntMax) \in Sizes
    BY <1>0, <1>4, Numbers DEF Smaller, Sizes
  <2>2. IntArg(v) = Smaller(v.val, IntMax)
    BY <1>1, <1>4, <2>1, SizeConversion, Numbers DEF IntArg, Sizes
  <2>3. QED
    BY <1>0, <1>2, <1>4, <2>2 DEF Arrives
<1>5. QED
  BY <1>0, <1>3, <1>4

\* A source is a size_t, and one that CKB.SOURCE offers arrives as it is.
LEMMA SourceFacts ==
  /\ \A v : v.val \in Int => extract_source(v) \in Sizes
  /\ \A name \in SourceNames : extract_source(Exported(name)) = SourceCode(name)
<1>1. ASSUME NEW v, v.val \in Int
      PROVE  extract_source(v) \in Sizes
  BY <1>1, IntArgFacts, ClampFacts, SizeConversion, Numbers DEF extract_source
<1>2. ASSUME NEW name \in { "GROUP_INPUT", "GROUP_OUTPUT" }
      PROVE  extract_source(Exported(name)) = SourceCode(name)
  <2>1. /\ SourceCode(name) \in Sizes /\ SourceCode(name) \in -SizeHalf .. SizeHalf - 1
        /\ Exported(name).type = "string" /\ Exported(name).val = SourceCode(name)
    BY <1>2, Numbers DEF SourceCode, Sizes, Exported, JsString
  <2>2. Clamp(SourceCode(name), SizeHalf) = SourceCode(name)
    BY <2>1, ClampFacts, Numbers
  <2>3. QED
    BY <2>1, <2>2, SizeConversion, Numbers DEF extract_source, Sizes
<1>3. ASSUME NEW name \in { "INPUT", "OUTPUT", "CELL_DEP", "HEADER_DEP" }
      PROVE  extract_source(Exported(name)) = SourceCode(name)
  <2>1. /\ SourceCode(name) \in 0 .. IntMax
        /\ Exported(name).type = "number" /\ Exported(name).val = SourceCode(name)
    BY <1>3, Numbers DEF SourceCode, Exported, JsNumber
  <2>2. QED
    BY <2>1, IntArgFacts, Numbers DEF extract_source, Arrives, Smaller
<1>4. QED
  BY <1>1, <1>2, <1>3 DEF SourceNames

\* push_checked_integer accepts a length only when the int is the length: a
\* length never turns negative.
LEMMA CheckedIsExact ==
  ASSUME NEW v \in Halves
  PROVE  AsInt(v) \in Int /\ (Checked(v) => AsInt(v) = v)
<1> DEFINE low == v % (2 * IntHalf)
<1>1. low \in 0 .. 2 * IntHalf - 1
  BY Numbers DEF Halves
<1>2. AsInt(v) = IF low > IntMax THEN low - 2 * IntHalf ELSE low
  BY DEF AsInt
<1>3. AsInt(v) \in -IntHalf .. IntHalf - 1
  <2> HIDE DEF low
  <2> QED
    BY <1>1, <1>2, Numbers
<1>4. CASE AsInt(v) < 0
  <2>1. AsSize(AsInt(v)) = AsInt(v) + SizeMod
    BY <1>3, <1>4, NegativeIsHuge
  <2>2. AsInt(v) + SizeMod > v
    BY <1>3, Numbers DEF Halves
  <2>3. QED
    BY <1>3, <2>1, <2>2, Numbers DEF Checked, Halves
<1>5. CASE AsInt(v) >= 0
  <2>1. AsSize(AsInt(v)) = AsInt(v)
    BY <1>3, <1>5, SizeConversion, Numbers DEF Sizes
  <2>2. QED
    BY <1>3, <2>1 DEF Checked
<1>6. QED
  BY <1>3, <1>4, <1>5

------------------------------------------------------------------------------
(* Requests. *)

LEMMA ArgFacts ==
  ASSUME CallInv
  PROVE  /\ b.depth >= 1 => OffsetArg.val \in Int
         /\ b.depth >= 3 => IndexArg.val \in Int /\ SourceArg.val \in Int
         /\ b.depth = 4 => FieldArg.val \in Int
         /\ b.raw => call.args[1].size \in Nat
<1>1. /\ b.depth \in { 0, 1, 3, 4 } /\ First(b) \in { 0, 1 } /\ Arity(b) = First(b) + b.depth
      /\ Arity(b) \in Nat /\ (b.raw => First(b) = 1) /\ b.raw \in BOOLEAN
  BY BindingFacts DEF CallInv
<1>2. \A i \in 1 .. Arity(b) : call.args[i] \in Values
  BY DEF CallInv
<1>3. \A v \in Values : v.val \in Int /\ v.size \in Nat
  BY ValuesAssumption
<1>4. b.depth >= 1 => OffsetArg.val \in Int
  BY <1>1, <1>2, <1>3 DEF OffsetArg
<1>5. b.depth >= 3 => IndexArg.val \in Int /\ SourceArg.val \in Int
  BY <1>1, <1>2, <1>3 DEF IndexArg, SourceArg
<1>6. b.depth = 4 => FieldArg.val \in Int
  BY <1>1, <1>2, <1>3 DEF FieldArg
<1>7. b.raw => call.args[1].size \in Nat
  BY <1>1, <1>2, <1>3
<1>8. QED
  BY <1>4, <1>5, <1>6, <1>7

\* Whatever the script passed, the host is asked with four size_t.
LEMMA RequestedFacts ==
  ASSUME CallInv
  PROVE  Requested \in Requests
<1>1. b.depth \in { 0, 1, 3, 4 } /\ 0 \in Sizes
  BY BindingFacts, Numbers DEF CallInv, Sizes
<1>2. b.depth >= 1 => IntArg(OffsetArg) \in Sizes
  BY ArgFacts, IntArgFacts
<1>3. b.depth >= 3 => IntArg(IndexArg) \in Sizes
  BY ArgFacts, IntArgFacts
<1>4. b.depth >= 3 => extract_source(SourceArg) \in Sizes
  BY ArgFacts, SourceFacts
<1>5. b.depth = 4 => IntArg(FieldArg) \in Sizes
  BY ArgFacts, IntArgFacts
<1>6. QED
  BY <1>1, <1>2, <1>3, <1>4, <1>5 DEF Requested, Requests

\* What is left of an item fits half of the address space.
LEMMA LeftFacts ==
  ASSUME CallInv, request \in Requests, Exists(request)
  PROVE  Left(request) \in Halves
<1>1. host.hash \in Halves /\ \A key \in DOMAIN host.sizes : host.sizes[key] \in Halves
  BY HostsAssumption DEF CallInv, Halves
<1>2. CASE b.depth = 0
  BY <1>1, <1>2 DEF Left
<1>3. CASE b.depth # 0
  <2>1. host.sizes[Key(request)] \in Halves
    BY <1>1, <1>3 DEF Exists
  <2>2. request.offset \in Nat
    BY Numbers DEF Requests, Sizes
  <2>3. QED
    BY <1>3, <2>1, <2>2, Numbers DEF Left, Halves
<1>4. QED
  BY <1>2, <1>3

LEMMA HalvesAreSizes == Halves \subseteq Sizes /\ Sizes \subseteq Nat
BY Numbers DEF Halves, Sizes

\* While call, host and request stay, so does what is asked and what there is.
LEMMA SameQuestion ==
  ASSUME UNCHANGED << host, call, request >>
  PROVE  /\ b' = b /\ Exists(request)' = Exists(request)
         /\ Left(request)' = Left(request) /\ Requested' = Requested
<1>1. b' = b
  BY DEF b
<1>2. Exists(request)' = Exists(request) /\ Left(request)' = Left(request)
  BY <1>1 DEF Exists, Left, Key
<1>3. Requested' = Requested
  BY <1>1 DEF Requested, OffsetArg, IndexArg, SourceArg, FieldArg
<1>4. QED
  BY <1>1, <1>2, <1>3

------------------------------------------------------------------------------
(* Each step preserves IInv. *)

LEMMA FrameSeq ==
  ASSUME IInv
  PROVE  frame \in Seq(Kinds)
<1>1. << >> \in Seq(Kinds) /\ << "buffer" >> \in Seq(Kinds)
  BY DEF Kinds
<1>2. QED
  BY <1>1 DEF IInv, CallInv, FrameInv, Labels

\* An error leaves whatever was on the stack below it.
LEMMA Thrown ==
  ASSUME IInv, Throw, wrote' \in Writes, WritesInBounds'
  PROVE  IInv'
<1>1. /\ pc' = "done" /\ UNCHANGED << host, call, held >> /\ UNCHANGED << request, len, buffer >>
      /\ outcome' = [ kind |-> "thrown", val |-> 0 ] /\ frame' = Push(frame, "error")
  BY DEF Throw, Answer, Goto
<1>2. b' = b
  BY <1>1, SameQuestion
<1>3. CallInv'
  BY <1>1, <1>2 DEF IInv, CallInv, Labels
<1>4. DataInv'
  BY <1>1 DEF IInv, DataInv, Outcomes
<1>5. FrameInv'
  <2>1. /\ Push(frame, "error") \in Seq(Kinds) /\ Len(Push(frame, "error")) = Len(frame) + 1
        /\ Push(frame, "error")[Len(frame) + 1] = "error"
    BY FrameSeq, AppendProperties DEF Push, Kinds
  <2>2. QED
    BY <1>1, <2>1 DEF FrameInv, FrameBalanced, At
<1>6. AskInv' /\ RouteInv' /\ RoomInv'
  BY <1>1 DEF AskInv, Asking, RouteInv, RoomInv
<1>7. WriteInv'
  BY <1>1 DEF WriteInv
<1>8. AnswerInv'
  BY <1>1 DEF AnswerInv, AnswersTruly, WholeItem, LengthOrError
<1>9. QED
  BY <1>3, <1>4, <1>5, <1>6, <1>7, <1>8 DEF IInv

LEMMA RefusalKeeps ==
  ASSUME IInv, Throw, UNCHANGED wrote
  PROVE  IInv'
<1>1. b' = b /\ held' = held
  BY SameQuestion DEF Throw, Answer, Goto, b
<1>2. wrote' \in Writes /\ WritesInBounds'
  BY <1>1 DEF IInv, DataInv, WriteInv, WritesInBounds
<1>3. QED
  BY <1>2, Thrown

\* What the host writes fits the room it is told of.
LEMMA WriteFacts ==
  ASSUME CallInv, DataInv, NEW room \in Nat, HostWrites(room), Exists(request),
         room <= buffer.size
  PROVE  /\ wrote' \in Writes
         /\ wrote'.bytes = Smaller(room, Left(request)) /\ wrote'.bytes <= wrote'.size
         /\ wrote'.live = buffer.live
<1>1. Left(request) \in Nat
  BY LeftFacts, HalvesAreSizes DEF DataInv
<1>2. buffer.size \in Nat /\ buffer.live \in BOOLEAN
  BY DEF DataInv, Buffers
<1>3. Smaller(room, Left(request)) \in Nat /\ Smaller(room, Left(request)) <= room
  BY <1>1 DEF Smaller
<1>4. QED
  BY <1>2, <1>3 DEF HostWrites, Writes

LEMMA CallKeeps ==
  ASSUME IInv, Call
  PROVE  IInv'
<1>1. /\ pc = "idle" /\ pc' = "check" /\ call' \in Calls /\ held' \in BOOLEAN
      /\ frame' = [ i \in 1 .. Arity(call'.binding) |-> "value" ]
      /\ UNCHANGED << host, request, len, buffer, wrote, outcome >>
  BY DEF Call, At
<1>2. b' \in Bindings /\ call'.args \in [ 1 .. Arity(b') -> Values ] /\ b' = call'.binding
  BY <1>1, CallsAssumption DEF b
<1>3. CallInv'
  BY <1>1, <1>2 DEF IInv, CallInv, Labels
<1>4. DataInv'
  BY <1>1 DEF IInv, DataInv
<1>5. FrameInv'
  <2>1. Arity(b') \in Nat
    BY <1>2, BindingFacts
  <2>2. frame' \in Seq(Kinds) /\ Len(frame') = Arity(b')
    BY <1>1, <1>2, <2>1, SeqDef, LenProperties DEF Kinds
  <2>3. Arity(b)' = Arity(b')
    BY <1>2 DEF Arity, b
  <2>4. QED
    BY <1>1, <2>2, <2>3 DEF FrameInv
<1>6. AskInv' /\ RouteInv' /\ RoomInv'
  BY <1>1 DEF AskInv, Asking, RouteInv, RoomInv
<1>7. WriteInv'
  BY <1>1 DEF IInv, WriteInv, WritesInBounds, NoWrite
<1>8. AnswerInv'
  BY <1>1 DEF IInv, AnswerInv, AnswersTruly, WholeItem, LengthOrError, NoOutcome
<1>9. QED
  BY <1>3, <1>4, <1>5, <1>6, <1>7, <1>8 DEF IInv

\* A step of the C function that does not end the call.
LEMMA Onward ==
  ASSUME IInv, pc # "done", pc' \in Asking, UNCHANGED << host, call, held, outcome >>
  PROVE  CallInv' /\ AnswerInv' /\ b' = b /\ Requested' = Requested
<1>1. b' = b /\ Requested' = Requested
  BY DEF b, Requested, OffsetArg, IndexArg, SourceArg, FieldArg
<1>2. CallInv'
  BY <1>1 DEF IInv, CallInv, Labels, Asking
<1>3. AnswerInv'
  BY DEF IInv, AnswerInv, AnswersTruly, WholeItem, LengthOrError, NoOutcome, Asking
<1>4. QED
  BY <1>1, <1>2, <1>3

\* Popping the arguments leaves nothing.
LEMMA ConvertKeeps ==
  ASSUME IInv, Convert
  PROVE  IInv'
<1>1. /\ pc = "check" /\ UNCHANGED << host, call, held >>
      /\ request' = Requested /\ frame' = PopN(frame, Taken(b))
      /\ len' = (IF b.depth = 0 THEN HashSize ELSE 0)
      /\ UNCHANGED << wrote, outcome >>
  BY DEF Convert, Goto, At
<1>2. b.raw \in { TRUE, FALSE } /\ Arity(b) = Taken(b) /\ (b.depth = 0 => b.raw = FALSE)
  BY BindingFacts DEF IInv, CallInv
<1>3. \/ /\ b.raw = TRUE /\ pc' = "raw"
         /\ buffer' = [ size |-> call.args[1].size, live |-> held ]
      \/ b.raw = FALSE /\ b.depth = 0 /\ pc' = "allocate" /\ buffer' = NoBuffer
      \/ b.raw = FALSE /\ b.depth # 0 /\ pc' = "probe" /\ buffer' = NoBuffer
  BY <1>2 DEF Convert, Goto
<1>4. CallInv' /\ AnswerInv' /\ b' = b /\ Requested' = Requested
  BY <1>1, <1>3, Onward DEF Asking
<1>5. DataInv'
  <2>1. request' \in Requests
    BY <1>1, RequestedFacts DEF IInv
  <2>2. len' \in Sizes
    BY <1>1, Numbers DEF Sizes, Halves
  <2>3. (b.raw => call.args[1].size \in Nat) /\ held \in BOOLEAN
    BY ArgFacts DEF IInv, CallInv
  <2>4. buffer' \in Buffers
    <3>1. CASE b.raw = TRUE
      <4>1. call.args[1].size \in Nat
        BY <2>3, <3>1
      <4>2. buffer' = [ size |-> call.args[1].size, live |-> held ]
        BY <1>3, <3>1
      <4>3. QED
        BY <2>3, <4>1, <4>2 DEF Buffers
    <3>2. CASE b.raw = FALSE
      <4>1. buffer' = NoBuffer
        BY <1>3, <3>2
      <4>2. NoBuffer \in Buffers
        BY DEF Buffers, NoBuffer
      <4>3. QED
        BY <4>1, <4>2
    <3>3. QED
      BY <1>2, <3>1, <3>2
  <2>5. QED
    BY <1>1, <2>1, <2>2, <2>4 DEF IInv, DataInv
<1>6. FrameInv'
  <2>1. frame \in Seq(Kinds) /\ Len(frame) = Arity(b)
    BY <1>1 DEF IInv, FrameInv
  <2>2. frame' \in Seq(Kinds) /\ Len(frame') = 0
    BY <1>1, <1>2, <2>1, SubSeqProperties, LenProperties DEF PopN
  <2>3. frame' = << >>
    BY <2>2, EmptySeq
  <2>4. QED
    BY <1>3, <2>3 DEF FrameInv
<1>7. AskInv' /\ RouteInv'
  BY <1>1, <1>2, <1>3, <1>4 DEF AskInv, RouteInv
<1>8. RoomInv'
  BY <1>1, <1>3, <1>4 DEF RoomInv
<1>9. WriteInv'
  BY <1>1, <1>3 DEF IInv, WriteInv, WritesInBounds, NoWrite
<1>10. QED
  BY <1>4, <1>5, <1>6, <1>7, <1>8, <1>9 DEF IInv

\* Numbers are answered alone on the stack.
LEMMA NumberKeeps ==
  ASSUME IInv, pc \in { "raw", "probe" }, NEW n \in Int, Answer(Number(n)),
         frame' = Push(frame, "number"), request' = request, len' \in Sizes,
         buffer' = buffer, wrote' \in Writes, WritesInBounds',
         IF Exists(request) THEN b.raw /\ n = Left(request) ELSE n < 0
  PROVE  IInv'
<1>1. /\ pc' = "done" /\ UNCHANGED << host, call, held >>
      /\ outcome' = [ kind |-> "number", val |-> n ]
  BY DEF Answer, Goto, Number
<1>2. /\ b' = b /\ Exists(request)' = Exists(request) /\ Left(request)' = Left(request)
  BY <1>1, SameQuestion
<1>3. CallInv'
  BY <1>1, <1>2 DEF IInv, CallInv, Labels
<1>4. DataInv'
  BY <1>1 DEF IInv, DataInv, Outcomes
<1>5. FrameInv'
  <2>1. frame = << >>
    BY DEF IInv, FrameInv
  <2>2. frame' = << "number" >> /\ frame' \in Seq(Kinds)
    BY <2>1 DEF Push, Kinds
  <2>3. QED
    BY <1>1, <2>2 DEF FrameInv, FrameBalanced, At
<1>6. AskInv' /\ RouteInv' /\ RoomInv'
  BY <1>1 DEF AskInv, Asking, RouteInv, RoomInv
<1>7. WriteInv'
  BY <1>1 DEF WriteInv
<1>8. AnswerInv'
  BY <1>1, <1>2 DEF AnswerInv, AnswersTruly, WholeItem, LengthOrError
<1>9. QED
  BY <1>3, <1>4, <1>5, <1>6, <1>7, <1>8 DEF IInv

LEMMA ErrorKeeps ==
  ASSUME IInv, RawFails \/ ProbeFails
  PROVE  IInv'
<1>1. /\ pc \in { "raw", "probe" } /\ ~ Exists(request) /\ Answer(Number(-host.missing))
      /\ frame' = Push(frame, "number") /\ UNCHANGED << request, len, buffer, wrote >>
  BY DEF RawFails, ProbeFails, At
<1>2. host.missing \in 1 .. IntMax
  BY HostsAssumption DEF IInv, CallInv
<1>3. -host.missing \in Int /\ -host.missing < 0
  BY <1>2
<1>4. b' = b /\ held' = held
  BY <1>1 DEF Answer, Goto, b
<1>5. len' \in Sizes /\ wrote' \in Writes /\ WritesInBounds'
  BY <1>1, <1>4 DEF IInv, DataInv, WriteInv, WritesInBounds
<1>6. QED
  BY <1>1, <1>3, <1>5, NumberKeeps

\* The script's buffer takes what fits of the item; it is there unless the
\* script kept no reference to it.
LEMMA RawWriteFacts ==
  ASSUME IInv, At("raw"), Exists(request), HostWrites(buffer.size), UNCHANGED << call, held >>
  PROVE  wrote' \in Writes /\ WritesInBounds'
<1>1. buffer.size \in Nat /\ buffer.live = held /\ b.raw
  BY DEF At, IInv, DataInv, Buffers, RoomInv, RouteInv
<1>2. /\ wrote' \in Writes /\ wrote'.bytes <= wrote'.size /\ wrote'.live = buffer.live
  BY <1>1, WriteFacts DEF IInv
<1>3. b' = b /\ held' = held
  BY DEF b
<1>4. held \in BOOLEAN
  BY DEF IInv, CallInv
<1>5. QED
  BY <1>1, <1>2, <1>3, <1>4 DEF WritesInBounds

LEMMA RawLoadKeeps ==
  ASSUME IInv, RawLoad
  PROVE  IInv'
<1>1. /\ pc = "raw" /\ Exists(request) /\ Checked(Left(request)) /\ HostWrites(buffer.size)
      /\ len' = Left(request) /\ Answer(Number(AsInt(Left(request))))
      /\ frame' = Push(frame, "number") /\ UNCHANGED << request, buffer >>
  BY DEF RawLoad, At
<1>2. Left(request) \in Halves
  BY <1>1, LeftFacts DEF IInv, DataInv
<1>3. AsInt(Left(request)) = Left(request) /\ Left(request) \in Int /\ Left(request) \in Sizes
  BY <1>1, <1>2, CheckedIsExact, HalvesAreSizes DEF Halves
<1>4. wrote' \in Writes /\ WritesInBounds'
  BY <1>1, RawWriteFacts DEF At, Answer, Goto
<1>5. b.raw
  BY <1>1 DEF IInv, RouteInv
<1>6. QED
  BY <1>1, <1>3, <1>4, <1>5, NumberKeeps

LEMMA RawOverflowsKeeps ==
  ASSUME IInv, RawOverflows
  PROVE  IInv'
<1>1. wrote' \in Writes /\ WritesInBounds'
  BY RawWriteFacts DEF RawOverflows, Throw, Answer, Goto
<1>2. QED
  BY <1>1, Thrown DEF RawOverflows

LEMMA ProbeKeeps ==
  ASSUME IInv, Probe
  PROVE  IInv'
<1>1. /\ pc = "probe" /\ pc' = "allocate" /\ Exists(request) /\ len' = Left(request)
      /\ UNCHANGED << host, call, held, frame, request, buffer, wrote, outcome >>
  BY DEF Probe, Goto, At
<1>2. /\ CallInv' /\ AnswerInv' /\ b' = b /\ Requested' = Requested
      /\ Exists(request)' = Exists(request) /\ Left(request)' = Left(request)
  BY <1>1, Onward, SameQuestion DEF Asking
<1>3. Left(request) \in Sizes
  BY <1>1, LeftFacts, HalvesAreSizes DEF IInv, DataInv
<1>4. DataInv'
  BY <1>1, <1>3 DEF IInv, DataInv
<1>5. FrameInv' /\ AskInv' /\ RouteInv'
  BY <1>1, <1>2 DEF IInv, FrameInv, AskInv, Asking, RouteInv
<1>6. RoomInv'
  BY <1>1, <1>2 DEF IInv, RoomInv, RouteInv
<1>7. WriteInv'
  BY <1>1 DEF IInv, WriteInv, WritesInBounds, NoWrite
<1>8. QED
  BY <1>2, <1>4, <1>5, <1>6, <1>7 DEF IInv

\* The new buffer is alone on the stack, so index 0 is its index.
LEMMA AllocateKeeps ==
  ASSUME IInv, Allocate
  PROVE  IInv'
<1>1. /\ pc = "allocate" /\ pc' = "fill"
      /\ frame' = Push(frame, "buffer") /\ buffer' = Bottom(frame', len)
      /\ UNCHANGED << host, call, held, request, len, wrote, outcome >>
  BY DEF Allocate, Goto, At
<1>2. /\ CallInv' /\ AnswerInv' /\ b' = b /\ Requested' = Requested
      /\ Exists(request)' = Exists(request) /\ Left(request)' = Left(request)
  BY <1>1, Onward, SameQuestion DEF Asking
<1>3. frame' = << "buffer" >>
  BY <1>1 DEF IInv, FrameInv, Push
<1>4. buffer' = [ size |-> len, live |-> TRUE ]
  BY <1>1, <1>3 DEF Bottom
<1>5. DataInv'
  <2>1. len \in Nat
    BY HalvesAreSizes DEF IInv, DataInv
  <2>2. buffer' \in Buffers
    BY <1>4, <2>1 DEF Buffers
  <2>3. QED
    BY <1>1, <2>2 DEF IInv, DataInv
<1>6. FrameInv' /\ AskInv' /\ RouteInv'
  BY <1>1, <1>2, <1>3 DEF IInv, FrameInv, AskInv, Asking, RouteInv
<1>7. RoomInv'
  BY <1>1, <1>2, <1>4 DEF IInv, RoomInv
<1>8. WriteInv'
  BY <1>1 DEF IInv, WriteInv, WritesInBounds, NoWrite
<1>9. QED
  BY <1>2, <1>5, <1>6, <1>7, <1>8 DEF IInv

LEMMA FillKeeps ==
  ASSUME IInv, Fill
  PROVE  IInv'
<1>1. /\ pc = "fill" /\ pc' = "wrap" /\ HostWrites(len) /\ len' = Left(request)
      /\ UNCHANGED << host, call, held, frame, request, buffer, outcome >>
  BY DEF Fill, Goto, At
<1>2. /\ CallInv' /\ AnswerInv' /\ b' = b /\ Requested' = Requested
      /\ Exists(request)' = Exists(request) /\ Left(request)' = Left(request)
  BY <1>1, Onward, SameQuestion DEF Asking
<1>3. /\ Exists(request) /\ buffer = [ size |-> len, live |-> TRUE ]
      /\ len = (IF b.depth = 0 THEN HashSize ELSE Left(request))
  BY <1>1 DEF IInv, RoomInv, Exists
<1>4. Left(request) \in Nat /\ Left(request) \in Sizes /\ len \in Nat
  BY <1>3, LeftFacts, HalvesAreSizes DEF IInv, DataInv
<1>5. /\ wrote' \in Writes /\ wrote'.bytes = Smaller(len, Left(request))
      /\ wrote'.bytes <= wrote'.size /\ wrote'.live = TRUE
  <2>1. buffer.size = len /\ buffer.live = TRUE /\ len <= buffer.size
    BY <1>3, <1>4
  <2>2. CallInv /\ DataInv
    BY DEF IInv
  <2>3. QED
    BY <1>1, <1>3, <1>4, <2>1, <2>2, WriteFacts
<1>6. DataInv'
  BY <1>1, <1>4, <1>5 DEF IInv, DataInv
<1>7. FrameInv' /\ AskInv' /\ RouteInv' /\ RoomInv'
  BY <1>1, <1>2 DEF IInv, FrameInv, AskInv, Asking, RouteInv, RoomInv
<1>8. WriteInv'
  <2>1. Smaller(len, Left(request)) =
          (IF b.depth = 0 THEN Smaller(HashSize, Left(request)) ELSE Left(request))
    BY <1>3, <1>4 DEF Smaller
  <2>2. QED
    BY <1>1, <1>2, <1>3, <1>5, <2>1 DEF WriteInv, WritesInBounds
<1>9. QED
  BY <1>2, <1>6, <1>7, <1>8 DEF IInv

\* What is wrapped was filled to its end.
LEMMA WrapKeeps ==
  ASSUME IInv, Wrap
  PROVE  IInv'
<1>1. /\ pc = "wrap" /\ pc' = "done" /\ (b.depth = 0 => len = HashSize)
      /\ outcome' = [ kind |-> "arraybuffer", val |-> len ]
      /\ frame' = Pop(SwapBottom(Push(frame, "arraybuffer")))
      /\ UNCHANGED << host, call, held, request, len, buffer, wrote >>
  BY DEF Wrap, Answer, Goto, At
<1>2. /\ b' = b /\ Exists(request)' = Exists(request) /\ Left(request)' = Left(request)
  BY <1>1, SameQuestion
<1>3. CallInv'
  BY <1>1, <1>2 DEF IInv, CallInv, Labels
<1>4. len \in Int
  BY HalvesAreSizes DEF IInv, DataInv
<1>5. DataInv'
  BY <1>1, <1>4 DEF IInv, DataInv, Outcomes
<1>6. FrameInv'
  <2>1. frame = << "buffer" >>
    BY <1>1 DEF IInv, FrameInv
  <2>2. /\ Push(<< "buffer" >>, "arraybuffer") = << "buffer", "arraybuffer" >>
        /\ Pop(<< "arraybuffer", "buffer" >>) = << "arraybuffer" >>
    BY TwoValues DEF Kinds
  <2>3. SwapBottom(<< "buffer", "arraybuffer" >>) = << "arraybuffer", "buffer" >>
    BY DEF SwapBottom
  <2>4. frame' = << "arraybuffer" >>
    BY <1>1, <2>1, <2>2, <2>3
  <2>5. << "arraybuffer" >> \in Seq(Kinds)
    BY DEF Kinds
  <2>6. QED
    BY <1>1, <2>4, <2>5 DEF FrameInv, FrameBalanced, At
<1>7. AskInv' /\ RouteInv' /\ RoomInv'
  BY <1>1 DEF AskInv, Asking, RouteInv, RoomInv
<1>8. WriteInv'
  BY <1>1, <1>2 DEF IInv, WriteInv, WritesInBounds
<1>9. AnswerInv'
  <2>1. Exists(request) /\ len = Left(request) /\ wrote.bytes = len
    BY <1>1, <1>4 DEF IInv, WriteInv, Smaller
  <2>2. QED
    BY <1>1, <1>2, <2>1 DEF AnswerInv, AnswersTruly, WholeItem, LengthOrError
<1>10. QED
  BY <1>3, <1>5, <1>6, <1>7, <1>8, <1>9 DEF IInv

------------------------------------------------------------------------------
(* The invariant. *)

LEMMA Initially == Init => IInv
<1>1. SUFFICES ASSUME Init
               PROVE  IInv
  OBVIOUS
<1>2. b = NoCall.binding /\ b.call \in Hashes /\ b.raw = FALSE /\ b.depth = 0
  BY <1>1 DEF Init, b, NoCall, Binding, Hashes
<1>3. b \in Bindings /\ Arity(b) = 0
  <2>1. b = [ call |-> "tx_hash", raw |-> FALSE, depth |-> 0 ]
    BY <1>2 DEF NoCall, Binding
  <2>2. b \in [ call : Hashes, raw : { FALSE }, depth : { 0 } ]
    BY <2>1 DEF Hashes
  <2>3. QED
    <3>1. b \in Bindings
      BY <2>2 DEF Bindings
    <3>2. Arity(b) = First(b) + b.depth
      BY <3>1, BindingFacts
    <3>3. QED
      BY <1>2, <3>1, <3>2 DEF First
<1>4. CallInv
  <2>1. call.args = << >>
    BY <1>1 DEF Init, NoCall
  <2>2. call.args \in [ 1 .. Arity(b) -> Values ]
    BY <1>3, <2>1
  <2>3. QED
    BY <1>1, <1>3, <2>2 DEF Init, CallInv, Labels
<1>5. DataInv
  BY <1>1, Numbers DEF Init, DataInv, Requests, NoRequest, Sizes, Buffers, NoBuffer, Writes,
     NoWrite, Outcomes, NoOutcome
<1>6. FrameInv /\ AskInv /\ RouteInv /\ RoomInv
  BY <1>1 DEF Init, FrameInv, AskInv, Asking, RouteInv, RoomInv
<1>7. WriteInv
  BY <1>1 DEF Init, WriteInv, WritesInBounds, NoWrite
<1>8. AnswerInv
  BY <1>1 DEF Init, AnswerInv, AnswersTruly, WholeItem, LengthOrError, NoOutcome
<1>9. QED
  BY <1>4, <1>5, <1>6, <1>7, <1>8 DEF IInv

\* Duktape clears what a call leaves: the next one starts as the first.
LEMMA ReturnKeeps ==
  ASSUME IInv, Return
  PROVE  IInv'
<1>1. Init'
  BY DEF Return, Init, At, IInv, CallInv
<1>2. QED
  BY <1>1, Initially, PTL

LEMMA StepKeeps ==
  ASSUME IInv, Next
  PROVE  IInv'
<1>1. CASE Call
  BY <1>1, CallKeeps
<1>2. CASE RefuseArguments \/ RefuseSource
  BY <1>2, RefusalKeeps DEF RefuseArguments, RefuseSource
<1>3. CASE Convert
  BY <1>3, ConvertKeeps
<1>4. CASE RawFails \/ ProbeFails
  BY <1>4, ErrorKeeps
<1>5. CASE RawLoad
  BY <1>5, RawLoadKeeps
<1>6. CASE RawOverflows
  BY <1>6, RawOverflowsKeeps
<1>7. CASE Probe
  BY <1>7, ProbeKeeps
<1>8. CASE Allocate
  BY <1>8, AllocateKeeps
<1>9. CASE AllocateFails \/ FillFails \/ RefuseHash
  BY <1>9, RefusalKeeps DEF AllocateFails, FillFails, RefuseHash
<1>10. CASE Fill
  BY <1>10, FillKeeps
<1>11. CASE Wrap
  BY <1>11, WrapKeeps
<1>12. CASE Return
  BY <1>12, ReturnKeeps
<1>13. QED
  BY <1>1, <1>2, <1>3, <1>4, <1>5, <1>6, <1>7, <1>8, <1>9, <1>10, <1>11, <1>12
     DEF Next, Step, Raw, Load

LEMMA StutterKeeps ==
  ASSUME IInv, UNCHANGED vars
  PROVE  IInv'
<1>1. /\ UNCHANGED << host, pc, call, held, frame, request, len, buffer, wrote, outcome >>
      /\ b' = b /\ Exists(request)' = Exists(request)
      /\ Left(request)' = Left(request) /\ Requested' = Requested
  BY SameQuestion DEF vars
<1>2. CallInv' /\ DataInv'
  BY <1>1 DEF IInv, CallInv, DataInv
<1>3. FrameInv'
  BY <1>1 DEF IInv, FrameInv, FrameBalanced, At
<1>4. AskInv' /\ RouteInv' /\ RoomInv'
  BY <1>1 DEF IInv, AskInv, RouteInv, RoomInv
<1>5. WriteInv'
  BY <1>1 DEF IInv, WriteInv, WritesInBounds
<1>6. AnswerInv'
  BY <1>1 DEF IInv, AnswerInv, AnswersTruly, WholeItem, LengthOrError, NoOutcome
<1>7. QED
  BY <1>2, <1>3, <1>4, <1>5, <1>6 DEF IInv

\* IInv holds in every state, whatever calls a script makes and whatever the
\* host answers (c/glue.h:15-391).
THEOREM Invariance == Spec => []IInv
<1>1. IInv /\ [Next]_vars => IInv'
  BY StepKeeps, StutterKeeps
<1>2. QED
  BY <1>1, Initially, PTL DEF Spec

------------------------------------------------------------------------------
(* What follows from it. *)

\* Each function finds the buffer it means at index 0, and leaves its result
\* alone or an error on top (c/glue.h:68-80).
THEOREM StackAddressedRight == Spec => []FrameBalanced
<1>1. IInv => FrameBalanced
  BY DEF IInv, FrameInv, FrameBalanced, At
<1>2. QED
  BY <1>1, Invariance, PTL

\* The host never writes past the end of a buffer, and the buffer a binding has made,
\* or one of a raw load the script still refers to, is there when it is written; a raw
\* buffer that is handed over may be gone (c/glue.h:92-98, :126-128).
THEOREM BuffersNotOverrun == Spec => []WritesInBounds
<1>1. IInv => WritesInBounds
  BY DEF IInv, WriteInv
<1>2. QED
  BY <1>1, Invariance, PTL

\* A script gets the whole item or an error, and never takes one for the
\* other (c/glue.h:100-134).
THEOREM ItemsWholeOrRefused == Spec => []AnswersTruly
<1>1. IInv => AnswersTruly
  BY DEF IInv, AnswerInv
<1>2. QED
  BY <1>1, Invariance, PTL

\* The host is asked for what the script said, negative and large numbers included, for every width at which the
\* plain sources fit an int and the group sources a long (c/glue.h:37-49).
THEOREM HostIsAskedRight == Spec => []AsksWhatWasSaid
<1>1. ASSUME IInv
      PROVE  AsksWhatWasSaid
  <2>1. SUFFICES ASSUME pc \in Asking
                 PROVE  AsksWhatWasSaid
    BY DEF AsksWhatWasSaid, Asking
  <2>2. CallInv /\ request = Requested
    BY <1>1, <2>1 DEF IInv, AskInv
  <2>3. b.depth \in { 0, 1, 3, 4 }
    BY <2>2, BindingFacts DEF CallInv
  <2>4. b.depth >= 1 => Arrives(OffsetArg, request.offset)
    BY <2>2, ArgFacts, IntArgFacts DEF Requested
  <2>5. b.depth >= 3 => Arrives(IndexArg, request.index)
    BY <2>2, ArgFacts, IntArgFacts DEF Requested
  <2>6. b.depth >= 3 =>
          /\ SourceArg.type = "number" => Arrives(SourceArg, request.source)
          /\ \A name \in SourceNames : SourceArg = Exported(name) => request.source = SourceCode(name)
    <3>1. b.depth >= 3 => request.source = extract_source(SourceArg) /\ SourceArg.val \in Int
      BY <2>2, ArgFacts DEF Requested
    <3>2. SourceArg.type = "number" => extract_source(SourceArg) = IntArg(SourceArg)
      BY DEF extract_source
    <3>3. QED
      BY <3>1, <3>2, IntArgFacts, SourceFacts
  <2>7. b.depth = 4 => Arrives(FieldArg, request.field)
    BY <2>2, ArgFacts, IntArgFacts DEF Requested
  <2>8. QED
    BY <2>4, <2>5, <2>6, <2>7 DEF AsksWhatWasSaid
<1>2. QED
  BY <1>1, Invariance, PTL

\* What is asked for is a size_t whatever number the script passed, and every
\* other variable keeps its type (c/glue.h:94, :146-148).
THEOREM TypesKept == Spec => []TypeOK
<1>1. ASSUME IInv
      PROVE  TypeOK
  <2>1. Len(call.args) = Arity(b)
    BY <1>1, BindingFacts, LenProperties, SeqDef DEF IInv, CallInv
  <2>2. \A i \in 1 .. Len(frame) : frame[i] \in Kinds
    BY <1>1, FrameSeq, ElementOfSeq
  <2>3. pc \in Labels /\ b \in Bindings /\ held \in BOOLEAN
    BY <1>1 DEF IInv, CallInv
  <2>4. /\ request \in Requests /\ len \in Sizes /\ buffer \in Buffers
        /\ wrote \in Writes /\ outcome \in Outcomes
    BY <1>1 DEF IInv, DataInv
  <2>5. QED
    BY <2>1, <2>2, <2>3, <2>4 DEF TypeOK, Labels, Requests, Buffers, Writes, Outcomes
<1>2. QED
  BY <1>1, Invariance, PTL
==============================================================================

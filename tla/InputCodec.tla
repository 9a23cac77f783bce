------------------------------ MODULE InputCodec ------------------------------
(***************************************************************************)
(* The binary form of an Input (schema/args.h, generated from args.mol):   *)
(* how the assembler builds it, how the loader verifies it and takes it    *)
(* apart (c/glue.h:563-627).  A text is a sequence of cells; a number      *)
(* takes NumSize of them, the least significant first.  The library's      *)
(* readers of bytes and of vectors are modelled from how they are used.    *)
(*                                                                         *)
(*   Input:   total, offset of source, offset of args, source, args        *)
(*   source:  0, bytes  or  1, index, source (two numbers wide)            *)
(*   bytes:   count, cells                                                 *)
(*   args:    total, offset of each item, items                            *)
(***************************************************************************)
EXTENDS Integers, Sequences, SequencesExt

CONSTANTS
  NumSize,            \* MOL_NUM_T_SIZE: 4
  Base,               \* the values of a cell: 256
  Inputs,             \* values of type Input
  Texts               \* what the loader may be given

\* Base to the power of n.
Power(n) == LET power[k \in 0 .. n] == IF k = 0 THEN 1 ELSE Base * power[k - 1] IN power[n]

\* How many values a number can have.
NumMod == Power(NumSize)
ASSUME CodecAssumption == NumSize \in Nat \ {0} /\ Base \in Nat /\ Base > NumSize
ASSUME TextsAssumption == \A t \in Texts : t \in Seq(0 .. Base - 1)

------------------------------------------------------------------------------
(* Building. *)

\* The least significant cell first, then what is left.
Digits(n, cells) ==
  LET rest[k \in 0 .. cells] == IF k = 0 THEN n ELSE rest[k - 1] \div Base
  IN  [ k \in 1 .. cells |-> rest[k - 1] % Base ]
Pack(n) == Digits(n, NumSize)

Bytes(code) == [ tag |-> 0, code |-> code, index |-> 0, source |-> 0 ]
ExistingCell(index, source) ==
  [ tag |-> 1, code |-> << >>, index |-> index, source |-> source ]

EncodeBytes(code) == Pack(Len(code)) \o code
EncodeSource(s) ==
  Pack(s.tag) \o IF s.tag = 0 THEN EncodeBytes(s.code)
                 ELSE Pack(s.index) \o Digits(s.source, 2 * NumSize)
EncodeVec(args) ==
  LET items == [ i \in DOMAIN args |-> EncodeBytes(args[i]) ]
      body(n) == FlattenSeq(SubSeq(items, 1, n))
      header == NumSize * (Len(args) + 1)
      offsets == FlattenSeq([ i \in DOMAIN args |-> Pack(header + Len(body(i - 1))) ])
  IN  Pack(header + Len(body(Len(args)))) \o offsets \o body(Len(args))

\* A field that was never set has its default.
OrDefault(field, default) == IF field = << >> THEN default ELSE field

\* Faulty: the second offset counts from the first field.
BuildRelative(source, args) ==
  LET s == OrDefault(source, EncodeSource(Bytes(<< >>)))
      v == OrDefault(args, EncodeVec(<< >>))
  IN  Pack(3 * NumSize + Len(s) + Len(v)) \o Pack(3 * NumSize) \o Pack(Len(s)) \o s \o v

MolBuilder_Input_build(source, args) ==
  LET s == OrDefault(source, EncodeSource(Bytes(<< >>)))
      v == OrDefault(args, EncodeVec(<< >>))
  IN  Pack(3 * NumSize + Len(s) + Len(v)) \o Pack(3 * NumSize)
      \o Pack(3 * NumSize + Len(s)) \o s \o v

Encode(v) == MolBuilder_Input_build(EncodeSource(v.source), EncodeVec(v.args))

\* The numbers of an Input fit their widths, and so does its size.
ASSUME InputsAssumption ==
  \A v \in Inputs :
    /\ v = [ source |-> v.source, args |-> v.args ]
    /\ \/ v.source = Bytes(v.source.code) /\ v.source.code \in Seq(0 .. Base - 1)
       \/ /\ v.source = ExistingCell(v.source.index, v.source.source)
          /\ v.source.index \in 0 .. NumMod - 1
          /\ v.source.source \in 0 .. Power(2 * NumSize) - 1
    /\ v.args \in Seq(Seq(0 .. Base - 1))
    /\ Len(Encode(v)) < NumMod

------------------------------------------------------------------------------
VARIABLES
  text,
  pc,                 \* the check or the read to come
  args_at,            \* offsets[1], where the arguments begin
  item,               \* the loader's loop counter over the arguments
  read,               \* the cells looked at last
  found               \* what the loader takes

vars == << text, pc, args_at, item, read, found >>

Nothing == [ source |-> Bytes(<< >>), args |-> << >> ]
Init ==
  /\ text \in Texts
  /\ pc = "size"
  /\ args_at = 0 /\ item = 0
  /\ read = [ lo |-> 0, hi |-> 0 ]
  /\ found = Nothing

Size == Len(text)
CellAt(i) == IF i < Size THEN text[i + 1] ELSE 0

\* mol_unpack_number at an offset, of NumSize cells or, for a cell's source,
\* of twice as many.
Value(at, cells) ==
  LET high[k \in 0 .. cells] ==
        IF k = 0 THEN 0 ELSE Base * high[k - 1] + CellAt(at + cells - k)
  IN  high[cells]
Num(at) == Value(at, NumSize)
Cells(lo, hi) == [ k \in 1 .. hi - lo |-> CellAt(lo + k - 1) ]

At(label) == pc = label
Reads(lo, hi) == read' = [ lo |-> lo, hi |-> hi ]
ReadsNum(at) == Reads(at, at + NumSize)

\* A check: go on where it holds, give up where it does not.
Check(test, label) == pc' = IF test THEN label ELSE "rejected"

------------------------------------------------------------------------------
(* MolReader_Input_verify, not compatible: two fields, no more. *)

CheckSize ==
  /\ At("size")
  /\ Check(Size >= NumSize, "total")
  /\ UNCHANGED << text, args_at, item, read, found >>

CheckTotal ==
  /\ At("total")
  /\ ReadsNum(0)
  /\ Check(Num(0) = Size /\ Size >= 2 * NumSize, "offset")
  /\ UNCHANGED << text, args_at, item, found >>

FieldCount(offset) == (offset \div NumSize) - 1
\* Faulty: the remainder is not looked at.
Beyond(offset) == offset >= 2 * NumSize
Aligned(offset) == offset % NumSize = 0 /\ offset >= 2 * NumSize

FieldsFit(offset) ==
  /\ Aligned(offset) /\ FieldCount(offset) = 2
  /\ Size >= NumSize * (FieldCount(offset) + 1)

CheckOffset ==
  /\ At("offset")
  /\ ReadsNum(NumSize)
  /\ Check(FieldsFit(Num(NumSize)), "offsets")
  /\ UNCHANGED << text, args_at, item, found >>

SourceAt == Num(NumSize)

\* Faulty: the last offset is not held against the total.
OffsetsOrdered(next) == SourceAt <= next
OffsetsFit(next) == SourceAt <= next /\ next <= Size

CheckOffsets ==
  /\ At("offsets")
  /\ ReadsNum(2 * NumSize)
  /\ Check(OffsetsFit(Num(2 * NumSize)), "source")
  /\ args_at' = Num(2 * NumSize)
  /\ UNCHANGED << text, item, found >>

\* Bytes between two offsets.
BytesFit(lo, hi) == hi - lo >= NumSize /\ (NumSize + Num(lo)) % NumMod = hi - lo

SourceFits ==
  /\ args_at - SourceAt >= NumSize
  /\ \/ Num(SourceAt) = 0 /\ BytesFit(SourceAt + NumSize, args_at)
     \/ Num(SourceAt) = 1 /\ args_at - (SourceAt + NumSize) = 3 * NumSize

\* A number is read only where there is one.
CheckSource ==
  /\ At("source")
  /\ IF args_at - SourceAt < NumSize THEN UNCHANGED read
     ELSE IF Num(SourceAt) = 0 /\ args_at - SourceAt >= 2 * NumSize
     THEN ReadsNum(SourceAt + NumSize)
     ELSE ReadsNum(SourceAt)
  /\ Check(SourceFits, "vector")
  /\ UNCHANGED << text, args_at, item, found >>

\* What MolReader_BytesVec_verify stands for: a total, offsets that are whole
\* numbers, in order and inside, and bytes between each two of them.
VecLength ==
  IF Num(args_at) = NumSize THEN 0 ELSE (Num(args_at + NumSize) \div NumSize) - 1
ArgStart(i) == args_at + Num(args_at + NumSize * (i + 1))
ArgEnd(i) == IF i + 1 = VecLength THEN Size ELSE ArgStart(i + 1)
VectorFits ==
  LET room == Size - args_at
  IN  /\ room >= NumSize /\ Num(args_at) = room
      /\ \/ room = NumSize
         \/ /\ room >= 2 * NumSize
            /\ Aligned(Num(args_at + NumSize)) /\ room >= Num(args_at + NumSize)
            /\ \A i \in 0 .. VecLength - 1 :
                 ArgEnd(i) <= Size /\ BytesFit(ArgStart(i), ArgEnd(i))

CheckVector ==
  /\ At("vector")
  /\ Reads(args_at, Size)
  /\ Check(VectorFits, "args")
  /\ UNCHANGED << text, args_at, item, found >>

------------------------------------------------------------------------------
(* The loader takes the Input apart: the arguments, then the source. *)

\* Faulty: its count comes with it.
TakeArgCounted ==
  /\ At("args") /\ item < VecLength
  /\ Reads(ArgStart(item), ArgEnd(item))
  /\ found' = [ found EXCEPT !.args = Append(@, Cells(ArgStart(item), ArgEnd(item))) ]
  /\ item' = item + 1
  /\ UNCHANGED << text, pc, args_at >>

\* MolReader_BytesVec_get and the raw bytes of the item.
TakeArg ==
  /\ At("args") /\ item < VecLength
  /\ Reads(ArgStart(item) + NumSize, ArgEnd(item))
  /\ found' = [ found EXCEPT !.args =
                  Append(@, Cells(ArgStart(item) + NumSize, ArgEnd(item))) ]
  /\ item' = item + 1
  /\ UNCHANGED << text, pc, args_at >>

EndArgs ==
  /\ At("args") /\ item = VecLength
  /\ pc' = "take"
  /\ UNCHANGED << text, args_at, item, read, found >>

\* mol_union_unpack, then the bytes or the two fields of the cell.
TakeSource ==
  /\ At("take")
  /\ LET inner == SourceAt + NumSize
     IN  /\ Reads(inner, args_at)
         /\ found' = [ found EXCEPT !.source =
              IF Num(SourceAt) = 1
              THEN ExistingCell(Num(inner), Value(inner + NumSize, 2 * NumSize))
              ELSE Bytes(Cells(inner + NumSize, args_at)) ]
  /\ pc' = "taken"
  /\ UNCHANGED << text, args_at, item >>

Verify == CheckSize \/ CheckTotal \/ CheckOffset \/ CheckOffsets \/ CheckSource
          \/ CheckVector
Next == Verify \/ TakeArg \/ EndArgs \/ TakeSource
Spec == Init /\ [][Next]_vars /\ WF_vars(Next)

------------------------------------------------------------------------------
(* Properties. *)

\* Every variable keeps its type.
TypeOK ==
  /\ text \in Seq(0 .. Base - 1)
  /\ pc \in { "size", "total", "offset", "offsets", "source", "vector", "args", "take",
              "taken", "rejected" }
  /\ args_at \in 0 .. NumMod - 1
  /\ item \in 0 .. Size
  /\ \A i \in DOMAIN found.args : found.args[i] \in Seq(0 .. Base - 1)
  /\ found.source.code \in Seq(0 .. Base - 1)

\* Each check comes before the read that relies on it: no cell outside of the
\* text is looked at, neither by the verification nor by the loader after it
\* (schema/args.h:83-153, c/glue.h:569-627).
ReadsInside == 0 <= read.lo /\ read.lo <= read.hi /\ read.hi <= Size

\* The loader takes out what the assembler put in: every text the builder
\* makes is accepted, with just the source and the arguments it was made of
\* (schema/args.h:160-203 against c/glue.h:563-627).
RoundTrip ==
  \A v \in Inputs : text = Encode(v) =>
    /\ pc # "rejected"
    /\ pc = "taken" => found = v

\* An Input has one text: what the verification accepts is, cell for cell,
\* what the builder makes of the Input the loader takes.  No two programs see
\* different arguments in the same text, and no cell goes unread.
Canonical == pc = "taken" => text = Encode(found)
==============================================================================

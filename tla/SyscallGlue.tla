----------------------------- MODULE SyscallGlue -----------------------------
(***************************************************************************)
(* The functions of the CKB object (c/glue.h:15-391): a script calls one   *)
(* with JavaScript values, the function checks and converts them, asks the *)
(* host with one system call or with two - one for the length, one to fill *)
(* a buffer of that length - and returns a value or throws.  One call is   *)
(* in progress at a time; one action is one step of it that can fail or    *)
(* reaches the host.  The seven C functions the bindings share differ in   *)
(* the arguments they take, not in their steps: a binding is a record that *)
(* says which arguments it has.                                            *)
(*                                                                         *)
(* Widths are parameters: a duk_int_t runs from -IntHalf to IntHalf - 1 and  *)
(* a size_t from 0 to 2 * SizeHalf - 1, where a build has two powers of two. *)
(***************************************************************************)
EXTENDS DuktapeStack

CONSTANTS
  IntHalf, SizeHalf,
  GroupFlag,          \* the bit the group sources have over INPUT and OUTPUT
  HashSize,           \* 32
  Values,             \* the JavaScript values scripts pass
  Calls,              \* the calls they make: a binding and its arguments
  Hosts               \* what the host may hold

Smaller(m, n) == IF m < n THEN m ELSE n
IntMax == IntHalf - 1
SizeMod == 2 * SizeHalf

\* The plain sources, up to 4, fit an int; the group sources do not, but fit a
\* long, which strtol reads.
ASSUME WidthAssumption ==
  /\ IntHalf \in Nat /\ SizeHalf \in Nat /\ 4 <= IntMax /\ IntHalf < SizeHalf
  /\ GroupFlag \in Nat /\ IntMax < GroupFlag /\ GroupFlag + 2 < SizeHalf
  /\ HashSize \in 0 .. SizeHalf - 1

\* A value: its type, the number it is or strtol reads in it (0 when there is
\* none; NaN is 0 too, as duk_get_int has it), the size of a buffer.
ASSUME ValuesAssumption ==
  Values \subseteq [ type : { "number", "string", "buffer", "other" },
                     val : Int, size : Nat ]

JsNumber(v) == [ type |-> "number", val |-> v, size |-> 0 ]
JsString(v) == [ type |-> "string", val |-> v, size |-> 0 ]
JsBuffer(n) == [ type |-> "buffer", val |-> 0, size |-> n ]
Undefined == [ type |-> "other", val |-> 0, size |-> 0 ]

------------------------------------------------------------------------------
(* The bindings. *)

\* Which system call, whether the caller brings the buffer, and how many
\* arguments say what to load: offset, then index and source, then field.
Binding(call, raw, depth) == [ call |-> call, raw |-> raw, depth |-> depth ]

Hashes == { "tx_hash", "script_hash" }
Singles == { "script", "transaction" }
Items == { "cell", "input", "header", "witness", "cell_data" }
ItemFields == { "cell_by_field", "input_by_field" }

Bindings ==
  [ call : Hashes, raw : { FALSE }, depth : { 0 } ]
  \union [ call : Singles, raw : BOOLEAN, depth : { 1 } ]
  \union [ call : Items, raw : BOOLEAN, depth : { 3 } ]
  \union [ call : ItemFields, raw : BOOLEAN, depth : { 4 } ]

\* The number of arguments ckb_init registers a binding with: Duktape pads or
\* cuts the arguments of every call to it.
Arity(b) ==
  CASE b.call \in Hashes -> 0
    [] b.call \in Singles -> IF b.raw THEN 2 ELSE 1
    [] b.call \in Items -> IF b.raw THEN 4 ELSE 3
    [] b.call \in ItemFields -> IF b.raw THEN 5 ELSE 4

\* Faulty: the source, popped by nobody.
TakenButSource(b) == (IF b.raw THEN 1 ELSE 0) + Smaller(b.depth, 2)

\* The number of arguments the C function pops, its buffer first.
First(b) == IF b.raw THEN 1 ELSE 0
Taken(b) == First(b) + b.depth

\* CKB.SOURCE: the group sources do not fit a number a script can hold
\* exactly, so they are strings.
SourceNames == { "INPUT", "OUTPUT", "CELL_DEP", "HEADER_DEP", "GROUP_INPUT", "GROUP_OUTPUT" }
SourceCode(name) ==
  CASE name = "INPUT" -> 1
    [] name = "OUTPUT" -> 2
    [] name = "CELL_DEP" -> 3
    [] name = "HEADER_DEP" -> 4
    [] name = "GROUP_INPUT" -> GroupFlag + 1
    [] name = "GROUP_OUTPUT" -> GroupFlag + 2

\* Faulty: all of them are numbers.
ExportedAsNumber(name) == JsNumber(SourceCode(name))
Exported(name) ==
  IF name \in { "GROUP_INPUT", "GROUP_OUTPUT" } THEN JsString(SourceCode(name))
  ELSE JsNumber(SourceCode(name))

------------------------------------------------------------------------------
(* Conversions. *)

Clamp(n, half) == IF n < -half THEN -half ELSE Smaller(n, half - 1)

\* duk_get_int clamps; storing the int in a size_t extends its sign.
AsSize(i) == i % SizeMod
IntArg(v) == AsSize(Clamp(v.val, IntHalf))

\* extract_source: strtol saturates as a long, which is as wide as size_t.
extract_source(v) ==
  IF v.type = "string" THEN AsSize(Clamp(v.val, SizeHalf)) ELSE IntArg(v)

\* Casting a uint64_t to duk_int_t keeps the low bits.
AsInt(v) ==
  LET low == v % (2 * IntHalf) IN IF low > IntMax THEN low - 2 * IntHalf ELSE low

\* push_checked_integer's test.
Checked(v) == v = AsSize(AsInt(v))

------------------------------------------------------------------------------
(* The host: the items of the transaction by call, index, source and field *)
(* (0 where the call has none), the length of its hashes, the code it      *)
(* answers for an item that is not there, whether it fails a second call   *)
(* for one that is, and whether the script is short of memory.  The        *)
(* transaction does not change while a script runs: both calls of a load   *)
(* see the same items.  No item takes more than half of the address space. *)

ASSUME CallsAssumption ==
  \A c \in Calls : c.binding \in Bindings /\ c.args \in [ 1 .. Arity(c.binding) -> Values ]
ASSUME HostsAssumption ==
  \A h \in Hosts :
    /\ \A key \in DOMAIN h.sizes : h.sizes[key] \in 0 .. SizeHalf - 1
    /\ h.hash \in 0 .. SizeHalf - 1
    /\ h.missing \in 1 .. IntMax
    /\ h.flaky \in BOOLEAN /\ h.tight \in BOOLEAN

VARIABLES
  host,
  pc,                 \* "idle", "check", "raw", "probe", "allocate", "fill",
                      \* "wrap" or "done"
  call,               \* the binding called and its arguments
  held,               \* does the script keep a reference to its buffer?
  frame,              \* the value stack of the C function
  request,            \* what the host is asked for
  len,                \* the local len
  buffer,             \* the buffer given to the host
  wrote,              \* the last write of the host to it
  outcome             \* what the script gets

vars == << host, pc, call, held, frame, request, len, buffer, wrote, outcome >>

b == call.binding
OffsetArg == call.args[First(b) + 1]
IndexArg == call.args[First(b) + 2]
SourceArg == call.args[First(b) + 3]
FieldArg == call.args[First(b) + 4]

\* Stands for no call, between calls.
NoCall == [ binding |-> Binding("tx_hash", FALSE, 0), args |-> << >> ]
NoRequest == [ offset |-> 0, index |-> 0, source |-> 0, field |-> 0 ]
NoBuffer == [ size |-> 0, live |-> FALSE ]
NoWrite == [ bytes |-> 0, size |-> 0, live |-> TRUE ]
NoOutcome == [ kind |-> "none", val |-> 0 ]

\* What is asked for, what is left of it from the offset on, and the code the
\* host returns.
Key(r) == << b.call, r.index, r.source, r.field >>
Exists(r) == b.depth = 0 \/ Key(r) \in DOMAIN host.sizes
Left(r) ==
  IF b.depth = 0 THEN host.hash
  ELSE LET size == host.sizes[Key(r)] IN IF r.offset < size THEN size - r.offset ELSE 0

\* The host fills the buffer as far as it goes and stores the full length.
HostWrites(room) ==
  wrote' = [ bytes |-> Smaller(room, Left(request)), size |-> buffer.size,
             live |-> buffer.live ]

Init ==
  /\ host \in Hosts
  /\ pc = "idle"
  /\ call = NoCall /\ held = FALSE
  /\ frame = << >>
  /\ request = NoRequest /\ len = 0
  /\ buffer = NoBuffer /\ wrote = NoWrite /\ outcome = NoOutcome

At(label) == pc = label
Goto(label) == pc' = label /\ UNCHANGED << host, call, held >>

\* The value on top is the result; an error is thrown to the script.
Answer(value) == Goto("done") /\ outcome' = value
Number(v) == [ kind |-> "number", val |-> v ]
Throw ==
  /\ Answer([ kind |-> "thrown", val |-> 0 ])
  /\ frame' = Push(frame, "error")
  /\ UNCHANGED << request, len, buffer >>

\* The script calls a binding; it may keep its buffer or hand it over.
Call ==
  /\ At("idle")
  /\ pc' = "check"
  /\ call' \in Calls
  /\ held' \in BOOLEAN
  /\ frame' = [ i \in 1 .. Arity(call'.binding) |-> "value" ]
  /\ UNCHANGED << host, request, len, buffer, wrote, outcome >>

Typed ==
  /\ b.raw => call.args[1].type = "buffer"
  /\ b.depth >= 1 => OffsetArg.type = "number"
  /\ b.depth >= 3 => IndexArg.type = "number"
  /\ b.depth = 4 => FieldArg.type = "number"
SourceTyped == b.depth >= 3 => SourceArg.type \in { "string", "number" }

RefuseArguments ==
  /\ At("check") /\ ~ Typed
  /\ Throw
  /\ UNCHANGED wrote

\* extract_source throws while the arguments are still on the stack.
RefuseSource ==
  /\ At("check") /\ Typed /\ ~ SourceTyped
  /\ Throw
  /\ UNCHANGED wrote

Requested ==
  [ offset |-> IF b.depth >= 1 THEN IntArg(OffsetArg) ELSE 0,
    index  |-> IF b.depth >= 3 THEN IntArg(IndexArg) ELSE 0,
    source |-> IF b.depth >= 3 THEN extract_source(SourceArg) ELSE 0,
    field  |-> IF b.depth = 4 THEN IntArg(FieldArg) ELSE 0 ]

\* The arguments are taken and popped.  From there on the buffer of a raw load
\* is kept alive by the script's own reference to it alone.
Convert ==
  /\ At("check") /\ Typed /\ SourceTyped
  /\ request' = Requested
  /\ frame' = PopN(frame, Taken(b))
  /\ IF b.raw
     THEN buffer' = [ size |-> call.args[1].size, live |-> held ] /\ Goto("raw")
     ELSE buffer' = NoBuffer /\ Goto(IF b.depth = 0 THEN "allocate" ELSE "probe")
  /\ len' = IF b.depth = 0 THEN HashSize ELSE 0
  /\ UNCHANGED << wrote, outcome >>

------------------------------------------------------------------------------
(* Raw loads: the script's buffer. *)

\* Faulty: the code as it is.
RawFailsUnsigned ==
  /\ At("raw") /\ ~ Exists(request)
  /\ Answer(Number(host.missing))
  /\ frame' = Push(frame, "number")
  /\ UNCHANGED << request, len, buffer, wrote >>

RawFails ==
  /\ At("raw") /\ ~ Exists(request)
  /\ Answer(Number(-host.missing))
  /\ frame' = Push(frame, "number")
  /\ UNCHANGED << request, len, buffer, wrote >>

RawLoad ==
  /\ At("raw") /\ Exists(request) /\ Checked(Left(request))
  /\ HostWrites(buffer.size)
  /\ len' = Left(request)
  /\ Answer(Number(AsInt(Left(request))))
  /\ frame' = Push(frame, "number")
  /\ UNCHANGED << request, buffer >>

\* The length does not fit: push_checked_integer throws, after the write.
RawOverflows ==
  /\ At("raw") /\ Exists(request) /\ ~ Checked(Left(request))
  /\ HostWrites(buffer.size)
  /\ Throw

------------------------------------------------------------------------------
(* Loads into a new buffer: ask for the length, then for the bytes. *)

ProbeFails ==
  /\ At("probe") /\ ~ Exists(request)
  /\ Answer(Number(-host.missing))
  /\ frame' = Push(frame, "number")
  /\ UNCHANGED << request, len, buffer, wrote >>

Probe ==
  /\ At("probe") /\ Exists(request)
  /\ len' = Left(request)
  /\ Goto("allocate")
  /\ UNCHANGED << frame, request, buffer, wrote, outcome >>

\* duk_get_buffer(0): the buffer at the bottom of the frame, or NULL.
Bottom(s, size) ==
  IF s[1] = "buffer" THEN [ size |-> size, live |-> TRUE ] ELSE NoBuffer

\* Faulty: the size as a duk_int_t.
AllocateNarrow ==
  /\ At("allocate")
  /\ frame' = Push(frame, "buffer")
  /\ buffer' = Bottom(frame', Smaller(len, IntMax))
  /\ Goto("fill")
  /\ UNCHANGED << request, len, wrote, outcome >>

Allocate ==
  /\ At("allocate")
  /\ frame' = Push(frame, "buffer")
  /\ buffer' = Bottom(frame', len)
  /\ Goto("fill")
  /\ UNCHANGED << request, len, wrote, outcome >>

\* Duktape throws when it finds no memory for the buffer or its wrapper.
AllocateFails ==
  /\ pc \in { "allocate", "wrap" } /\ host.tight
  /\ Throw
  /\ UNCHANGED wrote

\* check_ckb_syscall_ret throws.
FillFails ==
  /\ At("fill") /\ host.flaky
  /\ Throw
  /\ UNCHANGED wrote

\* Faulty: the length of the buffer is not passed on.
FillUnsized ==
  /\ At("fill") /\ ~ host.flaky
  /\ HostWrites(0)
  /\ len' = Left(request)
  /\ Goto("wrap")
  /\ UNCHANGED << frame, request, buffer, outcome >>

Fill ==
  /\ At("fill") /\ ~ host.flaky
  /\ HostWrites(len)
  /\ len' = Left(request)
  /\ Goto("wrap")
  /\ UNCHANGED << frame, request, buffer, outcome >>

\* A hash is 32 bytes or nothing.
RefuseHash ==
  /\ At("wrap") /\ b.depth = 0 /\ len # HashSize
  /\ Throw
  /\ UNCHANGED wrote

\* Faulty: the buffer stays below.
WrapUnpopped ==
  /\ At("wrap") /\ (b.depth = 0 => len = HashSize)
  /\ Answer([ kind |-> "arraybuffer", val |-> len ])
  /\ frame' = Push(frame, "arraybuffer")
  /\ UNCHANGED << request, len, buffer, wrote >>

\* The buffer gives way to an ArrayBuffer over it: duk_swap(0, 1), duk_pop.
SwapBottom(s) == [ s EXCEPT ![1] = s[2], ![2] = s[1] ]
Wrap ==
  /\ At("wrap") /\ (b.depth = 0 => len = HashSize)
  /\ Answer([ kind |-> "arraybuffer", val |-> len ])
  /\ frame' = Pop(SwapBottom(Push(frame, "arraybuffer")))
  /\ UNCHANGED << request, len, buffer, wrote >>

\* Duktape takes the result, or unwinds, and clears the frame.
Return ==
  /\ At("done")
  /\ pc' = "idle" /\ call' = NoCall /\ held' = FALSE
  /\ UNCHANGED host
  /\ frame' = << >> /\ request' = NoRequest /\ len' = 0
  /\ buffer' = NoBuffer /\ wrote' = NoWrite /\ outcome' = NoOutcome

Raw == RawFails \/ RawLoad \/ RawOverflows
Load == ProbeFails \/ Probe \/ Allocate \/ AllocateFails \/ FillFails \/ Fill
        \/ RefuseHash \/ Wrap
Step == RefuseArguments \/ RefuseSource \/ Convert \/ Raw \/ Load \/ Return
Next == Call \/ Step

\* The C code of a call runs to its end; the script need not make calls.
Spec == Init /\ [][Next]_vars /\ WF_vars(Step)

------------------------------------------------------------------------------
(* Properties. *)

Sizes == 0 .. SizeMod - 1

\* Every variable keeps its type: in particular what the host is asked for is
\* a size_t whatever number the script passed (c/glue.h:94, :146-148).
TypeOK ==
  /\ pc \in { "idle", "check", "raw", "probe", "allocate", "fill", "wrap", "done" }
  /\ b \in Bindings /\ Len(call.args) = Arity(b) /\ held \in BOOLEAN
  /\ \A i \in 1 .. Len(frame) : frame[i] \in Kinds
  /\ request.offset \in Sizes /\ request.index \in Sizes
  /\ request.source \in Sizes /\ request.field \in Sizes
  /\ len \in Sizes
  /\ buffer.size \in Nat /\ buffer.live \in BOOLEAN
  /\ wrote.bytes \in Nat /\ wrote.size \in Nat /\ wrote.live \in BOOLEAN
  /\ outcome.kind \in { "none", "number", "arraybuffer", "thrown" } /\ outcome.val \in Int

\* The functions address their values from the bottom of the frame (index 0,
\* swap 0 with 1, c/glue.h:68-80), which works only if every argument was
\* popped before: the buffer is alone when it is filled, and a call that
\* returns leaves its result alone, one that throws an error on top.
FrameBalanced ==
  /\ pc \in { "fill", "wrap" } => frame = << "buffer" >>
  /\ At("done") =>
       IF outcome.kind = "thrown" THEN frame[Len(frame)] = "error"
       ELSE frame = << outcome.kind >>

\* An ArrayBuffer a script gets is the whole of the item from the offset on:
\* the two calls of a load agree on the length, and the host has filled all
\* of it (c/glue.h:119-134, :175-190, :234-250); a hash has 32 bytes (:71).
WholeItem ==
  outcome.kind = "arraybuffer" =>
    /\ outcome.val = Left(request) /\ Exists(request)
    /\ wrote.bytes = outcome.val
    /\ b.depth = 0 => outcome.val = HashSize

\* A script tells lengths from errors by the sign of a number: a length is
\* the true one and never wraps to a negative number, an error never looks
\* like a length, and a load without a buffer returns a number only for an
\* error (c/glue.h:100-104, :121-124).
LengthOrError ==
  outcome.kind = "number" =>
    IF Exists(request) THEN b.raw /\ outcome.val = Left(request)
    ELSE outcome.val < 0

\* What a script gets from a load is the whole item or an error, and it can tell
\* which (c/glue.h:100-134).
AnswersTruly == WholeItem /\ LengthOrError

\* A number that fits arrives as it is, one above as the largest that does.  A
\* negative one becomes a size beyond every item, and so finds nothing: it never
\* stands for a small offset or index.
Arrives(v, size) == IF v.val < 0 THEN size >= SizeHalf ELSE size = Smaller(v.val, IntMax)

\* The host is asked for what the script said: numbers arrive, wrapped or clamped
\* as they may be, for what they are, and each source CKB.SOURCE offers names
\* that source, also where it does not fit a number (c/glue.h:37-49, :94, :402-415).
AsksWhatWasSaid ==
  pc \in { "raw", "probe", "allocate", "fill", "wrap" } =>
    /\ b.depth >= 1 => Arrives(OffsetArg, request.offset)
    /\ b.depth >= 3 =>
         /\ Arrives(IndexArg, request.index)
         /\ SourceArg.type = "number" => Arrives(SourceArg, request.source)
         /\ \A name \in SourceNames :
              SourceArg = Exported(name) => request.source = SourceCode(name)
    /\ b.depth = 4 => Arrives(FieldArg, request.field)

\* The host never writes past the end of the buffer it is given, the script's own
\* or the new one (c/glue.h:92-98, :126-128).  The new one, and one of a raw load to
\* which the script has a reference elsewhere, is still there when it is written.  Of
\* a raw buffer handed over nothing is claimed: the pop before the system call takes
\* its last reference away.
WritesInBounds ==
  /\ wrote.bytes <= wrote.size
  /\ b.raw => (held => wrote.live)
  /\ ~ b.raw => wrote.live
==============================================================================

# A TLA+ model of ckb-duktape

ckb-duktape runs JavaScript as a script of the CKB blockchain: a small C program
embeds the Duktape engine, finds the code it is asked to run, runs it, and turns
the outcome into the exit code by which the chain accepts or rejects a
transaction. This directory holds TLA+ modules that model the C code around the
engine and three parts of the engine itself (memory, threads, bytecode),
configurations that check them with TLC, and proofs checked by TLAPS.
Paths and line numbers are those of the repository (`c/`, `schema/`,
`duktape/`).

    tlc -config MCLoadSource.cfg MCLoadSource.tla      # check a run
    tlc -workers 2 -config MCHeap.cfg MCHeap.tla       # about two minutes
    tlapm CoroutineProofs.tla                          # check the proofs

## The system

One operating-system thread, no locks, no messages: the difficulties are of
another kind. Data is decoded in the buffer it is read from; C code keeps its
values on an untyped stack that the engine, the caller and an exception thrown
in between all manipulate; every call can fail half way; a script has a budget
of memory and cycles; and a text is written by one program and read by another.

| part | code | state it keeps | operations | module |
|---|---|---|---|---|
| hexadecimal arguments | `c/glue.h:488-526`, the same text in `c/native_args_assembler.c:8-46` | a buffer that is input and output at once, two cursors | decode one pair, stop at the end, at an odd length, at a bad digit | `Hexadecimal`, `HexSpec`, `HexBytes`, `HexDecode` |
| script loader | `c/glue.h:458-486`, `:528-635` | where the input lies, the value stack, `CKB.ARGV`, the return code | find the input (argv or script args), verify it, fill `CKB.ARGV`, fetch the code (in the input or in a cell), compile, call | `LoadSource` |
| entry points | `c/entry.c`, `c/dump_load.c`, `c/dump_load_nocleanup.c`, `c/repl.c:6-24` | the Duktape heap, the exit code | create the heap, call the loader, pop, destroy, exit | `LoadSource`, `Repl` |
| CKB object | `c/glue.h:15-442` | the stack frame of a call, a buffer, a length | one load function per system call, raw (the caller brings the buffer) or not | `SyscallGlue` |
| interactive loop | `c/repl.c:26-204` | line buffer, end-of-input flag, value stack, result | read a line, evaluate it in a protected call, print or complain | `Repl` |
| input format | `schema/args.h` | offsets inside a text | build, verify, take apart | `InputCodec` |
| arguments assembler | `c/native_args_assembler.c:48-196` | what the options have set so far | take an option, read the file, build, print | `ArgsAssembler`, with `HexBytes` |
| bytecode dumper | `c/native_dump_bytecode.c` | the source, the bytecode, two files | read, compile, dump, write | `Toolchain`, `Bytecode` |
| `CKB.debug`, `print`, `alert` | `c/glue.h:51-56`, `c/repl.c:206-289` | - | format and write out | not modelled |
| Duktape: value stack | `duktape/` (vendored) | | the API calls that move values on the stack | `DuktapeStack` |
| Duktape: memory | `duktape/duktape.c:50601-50794`, `:51725-52039`, `:52175-53676`, `:54322-55068` | the lists `heap_allocated`, `refzero_list`, `finalize_list`; counts; the flags FINALIZABLE, FINALIZED, HAVE_FINALIZER, REACHABLE, TEMPROOT | assign, drop, cascade, collect, finalize, destroy | `Heap`, `Marking`, `ObjectMemory`, `Reachability` |
| Duktape: threads | `:44580-44884`, `:65574-65986`, `:68109-69080`, `:78173-79050`, `:79547-79880`, `:80000-80298` | per thread: state, resumer, call stack, count of what forbids a yield; the current thread; the catchpoints on the C stack; the longjmp under way | call, return, throw, try, resume, yield, protected call | `Coroutine`, `ResumeChain` |
| Duktape: bytecode | `:14480-15246`, `:69856-70135`, `:84206-84560` | - | make a template, make a closure, dump, load | `Bytecode` |
| Duktape: the rest | `duktape/` | | lexer, compiler, instructions, property and string tables, built-ins, regular expressions, numbers | not modelled |
| CKB system calls, molecule runtime | `deps/ckb-c-stdlib` (a submodule, not in the tree) | | | external definitions |
| build | `Makefile` | | | not modelled |

How they interact. Off the chain, the dumper turns a source file into bytecode and the
assembler packs a file (or a reference to a cell) and arguments into an Input
and prints it in lower-case hexadecimal. On the chain, an entry point calls the
loader, which decodes that text in place, verifies the Input, puts the arguments
into `CKB.ARGV` and evaluates the code; the code calls the CKB object, which
calls the host. The repl then goes on with lines from standard input, in the
stack frame the loader left. Parts call each other synchronously and share the
value stack and, in the loader, raw pointers into each other's buffers. The
engine calls back at moments its caller does not choose: a reference that is
dropped may run a finalizer, which is a script of its own; and resumes, yields
and errors leave C frames by longjmp.

What makes each part correct, in a sentence:

* decoding: never past the terminator, never over text still unread, an answer
  about the whole text, and the bytes the text stands for (which is not so for
  'A'..'F', below);
* loader: an accepting exit code is earned by the code that was asked for, all
  of it, with its arguments in place, and nothing else ever runs;
* CKB object: the host is asked for what the script said, what comes back is
  whole, and an error cannot be taken for a length;
* interactive loop: each line is evaluated once and leaves no trace on the stack;
* format: what is built is read back, and what is accepted is nothing but what
  can be built;
* assembler: order and priority of options as its usage says;
* dumper and loader: what was compiled is what runs;
* memory: counts are exact, nothing in use is taken back, and no object goes
  before its finalizer;
* threads: every resume is answered once, to the one who asked, no yield leaves
  C frames behind, and no error passes a handler.

`PROJECT.json` lists the hazards one by one, each with its line and the
properties that guard it.

## The modules

**`Hexadecimal`** says which bytes a text stands for, and **`HexSpec`** is the decoder as
one would specify it: one step from a text to its bytes or to the code of its
leftmost fault. **`HexBytes`** is what the code makes of a text: `to_int`, branch by
branch, with what `*value = ch = 'A' + 10` does for upper-case digits (it stores
75), and the shift, the or and the cut to a `char` (`Packed`). **`HexDecode`** is
`decode_hex_in_place`, a step per turn of the loop, on a buffer that is
overwritten while it is read. Part of its property `AnswerJustified` says that the loop
leaves `Decoded(text)` and succeeds exactly if `Decodes(text)`, both taken from
the text as it was; the assembler is modelled with these two.

**`DuktapeStack`** states what the API calls do to the value stack, as a sequence
of the kinds of its values. **`LoadSource`** is the loader under all four
programs. A *world* is chosen at the start: the program, how the input arrives
(hexadecimal argument, script args, neither), what it says, the cells of the
transaction, whether the compiler lays `data[]` over the dead `script[]`
(`input_seg` still points into it, `c/glue.h:541-561` and `:609`), and what may
run short. Each action is one call or early return. A code is a record of its
size, what its first byte announces, and what evaluating it does. `Boot` stands
for the start of all four programs, the debug call `syscall(4097)` of two of them
(`c/dump_load.c:14`), which returns nothing, included. The default branch of the
switch over the union (`c/glue.h:629`) has no action: after
`MolReader_Input_verify` the tag is one of the two (`schema/args.h:91-98`). Only
`data[]` and `script[]` take part in the choice of the stack layout; small locals
do not. **`ScriptVerdict`** is what the chain is promised: the request's code runs
at most once, and acceptance requires that it ended well or that nothing was asked
for. `LoadSource` implements it under a refinement mapping that reads the request
off the world alone (`Asked`).

**`SyscallGlue`** models the seven C functions the bindings share as one machine:
a binding is a record of its system call, whether it is raw and which arguments it
has. Widths are parameters: `int` runs from `-IntHalf` to `IntHalf - 1` and
`size_t` from 0 to `2 * SizeHalf - 1`, so that clamping (`duk_get_int`), sign
extension into `size_t`, `strtol` and the cast in `push_checked_integer` happen at
small numbers. The two system calls of a load see the same item, since a
transaction does not change while its scripts run; but the second may fail where
the first did not, and memory may run short between them. A value is its type, its
number and its size.

**`Repl`** models the loop of `c/repl.c` character by character, with the line
buffer it never clears, the safe call that shares the caller's frame, and the
index -4 that reaches below the line's own three values. How a line ends
(compiled or refused, value or error, printable or not, file written or not) is
a choice. `from` and `log` are history.

**`ArgsAssembler`** is the option loop and the construction of the Input, builders
being the values they have collected. A text after `-b` is decoded as the code
decodes it, upper-case digits included (`Decoded`). The cell reference goes into a shadowing
builder that was already finalised; what the library does with freed memory is
a choice between stopping the program and nothing.

**`InputCodec`** has the layout in cells: a number is `NumSize` cells in base
`Base`, and every offset, division and remainder of `schema/args.h` is
there. Readers of `Bytes` and `BytesVec` belong to the library and are stated by
their contract (`BytesFit`, `VectorFits`).

**`Bytecode`** is `duk_dump_function` and `duk_load_function` value by value, with
what the compiler leaves (`Template`) and what a closure is made of (`Closure`).
`Observed` is what a script can tell of a function: with it dumping and loading
are compared, since the two functions are not the same (below). Reading has no
bounds in the code (`DUK__ASSERT_LEFT` is empty, `duktape/duktape.c:14842-14860`);
a read outside gives "wild". **`Toolchain`** puts the dumper, `ArgsAssembler` and
the evaluation of the loader on one disk. A file is a text or bytecode, whole, cut
or unreadable; a program is what the compiler finds out about a text. The compiler
and the format are parameters of `Toolchain` (`Compile`, `DumpFunction`,
`LoadFunction`, `Seen`); `MCToolchain` gives it those of `Bytecode`.

**`Reachability`** defines what a set of objects reaches. **`ObjectMemory`** is what a
script is promised: objects appear, the graph changes, and what disappears is
out of reach. **`Heap`** implements it: each assignment, each object freed by a
cascade, each call and return of a finalizer, each collection and each stage of
`duk_heap_free` is an action. `pc` and `back` say who works and who called the
cascade; `cur` is the object whose finalizer runs, which is held by the stack of
the heap thread. A finalizer whose call is refused, or skipped because the object
is a Proxy (`duktape/duktape.c:52013-52021`), is one that returns at once. `quiet`
is a drop without finalizers (the `_NORZ` macros) or
with finalizers prevented. Mark-and-sweep calls nobody back, so it is one step;
how it marks is the constant `Mark`, about which `MarkAssumption` says that it
finds what there is to find. **`Marking`** is the algorithm the engine has for it,
recursion up to a limit and scans for temproots; `MCHeap` gives it to `Heap` and
TLC evaluates the assumption on every graph of the instance, with every order of
the lists. It is kept out of `Heap` because it is recursive.

**`Coroutine`** has the call stacks of all threads, the catchpoints on the C stack
(executors and protected calls) and the longjmp that is under way; each branch of
`duk__handle_longjmp` and `duk__handle_return` is an action, and one turn of its
loops (an activation unwound, a thread terminated) is a step. `resume()` and
`yield()` are two steps, the checks and the jump, because an `errThrow` handler
may run in between (`duktape/duktape.c:44724-44729`). A finalizer is a protected
call on the heap thread; those still due when the protected call of an `errThrow`
handler is over (`duktape/duktape.c:69077`) run in the model just before it is.
**`ResumeChain`** is what a script is promised: a chain of threads of which the
last runs, that grows by a resume and shrinks by a yield or an end; `Coroutine`
implements it with `Chain` read off the field `resumer`.

Operators that begin with "Faulty:" in their comment are plausible bugs. No
specification uses them; each replaces the definition after it to show
that the properties notice.

`LoadSource` abstracts from what `HexDecode` (`world.hexRet`), `InputCodec`
(`world.input`) and `Repl` (the action `Interact`) model in detail; `Repl` starts
from the stacks `LoadSource` ends with; `Toolchain` extends `ArgsAssembler`, whose
output has the type that `InputCodec` encodes and `LoadSource` receives.
`Heap` and `Coroutine` meet in the finalizer: `Heap` takes its call as given, and
`Coroutine` shows when the call is refused.

## The runs

| run | what it checks | instance |
|---|---|---|
| `hex_decode` | bounds, unread text intact, the answer, the bytes left; without upper case, `HexSpec` is implemented | every text of up to 4 characters over the 12 characters at and next to the ends of `to_int`'s ranges |
| `hex_uppercase` | *violated*: `HexSpec` with upper-case digits | up to 2 characters |
| `load_source` | acceptance, what runs, arguments, errors, aborts, clean-up, termination, `ScriptVerdict` | 112,000 states: all combinations of program, arrival, input, cell, layout and shortage |
| `syscall_glue` | frame, what is answered, what is asked for, bounds | 151,000 states: 16 ints, 128 sizes, items at and around both limits, seven binding shapes |
| `repl` | stack, lines, failures, dumps | every input of up to 5 characters, line buffer of 2 |
| `repl_dump` | *violated*: dumping is optional | the same |
| `args_assembler_cell` | *violated*: `-i` and `-s` name the cell | every command line of up to 3 of 12 options, every disk of two files |
| `input_codec` | reads inside, round trip, canonical form | 20 encodings and all their one-cell changes, cuts, extensions, gaps; all texts of up to 4 cells |
| `toolchain` | the Input is as asked, failures have causes, what was compiled runs, files are touched last | 423,000 states: the command lines and disks above without a dump; with one, fifty programs, three choices of files, six disks, every cut |
| `heap` | counts, lists, finalizers first, rescue, `ObjectMemory` | 366,000 states: three objects, two references between them, recursion limit 1 |
| `coroutine` | resumers, yields, handlers, `ResumeChain` | 1,522,000 states: the heap thread and two coroutines, 7 activations, 4 catchpoints, 1 try statement |
| `coroutine_finalizer` | *violated*: finalizers run | the same |

Why the bounds suffice. The decoder works on pairs and looks one character
ahead: four characters hold two pairs or one and a half, so a fault can come
first, second or at the end. The loader touches one input, at most one cell
and a list of arguments of length 0, 2 or 3, the last with a repetition; sizes
lie one below, at and one above the buffer, and a second cell sits at the
reference read backwards. The CKB object keeps nothing between calls, so one
call from every kind of value is enough, provided the widths leave room for a
number below, at and beyond each limit: 7 and 8 for ints, 33 and 34 for the
group sources, 60 under the bound of 64 for items. In the loop, a line buffer of
two and inputs of five characters give empty lines, full lines, lines one too
long, stale characters behind a shorter line, and an unfinished last line.
For the assembler, three options
are enough to put any two around a third and to give one twice. In the
format, cells of four values and numbers of three cells leave room to encode
two arguments, and alignment is tested because `NumSize` is not 1. The bounds
are `MaxLen`, the widths (`IntHalf`, `SizeHalf`), `LineBufSize`, `BufferSize`, `MaxRefs`, `MaxFrames`,
`MaxCatch`, `MaxTry` and the sets named in the MC modules; no specification
limits itself otherwise.

In the heap, three objects and two references hold a cycle of two with a third
object outside, an object that refers to itself and to another, a chain, and one
object that two refer to; the third object is what a finalizer can create or
keep. With recursion limit 1 a chain of two references already needs a second
scan. What the instance does not reach is the limit on forced
rounds, at first twice the objects that the first round walked, the engine's own
included: finalizers would have to create that many finalizable objects, and three
objects are too few; `FinalizedFirst` excuses that case. With three threads a coroutine can
resume another, so that a thread is both resumer and resumed; seven activations
are what it takes for that chain with a native function and a callback in
it. Four catchpoints are the host's call, an executor, a protected call and a
second executor or a finalizer. Programs for `toolchain` have no inner function,
one of each kind (named or not, with arguments or not, with an arguments object
or not, flags), or two, one of which holds another.

Deadlock checking is off where the program ends. `SyscallGlue` and `Coroutine` have
no end and are checked for deadlock: in `Coroutine` a thread that nobody could
resume, or a longjmp nobody takes, would be one.

Fairness. `LoadSource` assumes weak fairness of its steps: there is one thread,
and nothing but the machine stops it. For code that loops, the CKB VM's cycle
limit is the only thing that ends a script; it is an action, and `Terminates`
depends on it. The engine's modules are checked for safety only: a script
may loop and finalizers may make finalizable objects for ever, so nothing in them
is bound to happen.

## What was found

Each is a run that TLC finds violated, with a counterexample.

1. `to_int` stores 75 for each of 'A'..'F' (`c/glue.h:496`).
2. If the first script gives a string, the repl dumps every source line to a file of
   that name instead of running it (`c/repl.c:73`).
3. The assembler's `-i` and `-s` have no effect on the Input but to endanger the
   program: a variable is shadowed (`c/native_args_assembler.c:155`). The Input
   then holds an empty source.
4. A finalizer that falls due while a coroutine runs is called on the heap thread,
   which is then RESUMED and not callable (`duktape/duktape.c:68119`); the error is
   ignored and the object counts as finalized, so its finalizer never runs.

Observations without a run.

* Asking for nothing, which the loader means to allow (`c/glue.h:460`), aborts the
  programs that pop a result (`c/entry.c:13`); `CrashesExplained` has the case.
* `dump_load` and `dump_load_nocleanup` do what the loader does and not what their
  header comments say (`c/dump_load.c:2-4`).
* The repl's "tainted" result (`c/repl.c:191`) is dropped by its `main`
  (`c/repl.c:18`): `FailuresTaint` is about the result of `handle_interactive`, not
  about an exit code.
* `push_checked_integer` accepts lengths in the top 2^31 of the range of
  `uint64_t` as negative numbers (`c/glue.h:20`); no item is that long, which
  `HostsAssumption` states.
* A raw load writes into its buffer after popping it (`c/glue.h:92-98`). A buffer the
  script keeps a reference to is alive then, which `WritesInBounds` claims; one it
  hands over and nobody else refers to is freed by the pop, and the write goes into
  freed memory. The model has that state, and nothing is claimed of it.
* `resume()` checks that the thread may be resumed, then, if it passes an error, calls
  an `errThrow` handler (`duktape/duktape.c:44727`), then jumps. If the handler resumes
  that thread to its end, the assertion that it has not begun or waits, "checked by
  Duktape.Thread.resume()" (`duktape/duktape.c:78465-78466`), is false when the jump
  arrives. Builds without assertions go on: the thread ends once more, with the error,
  and `ResumersWait` and `ImplementsChain` hold all the same.
* An object found dead and finalized, still referred to by one found dead later,
  counts as rescued and is finalized again; `RescueJustified` says this is the
  only way besides being reachable.
* `duk_load_function` makes a function that differs from the closure it was dumped
  from: it always owns `name` and a variable map, knows only the global environment,
  and has lost its finalizer. For programs as the loader runs them, global code
  that nobody inspects, this cannot be told; `RunsWhatWasCompiled` says so.
* The format errors inside `duk__load_func` cannot be reached with files the tools
  made: a cut file is read beyond its end before that.

## The proofs

Every theorem holds for all values of the constants, under the named assumption
of the module it is about. Each of the modules below states an inductive
invariant `IInv`, proves that the initial states have it and that every action
preserves it (one lemma or step per action), and derives the properties of the
runs from it. What follows says why the properties alone are not inductive.

**`HexDecodeProofs`** (arguments are strings of characters 1..255):
`NeverPastTerminator`, `InPlaceIsSafe`, `AnswersForTheArgument`.
That a step reads what the argument says depends on where the cursors are: the
read cursor is at twice the write cursor, the buffer from the write cursor on is
still the argument, all pairs behind are good, and the bytes behind are what their
digits give (`Stored`). `ImplementsOnLowerCase`: steps of the
decoder are steps of `HexSpec` or stutter, for arguments without upper-case
digits, where what the digits give is what the text denotes (`DecodedDenoted`).

**`LoadSourceProofs`** (a world is of the type `IsWorld`, a code is empty exactly if
its head is "none"): `AcceptanceIsEarned`, `NothingElseRuns`,
`ArgumentsAreThere`, `FailuresExplained`, `AbortsExplained`, `CleanExit`. The
invariant says, per program location, what has been established about the world,
the exact content of the value stack, and which buffer the code is in; the key is
that whatever lies in `data[]` when it is evaluated is the whole of the cell
asked for, and that once `data[]` is filled the input is not read again.
`FailuresExplained` ties each of the four codes to its step, in both directions for
100, 102 and 103, and says what had run by then.
`VerdictImplemented`: `LoadSource` implements `ScriptVerdict` under the mapping
`SV`, step by step.

**`SyscallGlueProofs`** (`WidthAssumption`, and the types of values, calls and
hosts in `ValuesAssumption`, `CallsAssumption`, `HostsAssumption`):
`StackAddressedRight`, `BuffersNotOverrun`, `ItemsWholeOrRefused`,
`HostIsAskedRight`, the last with what becomes of numbers an `int` cannot say: a
large one arrives as its largest, a negative one as a size of at least half the
range. What a call answers at its end rests on what it asked for, on the room it
made and on the length the host named before: the eight parts of `IInv` are the
call as it was made (`CallInv`), the item (`DataInv`), the frame at each location
(`FrameInv`), what has been asked (`AskInv`), which of the ways through the
function is taken (`RouteInv`), the room (`RoomInv`), the last write (`WriteInv`)
and the answer (`AnswerInv`). The proof of `HostIsAskedRight` showed that the
widths must be apart for it to be true: an `int` must not reach the flag of a
group source, and the group sources must be below the half of `size_t`. The
assumption now says so; `int` of 32 bits, `size_t` of 64 and the codes of the CKB
system calls (registered in `c/glue.h:404-415`) satisfy it.

**`ReplProofs`** (`ReplAssumption`): `BufferNotOverrun`, `StackBalanced`,
`EvaluatesTheInput`, `FailuresRemembered`, `DumpsNamed`. The stack at each location
is spelt out, above whatever the first script left; the buffer up to `idx` is the
input from `from` to `pos`, which ties what is evaluated to what was typed
although characters of older lines stay behind the cursor.

**`HeapProofs`** (`ObjAssumption`, `BoundsAssumption`, `MarkAssumption`):
`CountsExact`, `ListsKept`, `FinalizersFirst`, `RescuesJustified`, and
`HeapImplementsMemory`: the heap implements `ObjectMemory`. The count tells on
which list an object may be, and the list whether the engine itself holds a
reference, so the two are proved together with what each part of the engine leaves
to the next: freed memory refers to nothing (`FreeIsBare`), the cascade frees only
what was finalized (`CascadeFinalized`), the object of a running finalizer stays
where it is (`FinalizerHolds`), and what each stage of `duk_heap_free` has dealt
with (`StagesSettled`, `RoundSound`). `MarkAssumption` is what the marking is
taken to do; TLC evaluates it for `Marking` on every graph of the instance.

**`CoroutineProofs`** (`CoroutineAssumption`): `AnswersHaveOnePlace`,
`YieldsCanBeLeft`, `HandlersTakeErrors`, for any number of threads, activations
and catchpoints. The threads being run are a chain and the catchpoints lie along
it; as an invariant this is the existence of a rank for each thread
(`ChainInv`), which a resume sets to one more than the resumer's and nothing else
changes. `CStackInv` says of each catchpoint what it restores, that it lies
within its thread's stack (below the call that waits, if the thread is not the
current one) and how it lies to its neighbours; a refused finalizer's
catchpoint, which is on a thread that is not current, is the exception and is
always on top. `EntryInv` ties entry activations to executors, with the gap
between leaving an executor and dropping its activation; `PendingInv` says that
a call of resume() names a thread further along or off the chain, whence no two
resumers, and that nothing below a call of yield() forbids it. That the counter
`callstack_preventcount` is exact (`CountInv`) needs the cardinality lemmas at
the beginning. Most steps fall under a few general lemmas (a step that changes
one stack only, a catchpoint more or less, a switch of threads forth or back).

The last part proves `ImplementsResumeChain`: `Coroutine` implements `ResumeChain`.
`Chain` is the row of the threads being run, each resumed by the one before it.
There is one row, because every step that switches threads makes the next from the
last; there is only one, because two would differ first somewhere (the least
index), and the thread there has one resumer. `ValueInv` is the other half, for a
resume with a value: nothing runs between the checks of `resume()` and the jump, so
the thread has not begun or waits in a yield when it arrives. With an error a handler
may run in between and begin or end the thread (above); nothing is claimed of it,
and if it has ended, the jump to it is a stutter of `ResumeChain`.

**`ToolchainProofs`** is about the assembler alone (`AssemblerAssumption`: command
lines are sequences of options, disks are of their type) and about the dumper, the
assembler and the loader on one disk (`ErrandsAssumption`: the same of what is
asked of them; `BytecodeAssumption`: bytecode begins with its marker).
`PacksWhatWasAsked` and `FailuresHaveCauses` are about the assembler,
`PacksWhatIsThere` and `FailuresAreItsOwn` say the same after the dumper has written
the disk. The builders are compared with the options taken so far: an argument with
the number it has among them (`Collected`), the file with the last option that
names one (`NamedLast`). An argument of `-b` is there as the code decodes it, which is
the bytes its text stands for if no digit is upper-case, and otherwise has 75 for
each of those; both halves are stated by `ArgumentsInOrder`. `FilesAreKept`
(`DiskTouchedLast`) rests on `DumpInv`: what
the dumper has in its buffer is a program it has compiled, once it opens the file.
`ScriptsSurviveTheTools` (`RunsWhatWasCompiled`) follows the code from the compiler
through the file and the Input into the loader; it is proved from
`BytecodeIsFaithful`, which says that loading undoes dumping and that cut bytecode
is no function. That is a fact about `Bytecode`, which computes with recursion over
nested functions. It is not assumed of the module: the run `toolchain` dumps every
program of its instance and loads it, whole and cut at every place.

**`InputCodecProofs`** (`CodecAssumption`, texts of cells in `TextsAssumption`, and
`InputsAssumption`: the numbers in an Input fit their widths, and the size of what
is built fits a number, as `mol_num_t` demands): `NothingReadOutside`,
`LoaderTakesWhatWasBuilt`, `OneTextForAnInput`. Per location the invariant says
what the checks passed so far have shown: the room for the header, the first
offset, the second one between it and the end, then the source's and the
vector's layout. The other two theorems go through pieces of a text: `Piece(lo, hi, s)`
says that `s` lies between two places, and `Row` that sequences lie there one behind
the other. A number that is packed is read back (`NumberKept`), and one that is
read, packed again, gives the cells it was read from (`NumberRead`), by induction
on the width; `VecRead` and `InputRead` take apart what was built, `VectorMade` and
`TakenIsCanonical` build again what was accepted. The readers of the library
compute with remainders; that they accept nothing else (`BytesFitIs`) rests on
sizes below `NumMod`. `TakenInv` says how much the loader has
taken at each location, `AcceptInv` that no built text is turned away. Recursive
functions (`Value`, `Power`, `Digits`) are unfolded with `Recursion`, and induction
over numbers is for a set instead of a predicate (`Induction`), from the least
number outside of it (`LeastNatural`).

Left to TLC: liveness (`Terminates`); `Marking` and `Bytecode`, which compute with
recursive operators over lists of objects and nested functions (for `Heap` and
`Toolchain` they are parameters, with `MarkAssumption` and `BytecodeIsFaithful` for
what is needed of them). The type invariants of `HexDecode`, `SyscallGlue`, `InputCodec`
and `ArgsAssembler` are not part of a run; those of `SyscallGlue` and `ArgsAssembler`
are proved (`TypesKept`).

## Not modelled

Of the engine: the lexer and compiler (a program is what they find out about a
text), the instructions that compute, property tables and their resizing, the
string table and its weak references, the resizing of value stacks, built-ins
other than `Duktape.Thread` and `Duktape.fin`, regular expressions and numbers.
They are most of its 101,000 lines, which is why the share of the code
that the modules cover is small; what is modelled is where the order of events
matters. In `Heap`, strings and buffers behave as objects without references;
memory that runs out inside the engine, and emergency collections, are not
distinguished from the others. In `Coroutine`, errors inside the set-up of a
thread's first call (no memory, or the recursion limit of C) are not modelled,
nor is the debugger, nor `break` and `continue` through `finally`, which keep to
one activation; an activation is in at most one try statement at a time.

`CKB.debug`, `print` and `alert` format text. Creation of the `CKB` object is
modelled as far as arities and the constants of `SOURCE` go. `dummy_get_now` is
a constant. Molecule's library and the system calls are modelled by their
contracts. Exit codes are 100 to 103, within the 8 bits the machine reports, so
their width plays no part.

## The plan

In order of importance; 1 to 17 are done.

1. `HexDecode` against `HexSpec`, with proofs.
2. `LoadSource` against `ScriptVerdict`, with proofs.
3. `SyscallGlue`.
4. `Repl`.
5. `ArgsAssembler`.
6. `InputCodec`.
7. `Heap` against `ObjectMemory`, with `Marking`.
8. `Coroutine` against `ResumeChain`.
9. `Bytecode` and `Toolchain`.
10. `HeapProofs`.
11. `CoroutineProofs`.
12. `ReplProofs`.
13. `SyscallGlueProofs`.
14. `InputCodecProofs`: `ReadsInside`.
15. `ImplementsChain` as a theorem.
16. `RoundTrip` and `Canonical` as theorems.
17. `ToolchainProofs`: `InputAsAsked`, `FailureExplained`, `DiskTouchedLast`, and
    `RunsWhatWasCompiled` from what the bytecode format does.
18. `Marking` as a state machine, to prove that it marks what is reachable; and an
    abstract specification of a load ("the item from the offset on, or an error"),
    which `SyscallGlue` implements.

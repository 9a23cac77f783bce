------------------------------ MODULE LoadSource ------------------------------
(***************************************************************************)
(* From the arguments of a CKB script to its verdict: ckb_load_js_source   *)
(* and _ckb_load_js_source of c/glue.h under the four programs that call   *)
(* them (c/entry.c, c/dump_load.c, c/dump_load_nocleanup.c, c/repl.c).     *)
(* The world of a run - its arguments, the answers of the system calls,    *)
(* the cells of the transaction, how the compiler laid out the stack,      *)
(* what may run short - is chosen at the start and never changes;          *)
(* one action is one call or one early return of the code.                 *)
(*                                                                         *)
(* A code is a record: its size, what its first byte announces, and what   *)
(* evaluating it does.  An input is a verified or a rejected molecule      *)
(* Input, already taken apart; JUNK bytes are an input too.                *)
(***************************************************************************)
EXTENDS DuktapeStack

CONSTANTS
  BufferSize,         \* BUFFER_SIZE, the size of script[] and data[]
  Codes,              \* the contents of Bytes sources and of cells
  Items,              \* the contents of arguments
  Worlds              \* the runs to consider

Mains == { "entry", "dump_load", "dump_load_nocleanup", "repl" }

\* What evaluating a code does: it is refused as malformed, it ends with a
\* value, it throws, or it never ends.
Effects == { "malformed", "value", "throws", "loops" }
Heads == { "none", "js", "bytecode" }

Tags == { "empty", "malformed", "bytes", "cell" }
Inputs == [ tag : Tags, args : Seq(Items), code : Codes, index : Nat, source : Nat ]

ASSUME BufferAssumption == BufferSize \in Nat \ {0}
ASSUME CodesAssumption ==
  /\ Codes \subseteq [ size : Nat, head : Heads, effect : Effects ]
  /\ \A c \in Codes : c.size = 0 <=> c.head = "none"
IsWorld(w) ==
  /\ w.main \in Mains
  /\ w.argc \in Nat
  /\ w.hexRet \in { 0, 2, 3 }                 \* decode_hex_in_place(argv[0])
  /\ w.script \in [ ret : Int, len : Nat, valid : BOOLEAN ]
  /\ w.input \in Inputs
  /\ DOMAIN w.tx \subseteq Nat \X Nat         \* index and source of a cell
  /\ \A ref \in DOMAIN w.tx : w.tx[ref] \in Codes
  /\ w.overlaid \in BOOLEAN                   \* data[] lies over script[]
  /\ w.short \in { "nothing", "memory", "cycles" }
ASSUME WorldsAssumption == \A w \in Worlds : IsWorld(w)

CKB_SUCCESS == 0
ERROR_LOADING_SCRIPT == 100
ERROR_DUKTAPE == 101
ERROR_LOADING_DATA == 102
ERROR_HEX == 103

VARIABLES
  world,
  pc,
  at,                 \* where input_seg points: "argv" or "script" (or "none")
  script,             \* does script[] still hold the script?
  cell,               \* index and source, the locals of the cell branch
  codeAt,             \* what _ckb_load_js_source was given: "input" or "data"
  data,               \* the bytes in data[]
  vstack,             \* the value stack of the context
  array,              \* the array under construction
  argv,               \* CKB.ARGV
  ran,                \* the codes whose evaluation was started
  ret,                \* what ckb_load_js_source returned
  heap,               \* the Duktape heap
  exit                \* "running", "exited", "aborted" or "killed"

locals == << at, script, cell, codeAt, data >>
context == << vstack, array, argv, ran >>
vars == << world, pc, locals, context, ret, heap, exit >>

NoCode == [ size |-> 0, head |-> "none", effect |-> "value" ]
Unset == << "unset" >>
NoCell == << 0, 0 >>

\* What a read of script[] finds once data[] was written over it.
Overwritten == [ tag |-> "malformed", args |-> << >>, code |-> NoCode,
                 index |-> 0, source |-> 0 ]

\* The input as the pointer input_seg finds it.
InputSeen == IF at = "argv" \/ script THEN world.input ELSE Overwritten

\* The bytes _ckb_load_js_source was given.
CodeSeen == IF codeAt = "data" THEN data ELSE InputSeen.code

\* ckb_load_cell_data with a buffer of BUFFER_SIZE: what lands in the buffer.
Cut(c) == IF c.size > BufferSize THEN [ c EXCEPT !.size = BufferSize ] ELSE c

Init ==
  /\ world \in Worlds
  /\ pc = "boot"
  /\ at = "none" /\ script = FALSE /\ cell = NoCell
  /\ codeAt = "none" /\ data = NoCode
  /\ vstack = << >> /\ array = << >> /\ argv = Unset /\ ran = {}
  /\ ret = CKB_SUCCESS
  /\ heap = "none"
  /\ exit = "running"

At(label) == exit = "running" /\ pc = label
Goto(label) == pc' = label /\ UNCHANGED << world, ret, heap, exit >>

\* ckb_load_js_source returns to main; it changes none of its callers' state.
Return(code) ==
  /\ pc' = "returned"
  /\ ret' = code
  /\ UNCHANGED << world, at, cell, codeAt, array, argv, heap, exit >>

\* Nothing catches the error: the fatal error handler of Duktape aborts.
Abort == exit' = "aborted" /\ UNCHANGED << world, pc, locals, context, ret, heap >>

------------------------------------------------------------------------------
(* main, up to the call of ckb_load_js_source. *)

\* duk_create_heap_default and ckb_init, which leaves the stack empty.  Between
\* them the two dump_load programs make system call 4097; nobody looks at its
\* result, and nothing here depends on it.
Boot ==
  /\ At("boot")
  /\ heap' = "live"
  /\ pc' = "begin"
  /\ UNCHANGED << world, locals, context, ret, exit >>

------------------------------------------------------------------------------
(* ckb_load_js_source: finding the input. *)

\* argv[0] was no hexadecimal text.
RejectHex ==
  /\ At("begin") /\ world.argc >= 1 /\ world.hexRet # 0
  /\ Return(ERROR_HEX)
  /\ UNCHANGED << script, data, vstack, ran >>

DecodeArgv ==
  /\ At("begin") /\ world.argc >= 1 /\ world.hexRet = 0
  /\ at' = "argv"
  /\ Goto("verify")
  /\ UNCHANGED << script, cell, codeAt, data, context >>

ScriptLoaded ==
  /\ world.script.ret = CKB_SUCCESS
  /\ world.script.len <= BufferSize
  /\ world.script.valid

\* Faulty: the answer of the system call is passed on.
RejectScriptRaw ==
  /\ At("begin") /\ world.argc = 0 /\ ~ ScriptLoaded
  /\ Return(world.script.ret)
  /\ UNCHANGED << script, data, vstack, ran >>

RejectScript ==
  /\ At("begin") /\ world.argc = 0 /\ ~ ScriptLoaded
  /\ Return(ERROR_LOADING_SCRIPT)
  /\ UNCHANGED << script, data, vstack, ran >>

\* The script has no args: there is nothing to run.
NothingAsked ==
  /\ At("begin") /\ world.argc = 0 /\ ScriptLoaded
  /\ world.input.tag = "empty"
  /\ script' = TRUE
  /\ Return(CKB_SUCCESS)
  /\ UNCHANGED << data, vstack, ran >>

LoadScript ==
  /\ At("begin") /\ world.argc = 0 /\ ScriptLoaded
  /\ world.input.tag # "empty"
  /\ script' = TRUE
  /\ at' = "script"
  /\ Goto("verify")
  /\ UNCHANGED << cell, codeAt, data, context >>

\* MolReader_Input_verify knows the ids of Bytes and ExistingCell only.
Verified == InputSeen.tag \in { "bytes", "cell" }

RejectInput ==
  /\ At("verify") /\ ~ Verified
  /\ Return(ERROR_LOADING_SCRIPT)
  /\ UNCHANGED << script, data, vstack, ran >>

AcceptInput ==
  /\ At("verify") /\ Verified
  /\ Goto("prepare")
  /\ UNCHANGED << locals, context >>

------------------------------------------------------------------------------
(* ckb_load_js_source: CKB.ARGV. *)

\* The CKB object and the array that is to become its ARGV.
Preparing == Push(Push(<< >>, "object"), "array")

\* A function and the global object, its this.
Calling == Push(Push(<< >>, "function"), "object")

\* The CKB object and an empty array are pushed.
OpenArgv ==
  /\ At("prepare")
  /\ vstack' = Push(Push(vstack, "object"), "array")
  /\ array' = << >>
  /\ Goto("items")
  /\ UNCHANGED << locals, argv, ran >>

\* Faulty: the loop counter stays where it is.
AddItemForever ==
  /\ At("items") /\ Len(array) < Len(InputSeen.args)
  /\ UNCHANGED vars

\* A copy of the item, wrapped in an ArrayBuffer, becomes the next element.
AddItem ==
  /\ At("items") /\ Len(array) < Len(InputSeen.args)
  /\ LET wrapped == Push(Push(vstack, "buffer"), "arraybuffer")
     IN  vstack' = PutProp(Pop(SwapTop(wrapped)))
  /\ array' = Append(array, InputSeen.args[Len(array) + 1])
  /\ Goto("items")
  /\ UNCHANGED << locals, argv, ran >>

\* Faulty: the CKB object is left on the stack.
SetArgvUnpopped ==
  /\ At("items") /\ Len(array) >= Len(InputSeen.args)
  /\ vstack' = PutProp(vstack)
  /\ argv' = array
  /\ Goto("unwrap")
  /\ UNCHANGED << locals, array, ran >>

SetArgv ==
  /\ At("items") /\ Len(array) >= Len(InputSeen.args)
  /\ vstack' = Pop(PutProp(vstack))
  /\ argv' = array
  /\ Goto("unwrap")
  /\ UNCHANGED << locals, array, ran >>

------------------------------------------------------------------------------
(* ckb_load_js_source: the code. *)

\* The code is in the input.
TakeBytes ==
  /\ At("unwrap") /\ InputSeen.tag = "bytes"
  /\ codeAt' = "input"
  /\ Goto("eval")
  /\ UNCHANGED << at, script, cell, data, context >>

\* Faulty: index and source change places.
TakeCellSwapped ==
  /\ At("unwrap") /\ InputSeen.tag = "cell"
  /\ cell' = << InputSeen.source, InputSeen.index >>
  /\ Goto("load")
  /\ UNCHANGED << at, script, codeAt, data, context >>

\* The code is in a cell: its index and source are read first.
TakeCell ==
  /\ At("unwrap") /\ InputSeen.tag = "cell"
  /\ cell' = << InputSeen.index, InputSeen.source >>
  /\ Goto("load")
  /\ UNCHANGED << at, script, codeAt, data, context >>

Exists == cell \in DOMAIN world.tx

\* Faulty: the length the system call stored is not looked at.
FitsAlways == TRUE
Fits == world.tx[cell].size <= BufferSize

\* Faulty: the failure is reported as one of the code.
MissCellAsDuktape ==
  /\ At("load") /\ ~ Exists
  /\ Return(ERROR_DUKTAPE)
  /\ UNCHANGED << script, data, vstack, ran >>

MissCell ==
  /\ At("load") /\ ~ Exists
  /\ Return(ERROR_LOADING_DATA)
  /\ UNCHANGED << script, data, vstack, ran >>

\* The system call fills the buffer and stores the full length.
FillData == /\ data' = Cut(world.tx[cell])
            /\ script' = (script /\ ~ world.overlaid)

RejectCell ==
  /\ At("load") /\ Exists /\ ~ Fits
  /\ FillData
  /\ Return(ERROR_LOADING_DATA)
  /\ UNCHANGED << vstack, ran >>

LoadCell ==
  /\ At("load") /\ Exists /\ Fits
  /\ FillData
  /\ codeAt' = "data"
  /\ Goto("eval")
  /\ UNCHANGED << at, cell, context >>

------------------------------------------------------------------------------
(* _ckb_load_js_source. *)

EvalNothing ==
  /\ At("eval") /\ CodeSeen.size = 0
  /\ Return(CKB_SUCCESS)
  /\ UNCHANGED << script, data, vstack, ran >>

\* Both kinds of code: the function is on the stack, the global object goes
\* on top of it as its this, and the call begins.
Compile ==
  /\ At("eval") /\ CodeSeen.size # 0 /\ CodeSeen.effect # "malformed"
  /\ vstack' = Push(Push(vstack, "function"), "object")
  /\ ran' = ran \union {CodeSeen}
  /\ Goto("running")
  /\ UNCHANGED << locals, array, argv >>

\* duk_pcompile_lstring catches every error, the lack of memory included.
CompileFails ==
  /\ At("eval") /\ CodeSeen.head = "js"
  /\ (CodeSeen.effect = "malformed" \/ world.short = "memory")
  /\ vstack' = Push(vstack, "string")
  /\ Return(ERROR_DUKTAPE)
  /\ UNCHANGED << script, data, ran >>

\* Faulty: source text is compiled without protection too.
BadCode ==
  /\ At("eval") /\ CodeSeen.head # "none" /\ CodeSeen.effect = "malformed"
  /\ Abort

\* duk_load_function is not protected.
BadBytecode ==
  /\ At("eval") /\ CodeSeen.head = "bytecode" /\ CodeSeen.effect = "malformed"
  /\ Abort

CallEnds ==
  /\ At("running") /\ CodeSeen.effect = "value"
  /\ vstack' = CallMethod(vstack, "value")
  /\ Return(CKB_SUCCESS)
  /\ UNCHANGED << script, data, ran >>

\* Faulty: the result of duk_pcall_method is not looked at.
CallThrowsUnseen ==
  /\ At("running")
  /\ (CodeSeen.effect = "throws" \/ world.short = "memory")
  /\ vstack' = CallMethod(vstack, "string")
  /\ Return(CKB_SUCCESS)
  /\ UNCHANGED << script, data, ran >>

\* duk_pcall_method catches what the code throws; any code may run out of
\* memory.
CallThrows ==
  /\ At("running")
  /\ (CodeSeen.effect = "throws" \/ world.short = "memory")
  /\ vstack' = CallMethod(vstack, "string")
  /\ Return(ERROR_DUKTAPE)
  /\ UNCHANGED << script, data, ran >>

------------------------------------------------------------------------------
(* main, after ckb_load_js_source, and the machine. *)

Leave(cleanup) ==
  /\ exit' = "exited"
  /\ heap' = IF cleanup THEN "destroyed" ELSE heap
  /\ UNCHANGED << world, pc, locals, array, argv, ran, ret >>

Cleans == world.main # "dump_load_nocleanup"

\* Faulty: only success destroys the heap.
FailMainLeaking ==
  /\ At("returned") /\ ret # CKB_SUCCESS
  /\ Leave(FALSE)
  /\ UNCHANGED vstack

FailMain ==
  /\ At("returned") /\ ret # CKB_SUCCESS
  /\ Leave(Cleans)
  /\ UNCHANGED vstack

\* dump_load_nocleanup leaves everything as it is.
QuitMain ==
  /\ At("returned") /\ ret = CKB_SUCCESS /\ ~ Cleans
  /\ Leave(FALSE)
  /\ UNCHANGED vstack

\* The prompt of c/repl.c runs lines of its own and pops what it pushes.
Interact ==
  /\ At("returned") /\ ret = CKB_SUCCESS /\ world.main = "repl"
  /\ Goto("finish")
  /\ UNCHANGED << locals, context >>

Finishing ==
  \/ At("returned") /\ ret = CKB_SUCCESS /\ Cleans /\ world.main # "repl"
  \/ At("finish")

\* "pop eval result", then duk_destroy_heap.
PopResult ==
  /\ Finishing /\ CanPop(vstack, 1)
  /\ vstack' = Pop(vstack)
  /\ Leave(TRUE)

\* There is no result to pop.
PopNothing ==
  /\ Finishing /\ ~ CanPop(vstack, 1)
  /\ Abort

\* The calls that allocate outside duk_pcompile and duk_pcall; the prompt's
\* set-up is one of them.
Unprotected ==
  \/ pc \in { "boot", "prepare", "items" }
  \/ pc = "eval" /\ CodeSeen.head = "bytecode"
  \/ pc = "returned" /\ ret = CKB_SUCCESS /\ world.main = "repl"

OutOfMemory ==
  /\ exit = "running" /\ world.short = "memory" /\ Unprotected
  /\ Abort

\* A CKB script has a budget of cycles and is killed when it is spent, which
\* is where code that never ends must end.
OutOfCycles ==
  /\ exit = "running"
  /\ world.short = "cycles" \/ (pc = "running" /\ CodeSeen.effect = "loops")
  /\ exit' = "killed"
  /\ UNCHANGED << world, pc, locals, context, ret, heap >>

Find == RejectHex \/ DecodeArgv \/ RejectScript \/ NothingAsked \/ LoadScript
        \/ RejectInput \/ AcceptInput
Prepare == OpenArgv \/ AddItem \/ SetArgv
Fetch == TakeBytes \/ TakeCell \/ MissCell \/ RejectCell \/ LoadCell
Evaluate == EvalNothing \/ Compile \/ CompileFails \/ BadBytecode \/ CallEnds
            \/ CallThrows
Main == Boot \/ FailMain \/ QuitMain \/ Interact \/ PopResult \/ PopNothing

Next == Main \/ Find \/ Prepare \/ Fetch \/ Evaluate \/ OutOfMemory \/ OutOfCycles

\* One thread that runs until it ends; code that never does runs out of
\* cycles.
Spec == Init /\ [][Next]_vars /\ WF_vars(Next)
------------------------------------------------------------------------------

\* What the caller asks for, read off the world alone: nothing (NoCode), a
\* code, or something that cannot be had.
Unavailable == [ size |-> 0, head |-> "none", effect |-> "malformed" ]

Wanted(c) == IF c.size = 0 THEN NoCode ELSE c

Asked ==
  LET input == world.input
      ref   == << input.index, input.source >>
      given == IF world.argc >= 1 THEN world.hexRet = 0 ELSE ScriptLoaded
  IN  CASE given /\ input.tag = "empty" /\ world.argc = 0 -> NoCode
        [] given /\ input.tag = "bytes"                   -> Wanted(input.code)
        [] /\ given /\ input.tag = "cell"
           /\ ref \in DOMAIN world.tx
           /\ world.tx[ref].size <= BufferSize            -> Wanted(world.tx[ref])
        [] OTHER                                          -> Unavailable

Runnable == { c \in Codes : c.size > 0 /\ c.effect # "malformed" }

SV == INSTANCE ScriptVerdict WITH
        Requests <- Codes \union { NoCode, Unavailable },
        Idle     <- NoCode,
        Good     <- { c \in Runnable : c.effect = "value" },
        asked    <- Asked,
        verdict  <- CASE exit = "running"                       -> "pending"
                      [] exit = "exited" /\ ret = CKB_SUCCESS -> "accept"
                      [] exit = "exited" /\ ret # CKB_SUCCESS -> "reject"
                      [] OTHER                                -> "crash"

\* Every variable keeps its shape.
TypeOK ==
  /\ IsWorld(world)
  /\ pc \in { "boot", "begin", "verify", "prepare", "items", "unwrap", "load",
              "eval", "running", "returned", "finish" }
  /\ at \in { "none", "argv", "script" }
  /\ script \in BOOLEAN
  /\ cell \in Nat \X Nat
  /\ codeAt \in { "none", "input", "data" }
  /\ data \in [ size : Nat, head : Heads, effect : Effects ]
  /\ vstack \in Seq(Kinds)
  /\ array \in Seq(Items)
  /\ argv \in Seq(Items) \union { Unset }
  /\ ran \subseteq [ size : Nat, head : Heads, effect : Effects ]
  /\ ret \in { CKB_SUCCESS, ERROR_LOADING_SCRIPT, ERROR_DUKTAPE,
               ERROR_LOADING_DATA, ERROR_HEX }
  /\ heap \in { "none", "live", "destroyed" }
  /\ exit \in { "running", "exited", "aborted", "killed" }

\* A script built from this code accepts only when it was asked for nothing
\* or when the whole of the code it was asked for - not a prefix of it, not
\* another cell, not bytes another buffer was laid over - ran and ended
\* without an error.
AcceptMeansEvaluated ==
  exit = "exited" /\ ret = CKB_SUCCESS =>
    Asked = NoCode \/ (ran = {Asked} /\ Asked.effect = "value")

\* Nothing but the code asked for ever runs, whatever the verdict is.
OnlyAskedRuns == ran \subseteq {Asked} /\ (ran # {} => Asked \in Runnable)

\* The code finds in CKB.ARGV every argument of its input in order, and no
\* value of the loader below it on the stack.
RunsWithArguments ==
  At("running") =>
    /\ argv = world.input.args
    /\ vstack = Calling

\* Where the way to the code ends, read off the world alone: the argument is no
\* hexadecimal text, the script cannot be loaded, what arrived is no Input (an
\* empty one is none when it comes as an argument), the cell is not there or does
\* not fit.
BadHex == world.argc >= 1 /\ world.hexRet # 0
BadScript == world.argc = 0 /\ ~ ScriptLoaded
Arrived == ~ BadHex /\ ~ BadScript
BadInput ==
  /\ Arrived /\ world.input.tag \notin { "bytes", "cell" }
  /\ world.input.tag = "empty" => world.argc >= 1
BadCell ==
  /\ Arrived /\ world.input.tag = "cell"
  /\ LET ref == << world.input.index, world.input.source >>
     IN  ref \in DOMAIN world.tx => world.tx[ref].size > BufferSize

\* Each of the loader's codes against the step that failed and what had run by
\* then.
Explained ==
  /\ ret = ERROR_HEX <=> BadHex
  /\ ret = ERROR_LOADING_SCRIPT <=> BadScript \/ BadInput
  /\ ret = ERROR_LOADING_DATA <=> BadCell
  /\ ret \in { ERROR_HEX, ERROR_LOADING_SCRIPT, ERROR_LOADING_DATA } => ran = {}
  /\ ret = ERROR_DUKTAPE /\ ran = {} =>
       /\ Asked \in Codes /\ Asked.head = "js"
       /\ Asked.effect = "malformed" \/ world.short = "memory"
  /\ ret = ERROR_DUKTAPE /\ ran # {} =>
       ran = {Asked} /\ (Asked.effect = "throws" \/ world.short = "memory")

\* The code a program exits with names the step that failed, and no other failure
\* has that code: 103 is an argument that is no hexadecimal text, 100 a script
\* that cannot be loaded or an Input that is refused, 102 a cell that is missing or
\* too large.  With these nothing has run.  With 101 either source text was not
\* compiled, and nothing has run, or what was asked for was started and threw; any
\* of it may also be short of memory (c/glue.h:457-488, :528-636).
ErrorsExplained == exit = "exited" => Explained

\* A program is aborted only when memory is short, when the bytecode it was
\* given is refused, or when nothing was evaluated and a cleaning program
\* pops a result that is not there.
CrashesExplained ==
  exit = "aborted" =>
    \/ world.short = "memory"
    \/ Asked \in Codes /\ Asked.head = "bytecode" /\ Asked.effect = "malformed"
    \/ Asked = NoCode /\ Cleans

\* Nobody destroys the heap but a program that exits, and the programs that clean
\* up exit with their heap destroyed, whatever failed; one that succeeds has popped
\* what the evaluation left and no more (the tails of the mains under c/).
LeavesNothing ==
  /\ heap = "destroyed" => exit = "exited"
  /\ exit = "exited" /\ Cleans =>
       /\ heap = "destroyed"
       /\ ret = CKB_SUCCESS => vstack = << >>

\* Given enough cycles for code that ends, every path through the loader ends
\* in a verdict or an abort; no state of it is a dead end.
Terminates == <>(exit # "running")

\* LoadSource implements the verdict of a script.
ImplementsVerdict == SV!Spec
==============================================================================

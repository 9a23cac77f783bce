------------------------------ MODULE Toolchain ------------------------------
(***************************************************************************)
(* The tools that share a disk: the dumper turns a source file into        *)
(* bytecode (c/native_dump_bytecode.c), the assembler packs a file and     *)
(* arguments into an Input (ArgsAssembler), and the loader evaluates the   *)
(* code of that Input (c/glue.h:457-488).  The contents of a file is a     *)
(* sequence of tokens - a text, or bytecode, whole or cut - or Empty.  The *)
(* compiler and the bytecode format are parameters: module Bytecode has    *)
(* them.                                                                   *)
(***************************************************************************)
EXTENDS ArgsAssembler

CONSTANTS
  Programs,         \* what the compiler finds out about a text that is a program
  Compile(_),       \* the function a program is compiled to
  DumpFunction(_),  \* the bytecode of a function
  LoadFunction(_),  \* the function of a bytecode, at: 0 if there is none
  Seen(_),          \* what code can tell of a function
  Errands           \* what is done: [ argv, disk, dump ], the last the dumper's arguments

VARIABLES
  dump_argv,  \* the source and the bytecode file, or another number of arguments
  dump_pc,    \* "open", "read", "compile", "write", "fill", "end"
  buf,        \* the source
  out_buf,    \* the bytecode
  dump_exit,  \* what the dumper returns, or -1
  ran         \* what becomes of the code in the loader

dumperVars == << dump_argv, dump_pc, buf, out_buf, dump_exit >>
allVars == << vars, dumperVars, ran >>

Source(c) == << [ kind |-> "source", val |-> c ] >>
Nonsense == << [ kind |-> "nonsense", val |-> 0 ] >>
Bytecodes == { DumpFunction(Compile(c)) : c \in Programs }
Codes == { Empty, Nonsense } \union { Source(c) : c \in Programs } \union Bytecodes

\* Bytecode begins with its marker.
ASSUME BytecodeAssumption ==
  \A code \in Bytecodes :
    /\ code \in Seq({ code[i] : i \in DOMAIN code }) /\ code \notin { << >>, Empty }
    /\ code[1].kind = "marker"

ASSUME ErrandsAssumption ==
  \A e \in Errands :
    /\ e.argv \in Seq(Options) /\ e.dump \in Seq(Names) /\ DOMAIN e.disk \subseteq Names
    /\ \A name \in DOMAIN e.disk :
         e.disk[name].whole \in BOOLEAN /\ e.disk[name].code \in Codes

ToolInit ==
  /\ \E e \in Errands : argv = e.argv /\ disk = e.disk /\ dump_argv = e.dump
  /\ Fresh
  /\ dump_pc = "open" /\ buf = Empty /\ out_buf = Empty /\ dump_exit = -1
  /\ ran = [ how |-> "not yet" ]

------------------------------------------------------------------------------
(* The dumper. *)

DumpAt(label) == dump_pc = label /\ UNCHANGED << vars, dump_argv, ran >>
DumpStop(status) ==
  dump_pc' = "end" /\ dump_exit' = status /\ UNCHANGED << buf, out_buf >>

DumpUsage == DumpAt("open") /\ Len(dump_argv) # 2 /\ DumpStop(1)

OpenSource ==
  /\ DumpAt("open") /\ Len(dump_argv) = 2
  /\ IF dump_argv[1] \in DOMAIN disk
     THEN dump_pc' = "read" /\ UNCHANGED << buf, out_buf, dump_exit >>
     ELSE DumpStop(2)

\* One item of the size of the file: an empty one is never read.
ReadSource ==
  /\ DumpAt("read")
  /\ LET file == disk[dump_argv[1]]
     IN IF file.whole /\ file.code # Empty
        THEN dump_pc' = "compile" /\ buf' = file.code /\ UNCHANGED << out_buf, dump_exit >>
        ELSE DumpStop(2)

\* A text that compiles: what the compiler gives is a closure of global code.
Compiles(code) == Len(code) = 1 /\ code[1].kind = "source"
Compiled(code) == Compile(code[1].val)

\* Faulty: the outcome of the compiler is not looked at.
CompileAndDumpUnchecked ==
  /\ DumpAt("compile")
  /\ dump_pc' = "write" /\ UNCHANGED << buf, dump_exit >>
  /\ out_buf' = IF Compiles(buf) THEN DumpFunction(Compiled(buf)) ELSE Empty

CompileAndDump ==
  /\ DumpAt("compile")
  /\ IF Compiles(buf)
     THEN dump_pc' = "write" /\ out_buf' = DumpFunction(Compiled(buf)) /\ UNCHANGED << buf, dump_exit >>
     ELSE DumpStop(3)

Beginning(code, n) == IF n = 0 THEN Empty ELSE SubSeq(code, 1, n)

PutFile(name, code) ==
  disk' = [ n \in DOMAIN disk \union { name } |->
              IF n = name THEN [ code |-> code, whole |-> TRUE ] ELSE disk[n] ]

\* Opened for writing, the file is empty.
OpenOutput ==
  /\ dump_pc = "write"
  /\ \/ /\ PutFile(dump_argv[2], Empty)
        /\ dump_pc' = "fill" /\ UNCHANGED << buf, out_buf, dump_exit >>
     \/ DumpStop(2) /\ UNCHANGED disk
  /\ UNCHANGED << argv, optind, pc, collected, source_builder, exit, output, dump_argv, ran >>

\* fwrite may write less; nobody asks.
WriteOutput ==
  /\ dump_pc = "fill"
  /\ \E n \in 0 .. Len(out_buf) : PutFile(dump_argv[2], Beginning(out_buf, n))
  /\ DumpStop(0)
  /\ UNCHANGED << argv, optind, pc, collected, source_builder, exit, output, dump_argv, ran >>

Dumper == DumpUsage \/ OpenSource \/ ReadSource \/ CompileAndDump \/ OpenOutput \/ WriteOutput

------------------------------------------------------------------------------
(* The assembler, and the loader. *)

Assemble == dump_pc = "end" /\ Next /\ UNCHANGED << dumperVars, ran >>

Function(f) == [ how |-> "function", seen |-> Seen(f) ]

\* _ckb_load_js_source: nothing, bytecode, or a text to compile.
Evaluated(data) ==
  CASE data = Empty -> [ how |-> "nothing" ]
    [] data # Empty /\ data[1].kind = "marker" ->
         LET loaded == LoadFunction(data)
         IN IF loaded.at = 0 THEN [ how |-> loaded.val ] ELSE Function(loaded.val)
    [] OTHER -> IF Compiles(data) THEN Function(Compiled(data)) ELSE [ how |-> "error" ]

Evaluate ==
  /\ exit = "success" /\ output.source.tag = "bytes" /\ ran.how = "not yet"
  /\ ran' = Evaluated(output.source.code)
  /\ UNCHANGED << vars, dumperVars >>

ToolNext == Dumper \/ Assemble \/ Evaluate
ToolSpec == ToolInit /\ [][ToolNext]_allVars

------------------------------------------------------------------------------
(* Properties. *)

\* The dumper replaces a file only by the beginning of the bytecode of a program
\* it has read and compiled: a source that is missing, empty, unreadable or no
\* program leaves what an earlier call wrote, and no other file is ever touched
\* (c/native_dump_bytecode.c:17-64).
DiskTouchedLast ==
  [][ disk' # disk =>
        /\ \E c \in Programs :
             /\ buf = Source(c)
             /\ \E n \in 0 .. Len(out_buf) :
                  /\ disk'[dump_argv[2]] = [ code |-> Beginning(out_buf, n), whole |-> TRUE ]
                  /\ out_buf = DumpFunction(Compile(c))
        /\ \A name \in Names \ { dump_argv[2] } :
             /\ name \in DOMAIN disk <=> name \in DOMAIN disk'
             /\ name \in DOMAIN disk => disk'[name] = disk[name] ]_allVars

\* The format does its work: what is loaded is what was dumped, as far as any code
\* can tell, and bytecode that was cut is never a function, since the loader reads
\* past its end (duktape/duktape.c:14842-14850).  The theorem about
\* RunsWhatWasCompiled rests on it.
BytecodeIsFaithful ==
  \A c \in Programs :
    LET code == DumpFunction(Compile(c))
    IN  /\ LoadFunction(code).at # 0 /\ Seen(LoadFunction(code).val) = Seen(Compile(c))
        /\ \A n \in 1 .. Len(code) - 1 :
             LoadFunction(SubSeq(code, 1, n)).at = 0 /\ LoadFunction(SubSeq(code, 1, n)).val = "wild"

\* From source to script: if the dumper reports success and the assembler packs
\* its file, the loader runs the function the source compiles to, as far as any
\* code can tell - its registers, arguments, names and environments and those of
\* the functions in it - unless the file was cut.  A file that was cut is never
\* a function: nothing runs, or the loader reads past its end
\* (duktape/duktape.c:14842-14850).
RunsWhatWasCompiled ==
  dump_exit = 0 /\ ran.how # "not yet" /\ FileAsked = dump_argv[2] =>
    LET written == disk[dump_argv[2]].code
    IN CASE written = out_buf -> ran = Function(Compiled(buf))
         [] written = Empty -> ran.how = "nothing"
         [] OTHER -> ran.how = "wild"
==============================================================================

----------------------------- MODULE ArgsAssembler -----------------------------
(***************************************************************************)
(* The native tool that writes the argument of the loader                  *)
(* (c/native_args_assembler.c): it takes its options one after the other,  *)
(* then builds an Input of a source - code in a file, or a reference to a  *)
(* cell - and a list of arguments, and prints it in hexadecimal.  Builders *)
(* of the molecule library are the values they have collected.             *)
(***************************************************************************)
EXTENDS HexBytes, Hexadecimal, FiniteSets

CONSTANTS
  Names,              \* file names
  NoFile,             \* NULL
  Contents,           \* what a file can hold, and what an argument can be
  Empty,              \* nothing, one of them
  Texts,              \* what can follow -b, as character codes
  Numbers,            \* what atoi and atol read
  IndexBits,          \* the width of the index of a cell: 32
  Commands            \* the command lines: sequences of options

\* An option: -f with a name, -i or -s with a number, -t with a text of which
\* nothing but its bytes matters, -b with a text that is to be decoded, or one that
\* getopt does not know.
Options ==
  [ opt : { "f" }, optarg : Names ]
  \union [ opt : { "i", "s" }, optarg : Numbers ]
  \union [ opt : { "t" }, optarg : Contents ]
  \union [ opt : { "b" }, optarg : Texts ]
  \union [ opt : { "?" }, optarg : { Empty } ]

ASSUME AssemblerAssumption ==
  /\ Empty \in Contents /\ NoFile \notin Names
  /\ \A t \in Texts : t \in Seq(1 .. 255) /\ (Decodes(t) => Decoded(t) \in Contents)
  /\ Numbers \subseteq Int /\ IndexBits \in Nat
  /\ Commands \subseteq Seq(Options)

VARIABLES
  argv, optind,       \* the options and how many are taken
  disk,               \* the contents of the files that exist
  pc,                 \* "options", "source", "bytes", "cell", "print", "end"
  source_file_path, cell_index, cell_source,
  args_builder,       \* the arguments collected
  source_builder,     \* the source collected
  exit,               \* "none", "success", "failure" or "crash"
  output              \* the Input printed

collected == << source_file_path, cell_index, cell_source, args_builder >>
vars == << argv, optind, disk, pc, collected, source_builder, exit, output >>

Bytes(code) == [ tag |-> "bytes", code |-> code, index |-> 0, source |-> 0 ]
ExistingCell(index, source) ==
  [ tag |-> "cell", code |-> Empty, index |-> index, source |-> source ]
NoOutput == [ source |-> Bytes(Empty), args |-> << >> ]

\* What a file gives: its bytes, or fewer than its length announced.
Disks == UNION { [ d -> [ code : Contents, whole : BOOLEAN ] ] : d \in SUBSET Names }

Fresh ==
  /\ optind = 0
  /\ pc = "options"
  /\ source_file_path = NoFile /\ cell_index = 0 /\ cell_source = 3
  /\ args_builder = << >>
  /\ source_builder = Bytes(Empty)
  /\ exit = "none" /\ output = NoOutput

Init == argv \in Commands /\ disk \in Disks /\ Fresh

At(label) == pc = label
Goto(label) == pc' = label /\ UNCHANGED << argv, disk >>
Stop(status) == Goto("end") /\ exit' = status

------------------------------------------------------------------------------
(* Options. *)

Given(opts) == At("options") /\ optind < Len(argv) /\ argv[optind + 1].opt \in opts
Option == argv[optind + 1]
Taken ==
  /\ Goto("options") /\ optind' = optind + 1
  /\ UNCHANGED << source_builder, exit, output >>

TakeFile ==
  /\ Given({ "f" })
  /\ source_file_path' = Option.optarg
  /\ Taken
  /\ UNCHANGED << cell_index, cell_source, args_builder >>

TakeIndex ==
  /\ Given({ "i" })
  /\ cell_index' = Option.optarg
  /\ Taken
  /\ UNCHANGED << source_file_path, cell_source, args_builder >>

TakeSource ==
  /\ Given({ "s" })
  /\ cell_source' = Option.optarg
  /\ Taken
  /\ UNCHANGED << source_file_path, cell_index, args_builder >>

TakeText ==
  /\ Given({ "t" })
  /\ args_builder' = Append(args_builder, Option.optarg)
  /\ Taken
  /\ UNCHANGED << source_file_path, cell_index, cell_source >>

\* Faulty: binary arguments come before the others.
TakeHexFirst ==
  /\ Given({ "b" }) /\ Decodes(Option.optarg)
  /\ args_builder' = << Decoded(Option.optarg) >> \o args_builder
  /\ Taken
  /\ UNCHANGED << source_file_path, cell_index, cell_source >>

\* decode_hex_in_place on a copy of the text: what it leaves becomes the argument.
TakeHex ==
  /\ Given({ "b" }) /\ Decodes(Option.optarg)
  /\ args_builder' = Append(args_builder, Decoded(Option.optarg))
  /\ Taken
  /\ UNCHANGED << source_file_path, cell_index, cell_source >>

\* Faulty: an argument that is no hexadecimal text is left out.
SkipBadHex ==
  /\ Given({ "b" }) /\ ~ Decodes(Option.optarg)
  /\ Taken
  /\ UNCHANGED collected

RejectHex ==
  /\ Given({ "b" }) /\ ~ Decodes(Option.optarg)
  /\ Stop("failure")
  /\ UNCHANGED << optind, collected, source_builder, output >>

Usage ==
  /\ Given({ "?" })
  /\ Stop("failure")
  /\ UNCHANGED << optind, collected, source_builder, output >>

EndOptions ==
  /\ At("options") /\ optind = Len(argv)
  /\ Goto(IF source_file_path # NoFile THEN "bytes" ELSE "cell")
  /\ UNCHANGED << optind, collected, source_builder, exit, output >>

------------------------------------------------------------------------------
(* The source. *)

Readable(name) == name \in DOMAIN disk /\ disk[name].whole

\* fopen fails, or fread gives fewer bytes than ftell said.
FileFails ==
  /\ At("bytes")
  /\ ~ Readable(source_file_path)
  /\ Stop("failure")
  /\ UNCHANGED << optind, collected, source_builder, output >>

SetBytes ==
  /\ At("bytes") /\ Readable(source_file_path)
  /\ source_builder' = Bytes(disk[source_file_path].code)
  /\ Goto("print")
  /\ UNCHANGED << optind, collected, exit, output >>

\* The cell goes into the inner source_builder, the one of the Uint64, which
\* was finalised and whose memory is free: the program may stop there.  The
\* outer one, built below, keeps its initial value.
SetCell ==
  /\ At("cell")
  /\ \/ Goto("print") /\ UNCHANGED exit
     \/ Stop("crash")
  /\ UNCHANGED << optind, collected, source_builder, output >>

Write ==
  /\ At("print")
  /\ output' = [ source |-> source_builder, args |-> args_builder ]
  /\ Stop("success")
  /\ UNCHANGED << optind, collected, source_builder >>

Take == TakeFile \/ TakeIndex \/ TakeSource \/ TakeText \/ TakeHex
Next == Take \/ RejectHex \/ Usage \/ EndOptions \/ FileFails \/ SetBytes \/ SetCell \/ Write
Spec == Init /\ [][Next]_vars /\ WF_vars(Next)

------------------------------------------------------------------------------
(* Properties. *)

\* Every variable keeps its type.
TypeOK ==
  /\ argv \in Commands /\ optind \in 0 .. Len(argv)
  /\ pc \in { "options", "bytes", "cell", "print", "end" }
  /\ source_file_path \in Names \union { NoFile }
  /\ cell_index \in Int /\ cell_source \in Int
  /\ args_builder \in Seq(Contents)
  /\ source_builder.tag \in { "bytes", "cell" } /\ source_builder.code \in Contents
  /\ exit \in { "none", "success", "failure", "crash" }

Places(opts) == { i \in DOMAIN argv : argv[i].opt \in opts }
Last(opt, default) ==
  LET given == Places({ opt })
  IN IF given = {} THEN default ELSE argv[CHOOSE i \in given : \A j \in given : j <= i].optarg
FileAsked == Last("f", NoFile)

\* How many arguments the first n options give.
Arguments(n) == Cardinality({ i \in Places({ "t", "b" }) : i <= n })

\* "They will be processed in the order they appear"
\* (c/native_args_assembler.c:109-110): the arguments printed are those of -t
\* and -b, texts and bytes mixed as they were given, none left out.  A text of -t is
\* there as it was given.  A text of -b is there as the bytes it stands for, unless
\* it has an upper-case digit: then as what to_int makes of that, 75, and the shift of
\* it (c/native_args_assembler.c:15-17).
ArgumentsInOrder ==
  exit = "success" =>
    /\ Len(output.args) = Arguments(Len(argv))
    /\ \A i \in Places({ "t", "b" }) :
         LET given == argv[i].optarg
             packed == output.args[Arguments(i)]
         IN  /\ argv[i].opt = "t" => packed = given
             /\ argv[i].opt = "b" => IsHex(given) /\ packed = Decoded(given)
             /\ argv[i].opt = "b" /\ IsPlain(given) => packed = Denoted(given)

\* "-f will have higher priority than -i/-s" (c/native_args_assembler.c:107):
\* wherever -i and -s stand, the source is the whole of the file named last.
FileHasPriority ==
  exit = "success" /\ FileAsked # NoFile =>
    /\ Readable(FileAsked)
    /\ output.source = Bytes(disk[FileAsked].code)

\* The Input is what the command line asks for: each argument in its place, as
\* "They will be processed in the order they appear" says, with the bytes given -
\* but for the upper-case digits of -b - and the whole of the file named last
\* (c/native_args_assembler.c:82-110).
InputAsAsked == ArgumentsInOrder /\ FileHasPriority

\* The tool fails exactly for an option it does not know, an argument that is
\* not hexadecimal or a file it cannot read, and with a file to read it never
\* stops otherwise (c/native_args_assembler.c:88-91, :101-113, :121-132).
FailureExplained ==
  At("end") =>
    /\ exit = "failure" <=>
         \/ \E i \in DOMAIN argv :
              argv[i].opt = "?" \/ (argv[i].opt = "b" /\ ~ IsHex(argv[i].optarg))
         \/ FileAsked # NoFile /\ ~ Readable(FileAsked)
    /\ exit = "crash" => FileAsked = NoFile

\* What the usage says of -i and -s (c/native_args_assembler.c:104-106): they
\* name the cell the loader takes its source from.
CellIsNamed ==
  exit = "success" /\ FileAsked = NoFile =>
    output.source = ExistingCell(Last("i", 0) % 2 ^ IndexBits, Last("s", 3))
==============================================================================

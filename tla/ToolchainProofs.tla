-------------------------- MODULE ToolchainProofs --------------------------
(***************************************************************************)
(* Proofs about the tools that share a disk, for every command line, every *)
(* disk and every set of programs: the assembler alone, and the dumper,    *)
(* the assembler and the loader together.  What the assembler has          *)
(* collected is compared with the options taken so far: the arguments by   *)
(* their number among them, the file by the last option that names one.    *)
(* What the loader runs is followed back through the file to the compiler. *)
(***************************************************************************)
EXTENDS Toolchain, SequenceTheorems, FiniteSetTheorems, TLAPS

\* An option the tool can use.
Good(o) == o.opt # "?" /\ (o.opt = "b" => Decodes(o.optarg))
GoodUpTo(n) == \A i \in 1 .. n : Good(argv[i])

\* What it gives as an argument.
Argument(o) == IF o.opt = "b" THEN Decoded(o.optarg) ELSE o.optarg

\* The file named last by the first n options.
NamedLast(n, name) ==
  \/ name = NoFile /\ \A i \in 1 .. n : argv[i].opt # "f"
  \/ /\ name \in Names
     /\ \E i \in 1 .. n : /\ argv[i].opt = "f" /\ argv[i].optarg = name
                          /\ \A j \in i + 1 .. n : argv[j].opt # "f"

\* The arguments of the first n options, in their order.
Collected(n, args) ==
  /\ Len(args) = Arguments(n)
  /\ \A i \in Places({ "t", "b" }) : i <= n => args[Arguments(i)] = Argument(argv[i])

\* All options are taken, and none was wrong.
AllTaken == optind = Len(argv) /\ GoodUpTo(Len(argv))

\* The source is the file, if one was named.
FromFile ==
  source_file_path # NoFile =>
    Readable(source_file_path) /\ source_builder = Bytes(disk[source_file_path].code)

OptionsInv ==
  /\ GoodUpTo(optind)
  /\ NamedLast(optind, source_file_path)
  /\ Collected(optind, args_builder)

SourceInv ==
  /\ pc \in { "bytes", "cell", "print" } => AllTaken
  /\ pc = "bytes" => source_file_path # NoFile
  /\ pc = "cell" => source_file_path = NoFile
  /\ pc = "print" => FromFile

ExitInv ==
  /\ exit = "none" <=> pc # "end"
  /\ exit = "success" =>
       AllTaken /\ FromFile /\ output = [ source |-> source_builder, args |-> args_builder ]
  /\ exit = "crash" => AllTaken /\ source_file_path = NoFile
  /\ exit = "failure" =>
       \/ \E i \in DOMAIN argv : ~ Good(argv[i])
       \/ AllTaken /\ source_file_path # NoFile /\ ~ Readable(source_file_path)

\* The variables of the assembler, whatever files hold.
TypesInv ==
  /\ argv \in Seq(Options) /\ optind \in 0 .. Len(argv)
  /\ pc \in { "options", "bytes", "cell", "print", "end" }
  /\ source_file_path \in Names \union { NoFile }
  /\ cell_index \in Int /\ cell_source \in Int
  /\ args_builder \in Seq(Contents)
  /\ source_builder.tag \in { "bytes", "cell" }
  /\ exit \in { "none", "success", "failure", "crash" }

\* The inductive invariant of the assembler, whoever wrote the disk before.
IInv == TypesInv /\ OptionsInv /\ SourceInv /\ ExitInv

\* And what it adds on its own.
AloneInv == argv \in Commands /\ disk \in Disks /\ source_builder.code \in Contents

-----------------------------------------------------------------------------
(* What the bytes of -b are. *)

\* to_int accepts exactly the hexadecimal digits (c/native_args_assembler.c:8-20).
LEMMA ToIntAccepts ==
  ASSUME NEW ch \in 1 .. 255
  PROVE  to_int(ch) # NotHex <=> ch \in HexDigits
  BY DEF to_int, NotHex, HexDigits, Decimal, Lower, Upper

\* So a text is decoded exactly if it is hexadecimal.
LEMMA DecodesHex ==
  ASSUME NEW s \in Seq(1 .. 255)
  PROVE  Decodes(s) <=> IsHex(s)
<1>1. \A i \in 1 .. Len(s) : s[i] \in 1 .. 255
  BY LenProperties, ElementOfSeq
<1>2. \A i \in 1 .. Len(s) : to_int(s[i]) # NotHex <=> s[i] \in HexDigits
  BY <1>1, ToIntAccepts
<1>3. QED
  BY <1>2 DEF Decodes, IsHex

\* On two digits' values below 16 the shift and the or put them side by side.
LEMMA PackedDigits ==
  ASSUME NEW h \in 0 .. 15, NEW l \in 0 .. 15
  PROVE  Packed(h, l) = 16*h + l
<1>1. h % 16 = h /\ l \div 16 = 0 /\ l % 16 = l
  OBVIOUS
<1>2. OrNibble(h, 0) = h
  <2>1. h \in { 0, 1, 2, 3, 4, 5, 6, 7, 8, 9, 10, 11, 12, 13, 14, 15 }
    OBVIOUS
  <2>2. QED
    BY <2>1 DEF OrNibble, Bit
<1>3. QED
  BY <1>1, <1>2 DEF Packed

\* But for upper-case digits to_int is the digit's value.
LEMMA ToIntExact ==
  ASSUME NEW ch \in HexDigits, ch \notin Upper
  PROVE  to_int(ch) = HexValue(ch) /\ to_int(ch) \in 0 .. 15
  BY DEF to_int, HexValue, HexDigits, Decimal, Lower, Upper

\* And to what it stands for, if it has no upper-case digit.
LEMMA DecodedDenoted ==
  ASSUME NEW s \in Seq(1 .. 255), Decodes(s), IsPlain(s)
  PROVE  Decoded(s) = Denoted(s)
<1>1. Len(s) \in Nat /\ IsHex(s)
  BY LenProperties, DecodesHex
<1>2. ASSUME NEW i \in 1 .. Len(s) \div 2
      PROVE  Packed(to_int(s[2*i - 1]), to_int(s[2*i]))
               = 16 * HexValue(s[2*i - 1]) + HexValue(s[2*i])
  <2>1. 2*i - 1 \in 1 .. Len(s) /\ 2*i \in 1 .. Len(s)
    BY <1>1
  <2>2. /\ s[2*i - 1] \in HexDigits /\ s[2*i - 1] \notin Upper
        /\ s[2*i] \in HexDigits /\ s[2*i] \notin Upper
    BY <1>1, <2>1 DEF IsHex, IsPlain
  <2>3. QED
    BY <2>2, ToIntExact, PackedDigits
<1>3. QED
  BY <1>2 DEF Decoded, Denoted

-----------------------------------------------------------------------------
(* The options. *)

\* A command line is a sequence of options.
LEMMA CommandLine ==
  ASSUME argv \in Seq(Options)
  PROVE  /\ Len(argv) \in Nat /\ DOMAIN argv = 1 .. Len(argv)
         /\ \A i \in 1 .. Len(argv) : argv[i] \in Options
  BY LenProperties, ElementOfSeq

\* What the values of an option can be.
LEMMA OptionValues ==
  ASSUME NEW o \in Options
  PROVE  /\ o.opt \in { "f", "i", "s", "t", "b", "?" }
         /\ o.opt = "f" => o.optarg \in Names
         /\ o.opt \in { "i", "s" } => o.optarg \in Int
         /\ o.opt = "b" => o.optarg \in Texts /\ o.optarg \in Seq(1 .. 255)
         /\ o.opt \in { "t", "b" } /\ Good(o) => Argument(o) \in Contents
<1>1. /\ o.opt \in { "f", "i", "s", "t", "b", "?" }
      /\ o.opt = "f" => o.optarg \in Names
      /\ o.opt \in { "i", "s" } => o.optarg \in Numbers
      /\ o.opt = "t" => o.optarg \in Contents
      /\ o.opt = "b" => o.optarg \in Texts
  BY DEF Options
<1>2. QED
  BY <1>1, AssemblerAssumption DEF Good, Argument

\* How the number of arguments grows with the options.
LEMMA ArgumentsGrow ==
  ASSUME argv \in Seq(Options)
  PROVE  /\ \A n \in Nat : Arguments(n) \in Nat
         /\ Arguments(0) = 0
         /\ \A n \in Nat : Arguments(n + 1) =
              IF n + 1 \in Places({ "t", "b" }) THEN Arguments(n) + 1 ELSE Arguments(n)
         /\ \A m, n \in Nat : m <= n => Arguments(m) <= Arguments(n)
         /\ \A i \in Places({ "t", "b" }) : Arguments(i) >= 1
<1> DEFINE P == Places({ "t", "b" })
           S(n) == { i \in P : i <= n }
<1>1. P \subseteq 1 .. Len(argv) /\ Len(argv) \in Nat
  BY CommandLine DEF Places
<1>2. IsFiniteSet(1 .. Len(argv))
  BY <1>1, FS_Interval
<1>3. \A n : IsFiniteSet(S(n)) /\ Arguments(n) = Cardinality(S(n))
  BY <1>1, <1>2, FS_Subset DEF Arguments
<1>0. \A i \in P : i \in Nat /\ i >= 1
  BY <1>1
<1> HIDE DEF P
<1>4. \A n \in Nat : Arguments(n) \in Nat
  BY <1>3, FS_CardinalityType
<1>5. Arguments(0) = 0
  <2>1. \A i \in P : ~ (i <= 0)
    BY <1>0
  <2>2. S(0) = {}
    BY <2>1
  <2>3. QED
    BY <1>3, <2>2, FS_EmptySet
<1>6. ASSUME NEW n \in Nat
      PROVE  Arguments(n + 1) = IF n + 1 \in P THEN Arguments(n) + 1 ELSE Arguments(n)
  <2>1. \A i \in P : i <= n + 1 <=> i <= n \/ i = n + 1
    BY <1>0
  <2>2. ~ (n + 1 <= n)
    OBVIOUS
  <2>3. SUFFICES ASSUME NEW m, m = n + 1
                 PROVE  Arguments(m) = IF m \in P THEN Arguments(n) + 1 ELSE Arguments(n)
    OBVIOUS
  <2>4. CASE m \in P
    <3>1. S(m) = S(n) \union { m } /\ m \notin S(n)
      BY <2>1, <2>2, <2>3, <2>4, ZenonT(40)
    <3>2. QED
      BY <1>3, <2>4, <3>1, FS_AddElement
  <2>5. CASE m \notin P
    <3>1. S(m) = S(n)
      BY <2>1, <2>3, <2>5, Zenon
    <3>2. QED
      BY <1>3, <2>5, <3>1
  <2>6. QED
    BY <2>4, <2>5
<1>7. ASSUME NEW m \in Nat, NEW n \in Nat, m <= n
      PROVE  Arguments(m) <= Arguments(n)
  <2>1. \A i \in P : i <= m => i <= n
    BY <1>0, <1>7
  <2>2. S(m) \subseteq S(n)
    BY <2>1, Zenon
  <2>3. Cardinality(S(m)) <= Cardinality(S(n))
    BY <1>3, <2>2, FS_Subset, Zenon
  <2>4. QED
    BY <1>3, <2>3
<1>8. ASSUME NEW i \in P
      PROVE  Arguments(i) >= 1
  <2>1. i \in Nat /\ i - 1 \in Nat /\ (i - 1) + 1 = i
    BY <1>1
  <2>2. Arguments(i) = Arguments(i - 1) + 1 /\ Arguments(i - 1) \in Nat
    BY <1>4, <1>6, <1>8, <2>1
  <2>3. QED
    BY <2>2
<1>9. QED
  BY <1>4, <1>5, <1>6, <1>7, <1>8 DEF P

\* One argument more.
LEMMA OneMore ==
  ASSUME argv \in Seq(Options), NEW n \in 0 .. Len(argv) - 1, NEW args \in Seq(Contents),
         Collected(n, args), n + 1 \in Places({ "t", "b" }), Good(argv[n + 1])
  PROVE  Collected(n + 1, Append(args, Argument(argv[n + 1])))
<1>1. Len(argv) \in Nat /\ n \in Nat /\ Len(args) \in Nat
  BY CommandLine, LenProperties
<1>2. Argument(argv[n + 1]) \in Contents
  BY <1>1, CommandLine, OptionValues DEF Places
<1>3. SUFFICES ASSUME NEW v \in Contents, v = Argument(argv[n + 1])
               PROVE  Collected(n + 1, Append(args, v))
  BY <1>2
<1>4. /\ Arguments(n) = Len(args) /\ Arguments(n + 1) = Len(args) + 1
      /\ Len(Append(args, v)) = Len(args) + 1
      /\ \A i \in 1 .. Len(args) : Append(args, v)[i] = args[i]
      /\ Append(args, v)[Len(args) + 1] = v
  <2>1. Arguments(n) = Len(args) /\ Arguments(n + 1) = Arguments(n) + 1
    BY <1>1, ArgumentsGrow DEF Collected
  <2>2. QED
    BY <2>1, AppendProperties
<1>5. ASSUME NEW i \in Places({ "t", "b" }), i <= n + 1
      PROVE  Append(args, v)[Arguments(i)] = Argument(argv[i])
  <2>1. i \in Nat
    BY CommandLine DEF Places
  <2>2. CASE i = n + 1
    BY <1>3, <1>4, <2>2
  <2>3. CASE i # n + 1
    <3>1. i <= n
      BY <1>1, <1>5, <2>1, <2>3
    <3>2. Arguments(i) \in 1 .. Len(args)
      BY <1>1, <1>4, <2>1, <3>1, ArgumentsGrow
    <3>3. args[Arguments(i)] = Argument(argv[i])
      BY <3>1 DEF Collected
    <3>4. QED
      BY <1>4, <3>2, <3>3
  <2>4. QED
    BY <2>2, <2>3
<1>6. QED
  BY <1>4, <1>5 DEF Collected

\* An option that gives no argument.
LEMMA NoneMore ==
  ASSUME argv \in Seq(Options), NEW n \in 0 .. Len(argv) - 1, NEW args,
         Collected(n, args), n + 1 \notin Places({ "t", "b" })
  PROVE  Collected(n + 1, args)
<1>1. n \in Nat /\ Arguments(n + 1) = Arguments(n)
  BY CommandLine, ArgumentsGrow
<1>2. \A i \in Places({ "t", "b" }) : i <= n + 1 => i <= n
  BY <1>1, CommandLine DEF Places
<1>3. QED
  BY <1>1, <1>2 DEF Collected

\* What was named last by all options is what was asked for.
LEMMA NamedIsAsked ==
  ASSUME argv \in Seq(Options), NEW name, NamedLast(Len(argv), name)
  PROVE  FileAsked = name
<1> DEFINE F == Places({ "f" })
<1>1. F \subseteq 1 .. Len(argv) /\ Len(argv) \in Nat /\ F = { i \in 1 .. Len(argv) : argv[i].opt = "f" }
  BY CommandLine DEF Places
<1> HIDE DEF F
<1>2. CASE F = {}
  BY <1>1, <1>2 DEF NamedLast, FileAsked, Last, F
<1>3. CASE F # {}
  <2>1. PICK i \in 1 .. Len(argv) : /\ argv[i].opt = "f" /\ argv[i].optarg = name
                                   /\ \A j \in i + 1 .. Len(argv) : argv[j].opt # "f"
    BY <1>1, <1>3 DEF NamedLast
  <2>2. i \in F /\ \A j \in F : j <= i
    BY <1>1, <2>1
  <2>3. \A k \in F : (\A j \in F : j <= k) => k = i
    BY <1>1, <2>2
  <2>4. (CHOOSE k \in F : \A j \in F : j <= k) = i
    BY <2>2, <2>3
  <2>5. FileAsked = argv[CHOOSE k \in F : \A j \in F : j <= k].optarg
    BY <1>3 DEF FileAsked, Last, F
  <2>6. QED
    BY <2>1, <2>4, <2>5
<1>4. QED
  BY <1>2, <1>3

-----------------------------------------------------------------------------
\* Nothing is collected at the beginning.
LEMMA FreshHolds ==
  ASSUME argv \in Seq(Options), Fresh
  PROVE  IInv
<1>1. Len(argv) \in Nat
  BY CommandLine
<1>2. TypesInv
  BY <1>1, AssemblerAssumption DEF Fresh, TypesInv, Bytes
<1>3. OptionsInv
  <2>1. Arguments(0) = 0 /\ Len(<< >>) = 0 /\ \A i \in Places({ "t", "b" }) : ~ (i <= 0)
    BY <1>1, ArgumentsGrow, CommandLine, EmptySeq DEF Places
  <2>2. QED
    BY <1>1, <2>1 DEF Fresh, OptionsInv, GoodUpTo, NamedLast, Collected
<1>4. QED
  BY <1>2, <1>3 DEF Fresh, IInv, SourceInv, ExitInv

\* As long as the command line and the disk stay, so does what is said of them.
LEMMA SameAsked ==
  ASSUME argv' = argv
  PROVE  /\ \A n : GoodUpTo(n)' <=> GoodUpTo(n)
         /\ \A n, name : NamedLast(n, name)' <=> NamedLast(n, name)
         /\ \A n, args : Collected(n, args)' <=> Collected(n, args)
         /\ FileAsked' = FileAsked
         /\ disk' = disk => \A name : Readable(name)' <=> Readable(name)
  BY DEF GoodUpTo, NamedLast, Collected, Arguments, Places, Readable, FileAsked, Last

\* An option taken: what it gives is collected.
LEMMA TakeHolds ==
  ASSUME IInv, Take
  PROVE  IInv'
<1> DEFINE n == optind
<1>1. /\ argv \in Seq(Options) /\ argv' = argv /\ disk' = disk /\ pc = "options" /\ pc' = "options"
      /\ optind \in Nat /\ optind < Len(argv) /\ Len(argv) \in Nat /\ optind' = optind + 1
      /\ exit' = exit /\ output' = output /\ source_builder' = source_builder
      /\ TypesInv /\ OptionsInv /\ SourceInv /\ ExitInv
  BY CommandLine
     DEF Take, TakeFile, TakeIndex, TakeSource, TakeText, TakeHex, Given, At, Taken, Goto, IInv, TypesInv
<1>2. SUFFICES ASSUME NEW o \in Options, o = argv[optind + 1], o = Option
               PROVE  IInv'
  <2>1. argv[optind + 1] \in Options
    BY <1>1, CommandLine
  <2>2. QED
    BY <2>1 DEF Option
<1>3. Good(o)
  BY <1>2 DEF Take, TakeFile, TakeIndex, TakeSource, TakeText, TakeHex, Given, Good
<1>4. /\ o.opt = "f" => o.optarg \in Names
      /\ o.opt \in { "i", "s" } => o.optarg \in Int
      /\ o.opt \in { "t", "b" } => Argument(o) \in Contents
  BY <1>3, OptionValues
<1>5. TypesInv'
  <2>1. source_file_path' \in Names \union { NoFile } /\ cell_index' \in Int /\ cell_source' \in Int
    BY <1>1, <1>2, <1>4
       DEF Take, TakeFile, TakeIndex, TakeSource, TakeText, TakeHex, Given, TypesInv
  <2>2. args_builder' \in Seq(Contents)
    <3>1. args_builder \in Seq(Contents)
      BY <1>1 DEF TypesInv
    <3>2. \/ args_builder' = args_builder
          \/ o.opt \in { "t", "b" } /\ args_builder' = Append(args_builder, Argument(o))
      BY <1>2 DEF Take, TakeFile, TakeIndex, TakeSource, TakeText, TakeHex, Given, Argument
    <3>3. QED
      BY <1>4, <3>1, <3>2, AppendProperties
  <2>3. QED
    BY <1>1, <2>1, <2>2 DEF TypesInv
<1>6. GoodUpTo(n + 1)
  <2>1. \A i \in 1 .. n + 1 : i \in 1 .. n \/ i = n + 1
    BY <1>1
  <2>2. QED
    BY <1>1, <1>2, <1>3, <2>1 DEF GoodUpTo, OptionsInv
<1>7. NamedLast(n + 1, source_file_path')
  <2>1. CASE TakeFile
    <3>1. o.opt = "f" /\ source_file_path' = o.optarg
      BY <1>2, <2>1 DEF TakeFile, Given
    <3>2. n + 1 \in 1 .. n + 1 /\ (n + 1) + 1 .. n + 1 = {}
      BY <1>1
    <3>3. QED
      BY <1>2, <1>4, <3>1, <3>2 DEF NamedLast
  <2>2. CASE ~ TakeFile
    <3>1. o.opt # "f" /\ source_file_path' = source_file_path
      BY <1>2, <2>2 DEF Take, TakeIndex, TakeSource, TakeText, TakeHex, Given
    <3>2. NamedLast(n, source_file_path)
      BY <1>1 DEF OptionsInv
    <3>3. \A i \in 1 .. n + 1 : i \in 1 .. n \/ i = n + 1
      BY <1>1
    <3>4. CASE source_file_path = NoFile /\ \A i \in 1 .. n : argv[i].opt # "f"
      BY <1>2, <3>1, <3>3, <3>4 DEF NamedLast
    <3>5. ASSUME source_file_path \in Names,
                 NEW i \in 1 .. n, argv[i].opt = "f", argv[i].optarg = source_file_path,
                 \A j \in i + 1 .. n : argv[j].opt # "f"
          PROVE  NamedLast(n + 1, source_file_path')
      <4>1. i \in 1 .. n + 1 /\ \A j \in i + 1 .. n + 1 : j \in i + 1 .. n \/ j = n + 1
        BY <1>1, <3>5
      <4>2. \A j \in i + 1 .. n + 1 : argv[j].opt # "f"
        BY <1>2, <3>1, <3>5, <4>1
      <4>3. QED
        BY <3>1, <3>5, <4>1, <4>2 DEF NamedLast
    <3>6. QED
      BY <3>2, <3>4, <3>5 DEF NamedLast
  <2>3. QED
    BY <2>1, <2>2
<1>8. Collected(n + 1, args_builder')
  <2>1. n \in 0 .. Len(argv) - 1 /\ n + 1 \in DOMAIN argv /\ args_builder \in Seq(Contents)
        /\ Collected(n, args_builder)
    BY <1>1, CommandLine DEF TypesInv, OptionsInv
  <2>2. n + 1 \in Places({ "t", "b" }) <=> o.opt \in { "t", "b" }
    BY <1>2, <2>1 DEF Places
  <2>3. CASE TakeText \/ TakeHex
    <3>1. o.opt \in { "t", "b" } /\ args_builder' = Append(args_builder, Argument(argv[n + 1]))
      BY <1>2, <2>3 DEF TakeText, TakeHex, Given, Argument
    <3>2. QED
      BY <1>1, <1>2, <1>3, <2>1, <2>2, <3>1, OneMore
  <2>4. CASE TakeFile \/ TakeIndex \/ TakeSource
    <3>1. o.opt \notin { "t", "b" } /\ args_builder' = args_builder
      BY <1>2, <2>4 DEF TakeFile, TakeIndex, TakeSource, Given
    <3>2. QED
      BY <1>1, <2>1, <2>2, <3>1, NoneMore
  <2>5. QED
    BY <2>3, <2>4 DEF Take
<1>9. OptionsInv'
  BY <1>1, <1>6, <1>7, <1>8, SameAsked DEF OptionsInv
<1>10. SourceInv' /\ ExitInv'
  BY <1>1 DEF SourceInv, ExitInv
<1>11. QED
  BY <1>1, <1>5, <1>9, <1>10 DEF IInv

\* Every other step takes no option.
LEMMA StepHolds ==
  ASSUME IInv, [Next]_vars
  PROVE  IInv'
<1>1. CASE Take
  BY <1>1, TakeHolds
<1>2. CASE ~ Take
  <2>1. /\ argv' = argv /\ disk' = disk /\ optind' = optind /\ source_file_path' = source_file_path
        /\ cell_index' = cell_index /\ cell_source' = cell_source /\ args_builder' = args_builder
    BY <1>2 DEF Next, RejectHex, Usage, EndOptions, FileFails, SetBytes, SetCell, Write,
                Goto, Stop, collected, vars
  <2>2. /\ argv \in Seq(Options) /\ Len(argv) \in Nat /\ TypesInv
        /\ OptionsInv /\ SourceInv /\ ExitInv
    BY CommandLine DEF IInv, TypesInv
  <2>3. OptionsInv' /\ (AllTaken' <=> AllTaken)
    BY <2>1, <2>2, SameAsked DEF OptionsInv, AllTaken
  <2>4. \A name : Readable(name)' <=> Readable(name)
    BY <2>1, SameAsked
  <2>5. source_builder' = source_builder => (FromFile' <=> FromFile)
    BY <2>1, <2>4 DEF FromFile
  <2>6. SUFFICES TypesInv' /\ SourceInv' /\ ExitInv'
    BY <2>1, <2>2, <2>3 DEF IInv
  <2>7. CASE RejectHex \/ Usage
    <3>1. optind + 1 \in DOMAIN argv /\ ~ Good(argv[optind + 1])
      BY <2>2, <2>7, CommandLine DEF RejectHex, Usage, Given, Option, Good, TypesInv
    <3>2. /\ pc' = "end" /\ exit' = "failure" /\ source_builder' = source_builder /\ output' = output
      BY <2>7 DEF RejectHex, Usage, Stop, Goto
    <3>3. QED
      BY <2>1, <2>2, <3>1, <3>2 DEF TypesInv, SourceInv, ExitInv
  <2>8. CASE EndOptions
    <3>1. /\ pc = "options" /\ optind = Len(argv) /\ exit' = exit /\ source_builder' = source_builder
          /\ output' = output /\ pc' = IF source_file_path # NoFile THEN "bytes" ELSE "cell"
      BY <2>8 DEF EndOptions, At, Goto
    <3>2. AllTaken
      BY <2>2, <3>1 DEF AllTaken, OptionsInv
    <3>3. QED
      BY <2>1, <2>2, <2>3, <3>1, <3>2 DEF TypesInv, SourceInv, ExitInv
  <2>9. CASE FileFails
    <3>1. /\ pc = "bytes" /\ ~ Readable(source_file_path) /\ pc' = "end" /\ exit' = "failure"
          /\ source_builder' = source_builder /\ output' = output
      BY <2>9 DEF FileFails, At, Stop, Goto
    <3>2. QED
      BY <2>1, <2>2, <2>3, <2>4, <3>1 DEF TypesInv, SourceInv, ExitInv
  <2>10. CASE SetBytes
    <3>1. /\ pc = "bytes" /\ Readable(source_file_path) /\ pc' = "print" /\ exit' = exit
          /\ source_builder' = Bytes(disk[source_file_path].code) /\ output' = output
      BY <2>10 DEF SetBytes, At, Goto
    <3>2. source_builder'.tag = "bytes"
      BY <3>1 DEF Bytes
    <3>3. FromFile'
      BY <2>1, <2>4, <3>1 DEF FromFile
    <3>4. TypesInv'
      BY <2>1, <2>2, <3>1, <3>2 DEF TypesInv
    <3>5. QED
      BY <2>2, <2>3, <3>1, <3>3, <3>4 DEF SourceInv, ExitInv
  <2>11. CASE SetCell
    <3>1. /\ pc = "cell" /\ source_builder' = source_builder /\ output' = output
          /\ \/ pc' = "print" /\ exit' = exit
             \/ pc' = "end" /\ exit' = "crash"
      BY <2>11 DEF SetCell, At, Goto, Stop
    <3>2. source_file_path = NoFile /\ AllTaken /\ FromFile
      BY <2>2, <3>1 DEF SourceInv, FromFile
    <3>3. QED
      BY <2>1, <2>2, <2>3, <2>5, <3>1, <3>2 DEF TypesInv, SourceInv, ExitInv
  <2>12. CASE Write
    <3>1. /\ pc = "print" /\ source_builder' = source_builder
          /\ pc' = "end" /\ exit' = "success"
          /\ output' = [ source |-> source_builder, args |-> args_builder ]
      BY <2>12 DEF Write, At, Goto, Stop
    <3>2. QED
      BY <2>1, <2>2, <2>3, <2>5, <3>1 DEF TypesInv, SourceInv, ExitInv
  <2>13. CASE UNCHANGED vars
    <3>1. pc' = pc /\ source_builder' = source_builder /\ exit' = exit /\ output' = output
      BY <2>13 DEF vars
    <3>2. QED
      BY <2>1, <2>2, <2>3, <2>4, <2>5, <3>1 DEF TypesInv, SourceInv, ExitInv
  <2>14. QED
    BY <1>2, <2>7, <2>8, <2>9, <2>10, <2>11, <2>12, <2>13 DEF Next
<1>3. QED
  BY <1>1, <1>2

-----------------------------------------------------------------------------
(* What the assembler promises follows from its invariant *)

\* What is printed is what was asked for.
LEMMA AsAsked == IInv => InputAsAsked
<1>1. SUFFICES ASSUME IInv, exit = "success"
               PROVE  InputAsAsked
  BY DEF InputAsAsked, ArgumentsInOrder, FileHasPriority
<1>2. /\ argv \in Seq(Options) /\ optind = Len(argv) /\ Len(argv) \in Nat /\ FromFile
      /\ output = [ source |-> source_builder, args |-> args_builder ]
      /\ NamedLast(optind, source_file_path) /\ Collected(optind, args_builder)
      /\ GoodUpTo(Len(argv))
  BY <1>1, CommandLine DEF IInv, TypesInv, OptionsInv, ExitInv, AllTaken
<1>3. FileAsked = source_file_path
  BY <1>2, NamedIsAsked
<1>4. \A i \in Places({ "t", "b" }) : i <= Len(argv)
  BY <1>2, CommandLine DEF Places
<1>5. ArgumentsInOrder
  <2>1. Len(output.args) = Arguments(Len(argv))
    BY <1>2 DEF Collected
  <2>2. ASSUME NEW i \in Places({ "t", "b" })
        PROVE  LET given == argv[i].optarg
                   packed == output.args[Arguments(i)]
               IN  /\ argv[i].opt = "t" => packed = given
                   /\ argv[i].opt = "b" => IsHex(given) /\ packed = Decoded(given)
                   /\ argv[i].opt = "b" /\ IsPlain(given) => packed = Denoted(given)
    <3>1. /\ output.args[Arguments(i)] = Argument(argv[i])
          /\ argv[i] \in Options /\ Good(argv[i])
      BY <1>2, <1>4, CommandLine DEF Collected, Places, GoodUpTo
    <3>2. argv[i].opt = "b" => Decodes(argv[i].optarg) /\ argv[i].optarg \in Seq(1 .. 255)
      BY <3>1, OptionValues DEF Good
    <3>3. argv[i].opt = "b" => IsHex(argv[i].optarg)
      BY <3>2, DecodesHex
    <3>4. argv[i].opt = "b" /\ IsPlain(argv[i].optarg) =>
            Decoded(argv[i].optarg) = Denoted(argv[i].optarg)
      BY <3>2, DecodedDenoted
    <3>5. argv[i].opt = "b" => Argument(argv[i]) = Decoded(argv[i].optarg)
      BY DEF Argument
    <3>6. argv[i].opt = "t" => Argument(argv[i]) = argv[i].optarg
      BY DEF Argument
    <3>7. QED
      BY <3>1, <3>2, <3>3, <3>4, <3>5, <3>6
  <2>3. QED
    BY <2>1, <2>2 DEF ArgumentsInOrder
<1>6. FileHasPriority
  BY <1>2, <1>3 DEF FileHasPriority, FromFile
<1>7. QED
  BY <1>5, <1>6 DEF InputAsAsked

\* A failure has one of the causes there are.
LEMMA Explained == IInv => FailureExplained
<1>1. SUFFICES ASSUME IInv, pc = "end"
               PROVE  FailureExplained
  BY DEF FailureExplained, At
<1>2. /\ argv \in Seq(Options) /\ DOMAIN argv = 1 .. Len(argv)
      /\ exit \in { "success", "failure", "crash" }
      /\ NamedLast(optind, source_file_path)
      /\ \A i \in DOMAIN argv : argv[i] \in Options
  BY <1>1, CommandLine DEF IInv, TypesInv, OptionsInv, ExitInv
<1>3. AllTaken => /\ \A i \in DOMAIN argv : Good(argv[i])
                  /\ FileAsked = source_file_path
  BY <1>2, NamedIsAsked DEF AllTaken, GoodUpTo
<1>4. (\E i \in DOMAIN argv :
          argv[i].opt = "?" \/ (argv[i].opt = "b" /\ ~ IsHex(argv[i].optarg)))
        <=> \E i \in DOMAIN argv : ~ Good(argv[i])
  <2>1. ASSUME NEW i \in DOMAIN argv, argv[i].opt = "b"
        PROVE  Decodes(argv[i].optarg) <=> IsHex(argv[i].optarg)
    BY <1>2, <2>1, OptionValues, DecodesHex
  <2>2. QED
    BY <2>1 DEF Good
<1>5. CASE exit = "failure"
  BY <1>1, <1>3, <1>4, <1>5 DEF IInv, ExitInv, FailureExplained
<1>6. CASE exit = "success"
  BY <1>1, <1>3, <1>4, <1>6 DEF IInv, ExitInv, FailureExplained, FromFile
<1>7. CASE exit = "crash"
  BY <1>1, <1>3, <1>4, <1>7 DEF IInv, ExitInv, FailureExplained
<1>8. QED
  BY <1>2, <1>5, <1>6, <1>7

-----------------------------------------------------------------------------
(* The assembler alone *)

\* What has been collected is what the options taken so far give.
THEOREM Invariance == Spec => []IInv
<1>1. Init => IInv
  BY FreshHolds, AssemblerAssumption DEF Init
<1>2. IInv /\ [Next]_vars => IInv'
  BY StepHolds
<1>3. QED
  BY <1>1, <1>2, PTL DEF Spec

\* Every variable keeps its type, on every command line.
THEOREM TypesKept == Spec => []TypeOK
<1>1. Init => AloneInv
  BY AssemblerAssumption DEF Init, Fresh, Bytes, AloneInv
<1>2. ASSUME AloneInv, [Next]_vars
      PROVE  AloneInv'
  <2>1. argv' = argv /\ disk' = disk
    BY <1>2 DEF Next, Take, TakeFile, TakeIndex, TakeSource, TakeText, TakeHex, Taken,
                RejectHex, Usage, EndOptions, FileFails, SetBytes, SetCell, Write, Goto, Stop, vars
  <2>2. CASE SetBytes
    <3>1. disk[source_file_path].code \in Contents
      BY <1>2, <2>2 DEF SetBytes, AloneInv, Disks, Readable
    <3>2. source_builder'.code \in Contents
      BY <2>2, <3>1 DEF SetBytes, Bytes
    <3>3. QED
      BY <1>2, <2>1, <3>2 DEF AloneInv
  <2>3. CASE ~ SetBytes
    <3>1. source_builder' = source_builder
      BY <1>2, <2>3 DEF Next, Take, TakeFile, TakeIndex, TakeSource, TakeText, TakeHex, Taken,
                        RejectHex, Usage, EndOptions, FileFails, SetCell, Write, vars
    <3>2. QED
      BY <1>2, <2>1, <3>1 DEF AloneInv
  <2>4. QED
    BY <2>2, <2>3
<1>3. IInv /\ AloneInv => TypeOK
  BY DEF IInv, AloneInv, TypesInv, TypeOK
<1>4. QED
  BY <1>1, <1>2, <1>3, Invariance, PTL DEF Spec

\* The arguments printed are those of -t and -b in their order, none left out: a text of
\* -t as it was given, a text of -b as the bytes it stands for, unless it has an
\* upper-case digit, which is packed as to_int has it.  And the source is the whole of
\* the file named last, wherever -i and -s stand
\* (c/native_args_assembler.c:15-17, :82-100, :107-110).
THEOREM PacksWhatWasAsked == Spec => []InputAsAsked
  BY AsAsked, Invariance, PTL

\* The tool fails exactly for an option it does not know, an argument that is not
\* hexadecimal or a file it cannot read (c/native_args_assembler.c:88-91, :101-113,
\* :121-132).
THEOREM FailuresHaveCauses == Spec => []FailureExplained
  BY Explained, Invariance, PTL

-----------------------------------------------------------------------------
(* The dumper, the assembler and the loader *)

\* The compiler has made a function of the source, and it was dumped.
HasDumped == \E c \in Programs : buf = Source(c) /\ out_buf = DumpFunction(Compile(c))

\* The file is the beginning of what was dumped.
HasWritten ==
  /\ Len(dump_argv) = 2 /\ dump_argv[2] \in DOMAIN disk
  /\ \E n \in 0 .. Len(out_buf) : disk[dump_argv[2]].code = Beginning(out_buf, n)

\* The dumper comes first, and leaves a file as long as it has not compiled.
DumpInv ==
  /\ dump_pc \in { "open", "read", "compile", "write", "fill", "end" }
  /\ dump_argv \in Seq(Names)
  /\ dump_pc # "end" => Fresh /\ dump_exit = -1
  /\ dump_pc \in { "read", "compile", "write", "fill" } => Len(dump_argv) = 2
  /\ dump_pc \in { "open", "read" } => \A name \in DOMAIN disk : disk[name].code \in Codes
  /\ dump_pc = "read" => dump_argv[1] \in DOMAIN disk
  /\ dump_pc = "compile" => buf \in Codes \ { Empty }
  /\ dump_pc \in { "write", "fill" } => HasDumped
  /\ dump_exit = 0 => HasDumped /\ HasWritten

\* What the loader has run is what the assembler printed.
RanInv ==
  \/ ran = [ how |-> "not yet" ]
  \/ exit = "success" /\ ran = Evaluated(output.source.code)

ToolInv == IInv /\ DumpInv /\ RanInv

\* Only a source compiles.
LEMMA OnlySources ==
  ASSUME NEW code \in Codes \ { Empty }, Compiles(code)
  PROVE  \E c \in Programs : code = Source(c) /\ Compiled(code) = Compile(c)
<1>1. code[1].kind = "source"
  BY DEF Compiles
<1>2. code \notin Bytecodes
  BY <1>1, BytecodeAssumption
<1>3. code # Nonsense
  BY <1>1 DEF Nonsense
<1>4. PICK c \in Programs : code = Source(c)
  BY <1>2, <1>3 DEF Codes
<1>5. Compiled(code) = Compile(c)
  BY <1>4 DEF Compiled, Source
<1>6. QED
  BY <1>4, <1>5

\* Nothing is done at the beginning.
LEMMA ToolInitHolds ==
  ASSUME ToolInit
  PROVE  ToolInv
<1>1. /\ argv \in Seq(Options) /\ Fresh /\ dump_argv \in Seq(Names)
      /\ \A name \in DOMAIN disk : disk[name].code \in Codes
      /\ dump_pc = "open" /\ dump_exit = -1
  BY ErrandsAssumption DEF ToolInit
<1>2. IInv
  BY <1>1, FreshHolds
<1>3. DumpInv
  BY <1>1 DEF DumpInv
<1>4. QED
  BY <1>2, <1>3 DEF ToolInit, RanInv, ToolInv

\* Steps of the dumper, before the assembler begins.
LEMMA DumperHolds ==
  ASSUME ToolInv, Dumper
  PROVE  ToolInv'
<1>1. /\ dump_pc # "end" /\ Fresh /\ dump_exit = -1
      /\ argv' = argv /\ optind' = optind /\ pc' = pc /\ collected' = collected
      /\ source_builder' = source_builder /\ exit' = exit /\ output' = output
      /\ dump_argv' = dump_argv /\ ran' = ran /\ dump_argv \in Seq(Names)
      /\ dump_pc # "open" => Len(dump_argv) = 2
  BY DEF ToolInv, DumpInv, Dumper, DumpUsage, OpenSource, ReadSource, CompileAndDump,
         OpenOutput, WriteOutput, DumpAt, vars
<1>2. /\ source_file_path' = source_file_path /\ cell_index' = cell_index
      /\ cell_source' = cell_source /\ args_builder' = args_builder
  BY <1>1 DEF collected
<1>3. Fresh'
  BY <1>1, <1>2 DEF Fresh, NoOutput, Bytes
<1>4. IInv'
  <2>1. TypesInv'
    BY <1>1, <1>2 DEF ToolInv, IInv, TypesInv
  <2>2. OptionsInv'
    BY <1>1, <1>2, SameAsked DEF ToolInv, IInv, OptionsInv
  <2>3. SourceInv' /\ ExitInv'
    BY <1>3 DEF Fresh, SourceInv, ExitInv
  <2>4. QED
    BY <2>1, <2>2, <2>3 DEF IInv
<1>5. RanInv'
  BY <1>1 DEF ToolInv, RanInv, Evaluated, Function, Compiles, Compiled
<1>6. DumpInv'
  <2>1. CASE DumpUsage
    BY <1>1, <2>1 DEF DumpUsage, DumpAt, DumpStop, DumpInv
  <2>2. CASE OpenSource
    BY <1>1, <1>3, <2>2 DEF OpenSource, DumpAt, DumpStop, DumpInv, ToolInv, vars
  <2>3. CASE ReadSource
    <3>1. disk[dump_argv[1]].code \in Codes
      BY <2>3 DEF ReadSource, DumpAt, DumpInv, ToolInv
    <3>2. dump_pc = "read"
      BY <2>3 DEF ReadSource, DumpAt
    <3>3. \/ dump_pc' = "compile" /\ buf' = disk[dump_argv[1]].code /\ buf' # Empty /\ dump_exit' = -1
          \/ dump_pc' = "end" /\ dump_exit' = 2
      BY <1>1, <2>3 DEF ReadSource, DumpStop
    <3>4. QED
      BY <1>1, <1>3, <3>1, <3>2, <3>3 DEF DumpInv
  <2>4. CASE CompileAndDump
    <3>1. CASE Compiles(buf)
      <4>1. PICK c \in Programs : buf = Source(c) /\ Compiled(buf) = Compile(c)
        BY <2>4, <3>1, OnlySources DEF CompileAndDump, DumpAt, DumpInv, ToolInv
      <4>2. buf' = buf /\ out_buf' = DumpFunction(Compiled(buf)) /\ dump_pc' = "write" /\ dump_exit' = -1
        BY <1>1, <2>4, <3>1 DEF CompileAndDump, DumpAt
      <4>3. HasDumped'
        BY <4>1, <4>2 DEF HasDumped
      <4>4. QED
        BY <1>1, <1>3, <2>4, <4>2, <4>3 DEF CompileAndDump, DumpAt, DumpInv
    <3>2. CASE ~ Compiles(buf)
      BY <1>1, <2>4, <3>2 DEF CompileAndDump, DumpStop, DumpInv
    <3>3. QED
      BY <3>1, <3>2
  <2>5. CASE OpenOutput
    <3>1. HasDumped /\ buf' = buf /\ out_buf' = out_buf
      BY <2>5 DEF OpenOutput, DumpStop, DumpInv, ToolInv
    <3>2. HasDumped'
      BY <3>1 DEF HasDumped
    <3>3. \/ dump_pc' = "fill" /\ dump_exit' = -1
          \/ dump_pc' = "end" /\ dump_exit' = 2
      BY <1>1, <2>5 DEF OpenOutput, DumpStop
    <3>4. QED
      BY <1>1, <1>3, <2>5, <3>2, <3>3 DEF OpenOutput, DumpInv
  <2>6. CASE WriteOutput
    <3>1. HasDumped /\ buf' = buf /\ out_buf' = out_buf /\ dump_pc' = "end"
      BY <2>6 DEF WriteOutput, DumpStop, DumpInv, ToolInv
    <3>2. HasDumped'
      BY <3>1 DEF HasDumped
    <3>3. HasWritten'
      <4>1. PICK n \in 0 .. Len(out_buf) : PutFile(dump_argv[2], Beginning(out_buf, n))
        BY <2>6 DEF WriteOutput
      <4>2. /\ dump_argv[2] \in DOMAIN disk'
            /\ disk'[dump_argv[2]].code = Beginning(out_buf, n)
        BY <4>1 DEF PutFile
      <4>3. Len(dump_argv) = 2
        BY <1>1, <2>6 DEF WriteOutput
      <4>4. QED
        BY <1>1, <3>1, <4>2, <4>3 DEF HasWritten, Beginning
    <3>4. QED
      BY <1>1, <3>1, <3>2, <3>3 DEF DumpInv
  <2>7. QED
    BY <2>1, <2>2, <2>3, <2>4, <2>5, <2>6 DEF Dumper
<1>7. QED
  BY <1>4, <1>5, <1>6 DEF ToolInv

\* Steps of the others: the file of the dumper stays as it is.
LEMMA ToolStepHolds ==
  ASSUME ToolInv, [ToolNext]_allVars
  PROVE  ToolInv'
<1>1. CASE Dumper
  BY <1>1, DumperHolds
<1>2. CASE Assemble
  <2>1. dump_pc = "end" /\ Next /\ UNCHANGED << dumperVars, ran >>
    BY <1>2 DEF Assemble
  <2>2. IInv'
    BY <2>1, StepHolds DEF ToolInv
  <2>3. disk' = disk
    BY <2>1 DEF Next, Take, TakeFile, TakeIndex, TakeSource, TakeText, TakeHex, Taken,
                RejectHex, Usage, EndOptions, FileFails, SetBytes, SetCell, Write, Goto, Stop
  <2>4. DumpInv'
    BY <2>1, <2>3 DEF ToolInv, DumpInv, dumperVars, HasDumped, HasWritten
  <2>5. exit = "none"
    <3>1. pc # "end"
      BY <2>1 DEF Next, Take, TakeFile, TakeIndex, TakeSource, TakeText, TakeHex, Given,
                  RejectHex, Usage, EndOptions, FileFails, SetBytes, SetCell, Write, At
    <3>2. QED
      BY <3>1 DEF ToolInv, IInv, ExitInv
  <2>6. RanInv'
    BY <2>1, <2>5 DEF ToolInv, RanInv
  <2>7. QED
    BY <2>2, <2>4, <2>6 DEF ToolInv
<1>3. CASE Evaluate \/ UNCHANGED allVars
  <2>1. UNCHANGED vars /\ UNCHANGED dumperVars
    BY <1>3 DEF Evaluate, allVars
  <2>2. IInv'
    BY <2>1, StepHolds DEF ToolInv
  <2>3. DumpInv'
    BY <2>1 DEF ToolInv, DumpInv, vars, collected, dumperVars, HasDumped, HasWritten, Fresh
  <2>4. exit' = exit /\ output' = output
    BY <2>1 DEF vars
  <2>5. RanInv'
    <3>1. CASE Evaluate
      BY <2>4, <3>1 DEF Evaluate, RanInv
    <3>2. CASE ran' = ran
      BY <2>4, <3>2 DEF ToolInv, RanInv
    <3>3. QED
      BY <1>3, <3>1, <3>2 DEF allVars
  <2>6. QED
    BY <2>2, <2>3, <2>5 DEF ToolInv
<1>4. QED
  BY <1>1, <1>2, <1>3 DEF ToolNext

\* One disk, and three programs one after the other.
THEOREM ToolInvariance == ToolSpec => []ToolInv
<1>1. ToolInit => ToolInv
  BY ToolInitHolds
<1>2. ToolInv /\ [ToolNext]_allVars => ToolInv'
  BY ToolStepHolds
<1>3. QED
  BY <1>1, <1>2, PTL DEF ToolSpec

\* Also on a disk the dumper has written before, the Input is what the command line
\* asks for, upper-case digits of -b excepted: they are packed as to_int has them
\* (c/native_args_assembler.c:15-17, :82-110).
THEOREM PacksWhatIsThere == ToolSpec => []InputAsAsked
<1>1. ToolInv => InputAsAsked
  BY AsAsked DEF ToolInv
<1>2. QED
  BY <1>1, ToolInvariance, PTL

\* And the assembler fails for a reason, of which the dumper is none
\* (c/native_args_assembler.c:88-91, :101-113, :121-132).
THEOREM FailuresAreItsOwn == ToolSpec => []FailureExplained
<1>1. ToolInv => FailureExplained
  BY Explained DEF ToolInv
<1>2. QED
  BY <1>1, ToolInvariance, PTL

\* No file is touched but the one for the bytecode, and that only when a program was
\* read and compiled, with the beginning of its bytecode
\* (c/native_dump_bytecode.c:17-64).
THEOREM FilesAreKept == ToolSpec => DiskTouchedLast
<1> DEFINE Touch ==
       /\ \E c \in Programs :
            /\ buf = Source(c)
            /\ \E n \in 0 .. Len(out_buf) :
                 /\ disk'[dump_argv[2]] = [ code |-> Beginning(out_buf, n), whole |-> TRUE ]
                 /\ out_buf = DumpFunction(Compile(c))
       /\ \A name \in Names \ { dump_argv[2] } :
            /\ name \in DOMAIN disk <=> name \in DOMAIN disk'
            /\ name \in DOMAIN disk => disk'[name] = disk[name]
<1>1. ASSUME ToolInv, [ToolNext]_allVars, disk' # disk
      PROVE  Touch
  <2>1. OpenOutput \/ WriteOutput
    BY <1>1 DEF ToolNext, Dumper, DumpUsage, OpenSource, ReadSource, CompileAndDump, DumpAt,
                Assemble, Evaluate, allVars, vars, Next, Take, TakeFile, TakeIndex, TakeSource,
                TakeText, TakeHex, Taken, RejectHex, Usage, EndOptions, FileFails, SetBytes,
                SetCell, Write, Goto, Stop
  <2>2. HasDumped
    BY <1>1, <2>1 DEF OpenOutput, WriteOutput, ToolInv, DumpInv
  <2>3. Len(out_buf) \in Nat
    BY <2>2, BytecodeAssumption, LenProperties DEF HasDumped, Bytecodes
  <2>4. PICK n \in 0 .. Len(out_buf) : PutFile(dump_argv[2], Beginning(out_buf, n))
    BY <1>1, <2>1, <2>3 DEF OpenOutput, WriteOutput, Beginning, DumpStop
  <2>5. disk'[dump_argv[2]] = [ code |-> Beginning(out_buf, n), whole |-> TRUE ]
    BY <2>4 DEF PutFile
  <2>6. \A name \in Names \ { dump_argv[2] } :
          /\ name \in DOMAIN disk <=> name \in DOMAIN disk'
          /\ name \in DOMAIN disk => disk'[name] = disk[name]
    BY <2>4 DEF PutFile
  <2>7. QED
    BY <2>2, <2>5, <2>6 DEF HasDumped
<1>2. ToolInv /\ [ToolNext]_allVars => [disk' # disk => Touch]_allVars
  BY <1>1
<1> HIDE DEF Touch
<1>3. ToolSpec => [][disk' # disk => Touch]_allVars
  BY <1>2, ToolInvariance, PTL DEF ToolSpec
<1>4. QED
  BY <1>3 DEF DiskTouchedLast, Touch

\* From source to script: what the loader runs is what the compiler made of the source,
\* whatever else is on the disk and on the command lines, given that the bytecode
\* format does its work; and of a file that was cut nothing is run as a function
\* (c/native_dump_bytecode.c:43-66, c/native_args_assembler.c:120-145, c/glue.h:457-486).
THEOREM ScriptsSurviveTheTools ==
  ASSUME BytecodeIsFaithful
  PROVE  ToolSpec => []RunsWhatWasCompiled
<1>1. ASSUME ToolInv, dump_exit = 0, ran.how # "not yet", FileAsked = dump_argv[2]
      PROVE  LET written == disk[dump_argv[2]].code
             IN CASE written = out_buf -> ran = Function(Compiled(buf))
                  [] written = Empty -> ran.how = "nothing"
                  [] OTHER -> ran.how = "wild"
  <2>1. HasWritten /\ HasDumped
    BY <1>1 DEF ToolInv, DumpInv
  <2>2. PICK c \in Programs : buf = Source(c) /\ out_buf = DumpFunction(Compile(c))
    BY <2>1 DEF HasDumped
  <2>3. PICK n \in 0 .. Len(out_buf) : disk[dump_argv[2]].code = Beginning(out_buf, n)
    BY <2>1 DEF HasWritten
  <2>4. SUFFICES ASSUME NEW code, code = DumpFunction(Compile(c)), NEW written, written = Beginning(code, n)
                 PROVE  CASE written = code -> ran = Function(Compiled(buf))
                          [] written = Empty -> ran.how = "nothing"
                          [] OTHER -> ran.how = "wild"
    BY <2>2, <2>3
  <2>5. /\ code \in Seq({ code[i] : i \in DOMAIN code }) /\ code # << >> /\ code # Empty
        /\ code[1].kind = "marker"
    BY <2>4, BytecodeAssumption DEF Bytecodes
  <2>6. /\ Len(code) \in Nat /\ n \in 0 .. Len(code) /\ Len(code) >= 1
    BY <2>2, <2>4, <2>5, LenProperties, EmptySeq
  <2>7. ran = Evaluated(written)
    <3>1. exit = "success" /\ ran = Evaluated(output.source.code)
      <4>1. ASSUME ran = [ how |-> "not yet" ] PROVE FALSE
        <5>1. ran.how = "not yet"
          BY <4>1
        <5>2. QED
          BY <1>1, <5>1
      <4>2. QED
        BY <1>1, <4>1 DEF ToolInv, RanInv
    <3>2. FileHasPriority
      BY <1>1, AsAsked DEF ToolInv, InputAsAsked
    <3>3. FileAsked # NoFile
      <4>1. dump_argv \in Seq(Names) /\ Len(dump_argv) = 2
        BY <1>1, <2>1 DEF ToolInv, DumpInv, HasWritten
      <4>2. dump_argv[2] \in Names
        BY <4>1
      <4>3. QED
        BY <1>1, <4>2, AssemblerAssumption
    <3>4. output.source = Bytes(disk[FileAsked].code)
      BY <3>1, <3>2, <3>3 DEF FileHasPriority
    <3>5. output.source.code = written
      <4>1. output.source.code = disk[FileAsked].code
        BY <3>4 DEF Bytes
      <4>2. disk[dump_argv[2]].code = Beginning(code, n)
        BY <2>2, <2>3, <2>4
      <4>3. QED
        BY <1>1, <2>4, <4>1, <4>2
    <3>6. QED
      BY <3>1, <3>5
  <2>8. /\ LoadFunction(code).at # 0 /\ Seen(LoadFunction(code).val) = Seen(Compile(c))
        /\ \A m \in 1 .. Len(code) - 1 :
             LoadFunction(SubSeq(code, 1, m)).at = 0 /\ LoadFunction(SubSeq(code, 1, m)).val = "wild"
    BY <2>2, <2>4 DEF BytecodeIsFaithful
  <2>9. CASE n = 0
    <3>1. written = Empty
      BY <2>4, <2>9 DEF Beginning
    <3>2. ran.how = "nothing"
      BY <2>7, <3>1 DEF Evaluated
    <3>3. QED
      BY <2>5, <3>1, <3>2
  <2>10. CASE n = Len(code)
    <3>1. written = code
      BY <2>4, <2>5, <2>6, <2>10, SubSeqProperties DEF Beginning
    <3>2. Compiled(buf) = Compile(c)
      BY <2>2 DEF Compiled, Source
    <3>3. ran = Function(LoadFunction(code).val)
      BY <2>5, <2>7, <2>8, <3>1 DEF Evaluated
    <3>4. ran = Function(Compiled(buf))
      BY <2>8, <3>2, <3>3 DEF Function
    <3>5. QED
      BY <2>5, <3>1, <3>4
  <2>11. CASE n # 0 /\ n # Len(code)
    <3>1. n \in 1 .. Len(code) - 1 /\ written = SubSeq(code, 1, n)
      BY <2>4, <2>6, <2>11 DEF Beginning
    <3>2. Len(written) = n /\ written[1] = code[1]
      BY <2>5, <2>6, <3>1, SubSeqProperties
    <3>3. written # code
      BY <2>6, <3>1, <3>2
    <3>4. CASE written = Empty
      BY <2>7, <3>3, <3>4 DEF Evaluated
    <3>5. CASE written # Empty
      <4>1. ran = [ how |-> "wild" ]
        BY <2>5, <2>7, <2>8, <3>1, <3>2, <3>5 DEF Evaluated
      <4>2. QED
        BY <3>3, <3>5, <4>1
    <3>6. QED
      BY <3>4, <3>5
  <2>12. QED
    BY <2>9, <2>10, <2>11
<1>2. ToolInv => RunsWhatWasCompiled
  BY <1>1 DEF RunsWhatWasCompiled
<1>3. QED
  BY <1>2, ToolInvariance, PTL
=============================================================================

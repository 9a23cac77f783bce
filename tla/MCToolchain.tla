----------------------------- MODULE MCToolchain -----------------------------
(***************************************************************************)
(* Two families of errands.  Without a dump: every command line of up to   *)
(* three options on every disk of two files, as for the assembler alone.   *)
(* With one: a dump of f or of g, of every program, into either file,      *)
(* which may hold nothing, a text, bytecode or no file before; then a      *)
(* short command line.  Programs hold no function, one of each kind, or    *)
(* two.                                                                    *)
(***************************************************************************)
EXTENDS Toolchain, MCArgsAssembler

Duk == INSTANCE Bytecode
MCCompile(program) == Duk!Closure(Duk!Template(program), Duk!Global)
MCDump(fun) == Duk!Dump(fun)
MCLoad(data) == Duk!Load(data)
MCSeen(fun) == Duk!Observed(fun)

CONSTANTS x, y      \* two pieces of code

Features(code, function, named, argnames, arguments, flags, consts, funcs) ==
  [ code |-> code, function |-> function, named |-> named,
    name |-> IF function THEN "fn" ELSE "global",
    argnames |-> argnames, arguments |-> arguments, shadowed |-> FALSE,
    slow |-> ~ arguments, varmap |-> [ i \in DOMAIN argnames |-> << argnames[i], i >> ],
    lines |-> "lines", flags |-> flags, consts |-> consts, funcs |-> funcs ]

NoConsts == << >>
TwoConsts == << << "string", "a" >>, << "double", 1 >> >>

InnerFunctions ==
  { Features(y, TRUE, named, argnames, arguments, flags, << >>, << >>) :
      named \in BOOLEAN, argnames \in { << >>, << "a", "b" >> }, arguments \in BOOLEAN,
      flags \in { { }, { "constructable", "namebinding" }, { "strict" } } }
Nested == Features(y, TRUE, TRUE, << "a" >>, FALSE, { "namebinding" }, TwoConsts,
                   << Duk!Template(Features(x, TRUE, FALSE, << "b" >>, TRUE, { }, << >>, << >>)) >>)

Main(flags, consts, funcs) ==
  Features(x, FALSE, TRUE, << >>, FALSE, flags, consts, [ i \in DOMAIN funcs |-> Duk!Template(funcs[i]) ])
MCPrograms ==
  { Main({ }, NoConsts, << >>), Main({ "strict" }, TwoConsts, << Nested >>) }
    \union { Main({ }, TwoConsts, << f1 >>) : f1 \in InnerFunctions }
    \union { Main({ }, NoConsts, << f1, Nested >>) : f1 \in InnerFunctions }

Small == Main({ }, NoConsts, << >>)
OldBytecode == DumpFunction(Compile(Small))
File(code, whole) == [ code |-> code, whole |-> whole ]

PlainContents == { Empty, Source(Small) }
PlainDisks ==
  UNION { [ d -> [ code : PlainContents, whole : BOOLEAN ] ] : d \in SUBSET { f, g } }
PlainErrands == [ argv : MCCommands, disk : PlainDisks, dump : { << >> } ]

DumpDisks ==
  UNION { { [ n \in { f } |-> File(code, whole) ],
            [ n \in { f, g } |-> IF n = f THEN File(code, whole) ELSE File(OldBytecode, TRUE) ],
            [ n \in { f, g } |-> IF n = f THEN File(code, whole) ELSE File(Nonsense, TRUE) ] } :
            code \in { Empty, Nonsense, OldBytecode } \union { Source(p) : p \in MCPrograms },
            whole \in BOOLEAN }
DumpErrands ==
  [ argv : { << Opt("f", g) >>, << Opt("f", f), Opt("t", c) >> },
    disk : DumpDisks,
    dump : { << f, g >>, << f, f >>, << g, f >> } ]

MCErrands == PlainErrands \union DumpErrands
==============================================================================

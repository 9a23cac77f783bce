--------------------------- MODULE MCArgsAssembler ---------------------------
(***************************************************************************)
(* Every command line of up to three options, in every order, on every     *)
(* disk of two files that may be missing, empty, or give less than their   *)
(* length; a text after -b is empty, in small or capital digits, or no     *)
(* hexadecimal text.                                                       *)
(***************************************************************************)
EXTENDS ArgsAssembler

CONSTANTS f, g,       \* two files
          c           \* a content that is not empty

Opt(opt, optarg) == [ opt |-> opt, optarg |-> optarg ]
MCNames == { f, g }
MCNumbers == { 1, -1 }

\* Nothing, "0f", the same in capitals, and "0g".
Nothing == << >>
Small0F == << 48, 102 >>
Capital0F == << 48, 70 >>
NoDigits == << 48, 103 >>
MCTexts == { Nothing, Small0F, Capital0F, NoDigits }
MCContents == { Nothing, c } \union { Decoded(t) : t \in { Small0F, Capital0F } }

MCOptions ==
  { Opt("f", f), Opt("f", g), Opt("i", 1), Opt("i", -1), Opt("s", 1), Opt("t", Nothing), Opt("t", c),
    Opt("?", Nothing) } \union { Opt("b", t) : t \in MCTexts }
MCCommands == UNION { [ 1 .. n -> MCOptions ] : n \in 0 .. 3 }
==============================================================================

----------------------------- MODULE MCLoadSource -----------------------------
(***************************************************************************)
(* Worlds for TLC.  Sizes are in units: a buffer of 2, codes one below,    *)
(* at and above it.  Every source of a code (the input, a cell) meets      *)
(* every effect, and a decoy cell sits at the swapped reference.           *)
(***************************************************************************)
EXTENDS LoadSource, TLC

CONSTANTS a, b        \* two argument items

MCItems == { a, b }
Code(size, head, effect) == [ size |-> size, head |-> head, effect |-> effect ]

Ordinary == { Code(2, head, effect) : head \in { "js", "bytecode" }, effect \in Effects }
Empty == Code(0, "none", "value")
Small == Code(1, "js", "value")
Large == { Code(3, head, "value") : head \in { "js", "bytecode" } }
MCCodes == Ordinary \union { Empty, Small } \union Large

ArgLists == { << >>, << a, b >>, << b, a, a >> }
Input(tag, args, code, index, source) ==
  [ tag |-> tag, args |-> args, code |-> code, index |-> index, source |-> source ]

\* The cell referred to is at index 0 of the cell deps (source 3).
EmbeddedInputs == { Input("bytes", l, c, 0, 0) : l \in ArgLists, c \in MCCodes }
CellInputs == { Input("cell", l, Empty, 0, 3) : l \in ArgLists }
OddInputs == { Input("empty", << >>, Empty, 0, 0), Input("malformed", << a >>, Small, 0, 3) }

\* The cell asked for is missing or holds any code; another one, at the
\* reference read backwards, holds a small script.
Decoy == << 3, 0 >> :> Small
Transactions == { Decoy } \union { (<< 0, 3 >> :> c) @@ Decoy : c \in MCCodes }

ScriptAnswers ==
  { [ ret |-> 0, len |-> 2, valid |-> TRUE ], [ ret |-> 0, len |-> 3, valid |-> TRUE ],
    [ ret |-> 0, len |-> 2, valid |-> FALSE ], [ ret |-> 2, len |-> 0, valid |-> FALSE ] }
Loaded == [ ret |-> 0, len |-> 2, valid |-> TRUE ]

\* How the input arrives: as hexadecimal text or in the script's args.
Ways == { [ argc |-> 1, hexRet |-> h, script |-> Loaded ] : h \in { 0, 2, 3 } }
        \union { [ argc |-> 0, hexRet |-> 0, script |-> s ] : s \in ScriptAnswers }

Inside == EmbeddedInputs \union OddInputs
Cases == { << i, Decoy >> : i \in Inside } \union (CellInputs \X Transactions)

MCWorlds ==
  { [ main |-> m, argc |-> w.argc, hexRet |-> w.hexRet, script |-> w.script,
      input |-> c[1], tx |-> c[2], overlaid |-> o, short |-> t ] :
      m \in Mains, w \in Ways, c \in Cases, o \in BOOLEAN, 
      t \in { "nothing", "memory", "cycles" } }
==============================================================================

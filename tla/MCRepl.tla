-------------------------------- MODULE MCRepl --------------------------------
(***************************************************************************)
(* Every input of up to five characters for a line buffer of two: empty    *)
(* lines, full lines, lines one too long, and a last line with or without  *)
(* its newline.                                                            *)
(***************************************************************************)
EXTENDS Repl, TLC

CONSTANTS x, mark     \* an ordinary character and the bytecode mark

MCChars == { x, mark }
MCInputs == UNION { [ 1 .. n -> MCChars \union { Newline } ] : n \in 0 .. 5 }
==============================================================================

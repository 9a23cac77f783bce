---------------------------- MODULE MCCoroutine ----------------------------
(* The heap thread and two coroutines. *)
EXTENDS Coroutine, TLC

CONSTANTS main, c1, c2

MCThread == {main, c1, c2}
Sym == Permutations({c1, c2})
=============================================================================

------------------------------- MODULE MCHeap -------------------------------
(***************************************************************************)
(* Three objects: enough for a cycle and something that hangs on it, and   *)
(* for a finalizer that makes or keeps objects.  Marking recurses one call *)
(* deep, so that it needs more than one scan to follow two references.     *)
(***************************************************************************)
EXTENDS Heap, Marking, TLC, SequencesExt

CONSTANTS o1, o2, o3

MCObj == {o1, o2, o3}

MCMark(g, S, done) == MarkedFrom(g, SetToSeq(MCObj), S, done)

\* The order of the heap's lists makes no difference.
ASSUME OrderAssumption ==
  \A g \in [MCObj -> SUBSET MCObj], S, done \in SUBSET MCObj, order \in SetToSeqs(MCObj) :
    Closed(g, done) => MarkedFrom(g, order, S, done) = MCMark(g, S, done)

Symmetry == Permutations(MCObj)
=============================================================================

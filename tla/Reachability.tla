---------------------------- MODULE Reachability ----------------------------
(***************************************************************************)
(* What a set of objects leads to, shared by the collector of the Duktape  *)
(* heap (module Heap) and by what a program is promised of it (module      *)
(* ObjectMemory).                                                          *)
(***************************************************************************)

\* A set that holds every object its members refer to.
Closed(refs, T) == \A x \in T : refs[x] \subseteq T

\* The objects found by following references from S: those that every closed
\* set around S contains (duk__mark_heaphdr and the duk__mark_* it calls).
Reach(refs, S) ==
  LET around == {T \in SUBSET DOMAIN refs : S \subseteq T /\ Closed(refs, T)}
  IN  {o \in DOMAIN refs : \A T \in around : o \in T}

=============================================================================

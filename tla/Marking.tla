------------------------------- MODULE Marking -------------------------------
(***************************************************************************)
(* How the mark-and-sweep collector of the Duktape heap marks on a C stack *)
(* of bounded depth (duktape/duktape.c:52195-52649).  Marking is recursive *)
(* up to a limit; an object at the limit is marked but left aside, a       *)
(* temproot, and scans of the heap's lists go on from there until no scan  *)
(* meets the limit again.                                                  *)
(***************************************************************************)
EXTENDS Naturals, Sequences
LOCAL INSTANCE SequencesExt

CONSTANT RecLimit   \* DUK_USE_MARK_AND_SWEEP_RECLIMIT

ASSUME RecLimitAssumption == RecLimit \in Nat \ {0}

\* The flags of the objects, and DUK_HEAP_FLAG_MARKANDSWEEP_RECLIMIT_REACHED.
Marks(reachable) == [reachable |-> reachable, temproots |-> {}, limit |-> FALSE]

\* duk__mark_heaphdr, and duk__mark_hobject for what the object refers to.
RECURSIVE MarkObject(_, _, _, _)
MarkObject(refs, depth, m, o) ==
  LET found == [m EXCEPT !.reachable = @ \cup {o}]
  IN  CASE o \in m.reachable -> m
        [] o \notin m.reachable /\ depth >= RecLimit ->
             [found EXCEPT !.temproots = @ \cup {o}, !.limit = TRUE]
        [] OTHER ->
             FoldLeft(LAMBDA acc, x : MarkObject(refs, depth + 1, acc, x),
                      found, SetToSeq(refs[o]))

\* The mark is taken back, so that marking does not stop at once.
HandleTemproot(refs, m, o) ==
  IF o \notin m.temproots THEN m
  ELSE MarkObject(refs, 0, [m EXCEPT !.temproots = @ \ {o}, !.reachable = @ \ {o}], o)

\* duk__mark_temproots_by_heap_scan: the lists, in their order, again and again.
RECURSIVE ScanTemproots(_, _, _)
ScanTemproots(refs, order, m) ==
  IF ~m.limit THEN m
  ELSE ScanTemproots(refs, order,
         FoldLeft(LAMBDA acc, o : HandleTemproot(refs, acc, o),
                  [m EXCEPT !.limit = FALSE], order))

\* One phase of the marking: from the objects of S, with those of done marked by
\* the phase before.
MarkedFrom(refs, order, S, done) ==
  ScanTemproots(refs, order,
    FoldLeft(LAMBDA acc, o : MarkObject(refs, 0, acc, o), Marks(done), SetToSeq(S))).reachable
=============================================================================

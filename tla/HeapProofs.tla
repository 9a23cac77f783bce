----------------------------- MODULE HeapProofs -----------------------------
(***************************************************************************)
(* Proofs about the memory of the engine (module Heap), for any number of  *)
(* objects and any number of references between them.                      *)
(*                                                                         *)
(* The counts and the lists depend on each other: a count tells which list *)
(* an object may be on, and the list tells whether the engine itself holds *)
(* a reference.  IInv adds to them what each part of the engine leaves     *)
(* behind for the next: what freed memory looks like, which objects the    *)
(* cascade may free, where the object of a finalizer stays while it runs,  *)
(* and what has been dealt with at each stage of the destruction of the    *)
(* heap.  The lemmas named ...Step show that each action preserves it;     *)
(* those named ...Takes say what an action frees, and the theorems on      *)
(* finalizers, on rescue and on ObjectMemory rest on them.                 *)
(***************************************************************************)
EXTENDS Heap, FiniteSetTheorems, TLAPS

\* Memory that is not given out refers to nothing and has no flags.
FreeIsBare ==
  \A o \in Obj : where[o] = "free" => refs[o] = {} /\ o \notin hasFin /\ o \notin finalized

\* An object the cascade is about to free has had its finalizer called.
CascadeFinalized == \A o \in Obj : where[o] = "refzero" => o \notin hasFin \ finalized

\* While a finalizer runs its object keeps its place, and the loop over
\* finalize_list waits.
FinalizerHolds ==
  cur # None =>
    /\ cur \in finalized
    /\ where[cur] = IF Forced THEN "heap" ELSE "finalize"
    /\ stage \notin {"gc3", "gone"}
    /\ pc # "loop"
    /\ pc = "cascade" => back = "code"

\* Destruction goes on only when the collection before has been dealt with.
StagesSettled ==
  /\ stage \in {"gc1", "gc2", "gc3"} /\ pc = "code" /\ cur = None => On("finalize") = {}
  /\ stage # "live" /\ pc = "cascade" => cur # None \/ back = "loop"
  /\ stage = "gc3" => finalized = {} /\ pc # "cascade"
  /\ stage \in {"forced", "gone"} => pc = "code" /\ On("finalize") = {}

\* A round of the last finalizers has passed over no object that still has one to
\* run, unless it has called one.
RoundSound ==
  Forced =>
    /\ round.todo \subseteq On("heap")
    /\ round.count = 0 =>
         cur = None /\ \A o \in On("heap") \ round.todo : o \notin hasFin \ finalized

\* What every step keeps.
IInv ==
  /\ TypeOK /\ RefcountsExact /\ ListsSound
  /\ FreeIsBare /\ CascadeFinalized /\ FinalizerHolds /\ StagesSettled /\ RoundSound

-----------------------------------------------------------------------------
\* Counting sets of objects, which are finite.
LEMMA Counting ==
  ASSUME NEW S \in SUBSET Obj
  PROVE  /\ Cardinality(S) \in Nat
         /\ Cardinality(S) = 0 <=> S = {}
         /\ \A x \in Obj : /\ x \notin S => Cardinality(S \cup {x}) = Cardinality(S) + 1
                           /\ x \in S => Cardinality(S \ {x}) = Cardinality(S) - 1
         /\ \A T : Cardinality(S \ T) = Cardinality(S) - Cardinality(S \cap T)
<1>1. IsFiniteSet(S)
  BY ObjAssumption, FS_Subset
<1>2. QED
  BY <1>1, FS_CardinalityType, FS_EmptySet, FS_AddElement, FS_RemoveElement, FS_Difference

\* What is reached contains what one starts from, and all that is referred to from there.
LEMMA ReachCloses ==
  ASSUME NEW g \in [Obj -> SUBSET Obj], NEW S \in SUBSET Obj
  PROVE  /\ Reach(g, S) \in SUBSET Obj
         /\ S \subseteq Reach(g, S)
         /\ Closed(g, Reach(g, S))
  BY DEF Reach, Closed

\* Nothing is reached that a closed set around the start leaves out.
LEMMA ReachLeast ==
  ASSUME NEW g \in [Obj -> SUBSET Obj], NEW S \in SUBSET Obj,
         NEW T \in SUBSET Obj, S \subseteq T, Closed(g, T)
  PROVE  Reach(g, S) \subseteq T
  BY DEF Reach

\* What is reached and is not where one started is referred to by something reached.
LEMMA ReachedFrom ==
  ASSUME NEW g \in [Obj -> SUBSET Obj], NEW S \in SUBSET Obj,
         NEW o \in Reach(g, S) \ S
  PROVE  \E x \in Reach(g, S) : o \in g[x]
<1>1. SUFFICES ASSUME \A x \in Reach(g, S) : o \notin g[x]
               PROVE  FALSE
  OBVIOUS
<1>2. Closed(g, Reach(g, S) \ {o})
  BY <1>1, ReachCloses DEF Closed
<1>3. Reach(g, S) \subseteq Reach(g, S) \ {o}
  BY <1>2, ReachCloses, ReachLeast
<1>4. QED
  BY <1>3

\* The types of the sets, in a form the provers use.
LEMMA Sets ==
  ASSUME TypeOK
  PROVE  /\ hasFin \subseteq Obj /\ finalizable \subseteq Obj /\ finalized \subseteq Obj
         /\ roots \subseteq Obj /\ Held \subseteq Obj
         /\ \A list : On(list) \subseteq Obj
         /\ refs \in [Obj -> SUBSET Obj]
<1>1. {hasFin, finalizable, finalized, roots} \subseteq SUBSET Obj
  BY DEF TypeOK
<1>2. QED
  BY <1>1 DEF TypeOK, Held, On

\* Marking that goes on from a finished phase adds what is reached.
LEMMA MarkFinds ==
  ASSUME NEW g \in [Obj -> SUBSET Obj], NEW S \in SUBSET Obj, NEW done \in SUBSET Obj,
         Closed(g, done)
  PROVE  Mark(g, S, done) = done \cup Reach(g, S)
  BY MarkAssumption

\* The two phases of marking: what the program sees, then what pending finalizers keep.
LEMMA Marks ==
  ASSUME TypeOK
  PROVE  /\ Marked = Visible
         /\ Visible \subseteq Kept
         /\ ToFinalize \cup On("finalize") \subseteq Kept
         /\ \A o \in Kept : \/ o \in roots \cup Held \cup ToFinalize \cup On("finalize")
                            \/ \E x \in Kept : o \in refs[x]
         /\ Kept \in SUBSET Obj
         /\ Closed(refs, Kept)
         /\ Kept = Visible \cup Reach(refs, ToFinalize \cup On("finalize"))
<1>1. Marked = Visible
  <2>1. Closed(refs, {})
    BY DEF Closed
  <2>2. roots \cup Held \in SUBSET Obj /\ {} \in SUBSET Obj
    BY Sets
  <2>3. QED
    BY <2>1, <2>2, Sets, MarkFinds DEF Marked, Visible
<1>2. Closed(refs, Visible) /\ Visible \in SUBSET Obj /\ roots \cup Held \subseteq Visible
  BY Sets, ReachCloses DEF Visible
<1> DEFINE Late == ToFinalize \cup On("finalize")
<1>3. Late \in SUBSET Obj
  BY Sets DEF ToFinalize
<1>4. Kept = Visible \cup Reach(refs, Late)
  BY <1>1, <1>2, <1>3, Sets, MarkFinds DEF Kept
<1>5. /\ Closed(refs, Reach(refs, Late)) /\ Reach(refs, Late) \in SUBSET Obj
      /\ Late \subseteq Reach(refs, Late)
  BY <1>3, Sets, ReachCloses
<1> HIDE DEF Late
<1>6. Kept \in SUBSET Obj /\ Late \subseteq Kept /\ Closed(refs, Kept)
  BY <1>2, <1>4, <1>5 DEF Closed
<1>7. ASSUME NEW o \in Kept
      PROVE  \/ o \in roots \cup Held \cup Late
             \/ \E x \in Kept : o \in refs[x]
  <2>1. CASE o \in Visible
    BY <1>4, <2>1, Sets, ReachedFrom DEF Visible
  <2>2. CASE o \in Reach(refs, Late)
    BY <1>3, <1>4, <2>2, Sets, ReachedFrom
  <2>3. QED
    BY <1>4, <1>7, <2>1, <2>2
<1>8. QED
  BY <1>1, <1>2, <1>4, <1>6, <1>7 DEF Late

\* A new heap is in order.
LEMMA InitIInv == Init => IInv
<1> SUFFICES ASSUME Init PROVE IInv
  OBVIOUS
<1> USE DEF Init
<1>1. ASSUME NEW o \in Obj
      PROVE Cardinality(Holders(o)) = 0
  BY FS_EmptySet DEF Holders
<1>2. TypeOK
  BY DEF TypeOK, NoRound
<1>3. RefcountsExact
  BY <1>1, ObjAssumption DEF RefcountsExact, Held, One
<1>4. ListsSound
  BY DEF ListsSound
<1>5. FreeIsBare /\ CascadeFinalized /\ FinalizerHolds /\ StagesSettled /\ RoundSound
  BY DEF FreeIsBare, CascadeFinalized, FinalizerHolds, StagesSettled, RoundSound, Forced
<1>6. QED
  BY <1>2, <1>3, <1>4, <1>5 DEF IInv

-----------------------------------------------------------------------------
\* What a count tells of one object: at zero nothing refers to it.
LEMMA Reading ==
  ASSUME IInv, NEW o \in Obj
  PROVE  /\ rc[o] \in Nat
         /\ Holders(o) \in SUBSET Obj
         /\ Cardinality(Holders(o)) \in Nat
         /\ rc[o] = Cardinality(Holders(o)) + One(o \in roots) + One(o \in Held)
                    + One(where[o] = "finalize")
         /\ rc[o] = 0 => Holders(o) = {} /\ o \notin roots /\ o \notin Held
         /\ where[o] \in {"free", "heap", "refzero", "finalize"}
         /\ where[o] \in {"free", "refzero"} => rc[o] = 0
<1> USE DEF IInv
<1>1. rc[o] \in Nat /\ where[o] \in {"free", "heap", "refzero", "finalize"}
  BY DEF TypeOK
<1>2. Holders(o) \in SUBSET Obj
  BY DEF Holders
<1>3. Cardinality(Holders(o)) \in Nat /\ (Cardinality(Holders(o)) = 0 <=> Holders(o) = {})
  BY <1>2, Counting
<1>4. rc[o] = Cardinality(Holders(o)) + One(o \in roots) + One(o \in Held)
              + One(where[o] = "finalize")
  BY DEF RefcountsExact
<1>5. where[o] \in {"free", "refzero"} => rc[o] = 0
  BY DEF ListsSound
<1>6. QED
  BY <1>1, <1>2, <1>3, <1>4, <1>5 DEF One

\* What running code sees is counted, so it is neither free nor being freed.
LEMMA VisibleCounted ==
  ASSUME IInv
  PROVE  \A o \in Visible : o \in Obj /\ rc[o] > 0 /\ where[o] \in {"heap", "finalize"}
<1>1. TypeOK
  BY DEF IInv
<1>2. Visible \subseteq Obj
  BY <1>1, Sets, ReachCloses DEF Visible
<1>3. ASSUME NEW o \in Visible
      PROVE  o \in roots \cup Held \/ Holders(o) # {}
  BY <1>1, <1>2, <1>3, Sets, ReachedFrom DEF Visible, Holders
<1>4. QED
  BY <1>2, <1>3, Reading

-----------------------------------------------------------------------------
\* A new object has one reference, from its variable.
LEMMA AllocStep ==
  ASSUME IInv, NEW o \in Obj, Alloc(o)
  PROVE  IInv'
<1> USE DEF Alloc, control, ending, Running
<1>1. TypeOK'
  BY Sets DEF IInv, TypeOK
<1>2. RefcountsExact'
  <2>1. \A p \in Obj : Holders(p)' = Holders(p)
    BY DEF Holders
  <2>2. QED
    BY <2>1, Reading DEF RefcountsExact, One, Held, IInv, TypeOK
<1>3. ListsSound'
  BY Reading DEF ListsSound, IInv, TypeOK, FinalizerHolds
<1>4. FreeIsBare' /\ CascadeFinalized' /\ FinalizerHolds' /\ StagesSettled' /\ RoundSound'
  BY DEF FreeIsBare, CascadeFinalized, FinalizerHolds, StagesSettled, RoundSound, IInv, TypeOK,
         On, Forced
<1>5. QED
  BY <1>1, <1>2, <1>3, <1>4 DEF IInv

\* A variable takes an object the program sees.
LEMMA HoldStep ==
  ASSUME IInv, NEW o \in Obj, Hold(o)
  PROVE  IInv'
<1> USE DEF Hold, control, ending, Running
<1>1. TypeOK'
  BY Sets DEF IInv, TypeOK
<1>2. RefcountsExact'
  <2>1. \A p \in Obj : Holders(p)' = Holders(p)
    BY DEF Holders
  <2>2. QED
    BY <2>1, Reading DEF RefcountsExact, One, Held, IInv, TypeOK
<1>3. ListsSound'
  BY Reading, VisibleCounted DEF ListsSound, IInv, TypeOK
<1>4. FreeIsBare' /\ CascadeFinalized' /\ FinalizerHolds' /\ StagesSettled' /\ RoundSound'
  BY DEF FreeIsBare, CascadeFinalized, FinalizerHolds, StagesSettled, RoundSound, IInv, TypeOK,
         On, Forced
<1>5. QED
  BY <1>1, <1>2, <1>3, <1>4 DEF IInv

\* One object more refers to b.
LEMMA LinkStep ==
  ASSUME IInv, NEW a \in Obj, NEW b \in Obj, Link(a, b)
  PROVE  IInv'
<1> USE DEF Link, control, ending, Running
<1>1. TypeOK'
  BY Sets DEF IInv, TypeOK
<1>2. RefcountsExact'
  <2>1. \A p \in Obj \ {b} : Holders(p)' = Holders(p)
    BY DEF Holders, IInv, TypeOK
  <2>2. Holders(b)' = Holders(b) \cup {a} /\ a \notin Holders(b)
    BY DEF Holders, IInv, TypeOK
  <2>3. Cardinality(Holders(b)') = Cardinality(Holders(b)) + 1
    BY <2>2, Reading, Counting
  <2>4. QED
    BY <2>1, <2>3, Reading DEF RefcountsExact, One, Held, IInv, TypeOK
<1>3. ListsSound'
  BY Reading, VisibleCounted DEF ListsSound, IInv, TypeOK
<1>4. FreeIsBare'
  BY VisibleCounted DEF FreeIsBare, IInv, TypeOK
<1>5. CascadeFinalized' /\ FinalizerHolds' /\ StagesSettled' /\ RoundSound'
  BY DEF CascadeFinalized, FinalizerHolds, StagesSettled, RoundSound, IInv, TypeOK, On, Forced
<1>6. QED
  BY <1>1, <1>2, <1>3, <1>4, <1>5 DEF IInv

\* A finalizer is set or taken back on an object the program sees.
LEMMA SetFinalizerStep ==
  ASSUME IInv, NEW o \in Obj, SetFinalizer(o)
  PROVE  IInv'
<1> USE DEF SetFinalizer, control, ending, lists, Running
<1>1. TypeOK'
  BY Sets DEF IInv, TypeOK
<1>2. RefcountsExact' /\ ListsSound'
  <2>1. \A p \in Obj : Holders(p)' = Holders(p)
    BY DEF Holders
  <2>2. QED
    BY <2>1 DEF RefcountsExact, ListsSound, Held, IInv
<1>3. FreeIsBare' /\ CascadeFinalized'
  BY VisibleCounted DEF FreeIsBare, CascadeFinalized, IInv
<1>4. FinalizerHolds' /\ StagesSettled' /\ RoundSound'
  BY DEF FinalizerHolds, StagesSettled, RoundSound, IInv, TypeOK, On, Forced
<1>5. QED
  BY <1>1, <1>2, <1>3, <1>4 DEF IInv

-----------------------------------------------------------------------------
\* What DecRefs does to one object and to the others.
LEMMA DecRefsEffect ==
  ASSUME NEW w \in [Obj -> {"free", "heap", "refzero", "finalize"}],
         NEW c \in [Obj -> Nat],
         NEW S \in SUBSET Obj, \A o \in S : c[o] > 0,
         TypeOK, DecRefs(w, c, S)
  PROVE  /\ where' \in [Obj -> {"free", "heap", "refzero", "finalize"}]
         /\ rc' \in [Obj -> Nat]
         /\ finalizable \subseteq finalizable' /\ finalizable' \subseteq Obj
         /\ \A o \in Obj \ S :
              /\ where'[o] = w[o] /\ rc'[o] = c[o]
              /\ o \in finalizable' <=> o \in finalizable
         /\ \A o \in S :
              \/ /\ Forced \/ c[o] > 1
                 /\ where'[o] = w[o] /\ rc'[o] = c[o] - 1
                 /\ o \in finalizable' <=> o \in finalizable
              \/ /\ ~Forced /\ c[o] = 1 /\ o \in hasFin \ finalized
                 /\ where'[o] = "finalize" /\ rc'[o] = 1 /\ o \in finalizable'
              \/ /\ ~Forced /\ c[o] = 1 /\ o \notin hasFin \ finalized
                 /\ where'[o] = "refzero" /\ rc'[o] = 0
                 /\ o \in finalizable' <=> o \in finalizable
<1> DEFINE zero == {o \in S : c[o] = 1 /\ ~Forced}
           late == {o \in zero : o \in hasFin /\ o \notin finalized}
<1>1. /\ where' = [o \in Obj |-> CASE o \in late -> "finalize"
                                   [] o \in zero \ late -> "refzero"
                                   [] OTHER -> w[o]]
      /\ rc' = [o \in Obj |-> c[o] - One(o \in S \ late)]
      /\ finalizable' = finalizable \cup late
  BY DEF DecRefs
<1>2. \A o \in Obj : c[o] \in Nat /\ (o \in S => c[o] > 0)
  OBVIOUS
<1>3. rc' \in [Obj -> Nat]
  BY <1>1, <1>2 DEF One
<1>4. finalizable' \subseteq Obj
  BY <1>1, Sets
<1>5. \A o \in Obj : where'[o] = IF o \in late THEN "finalize"
                                 ELSE IF o \in zero THEN "refzero" ELSE w[o]
  BY <1>1
<1>6. where' \in [Obj -> {"free", "heap", "refzero", "finalize"}]
  BY <1>1
<1>7. \A o \in Obj : rc'[o] = IF o \in S \ late THEN c[o] - 1 ELSE c[o]
  BY <1>1, <1>2 DEF One
<1>8. QED
  BY <1>1, <1>2, <1>3, <1>4, <1>5, <1>6, <1>7

\* Where the engine goes on after a DECREF in running code.
LEMMA AfterDecRefEffect ==
  ASSUME NEW quiet \in BOOLEAN, AfterDecRef(quiet), pc = "code"
  PROVE  /\ pc' \in {"code", "cascade", "loop"} /\ back' \in {"code", "loop"}
         /\ (pc' = "cascade") <=> (On("refzero"))' # {}
         /\ pc' = "loop" => cur = None /\ (On("finalize"))' # {}
         /\ back' = "loop" => cur = None
  BY DEF AfterDecRef, Processing

\* One reference fewer on one object: it stays where it is, or it was the last
\* reference and the object leaves the heap's list.
LEMMA DecRefOne ==
  ASSUME IInv, NEW o \in Obj, DecRefs(where, rc, {o}), rc[o] > One(where[o] = "finalize")
  PROVE  /\ where' \in [Obj -> {"free", "heap", "refzero", "finalize"}]
         /\ rc' \in [Obj -> Nat]
         /\ finalizable' \subseteq Obj
         /\ \A p \in Obj \ {o} : /\ where'[p] = where[p] /\ rc'[p] = rc[p]
                                 /\ p \in finalizable' <=> p \in finalizable
         /\ where[o] \in {"heap", "finalize"}
         /\ rc'[o] = rc[o] - 1 + One(where'[o] = "finalize") - One(where[o] = "finalize")
         /\ \/ /\ where'[o] = where[o]
               /\ o \in finalizable' <=> o \in finalizable
               /\ Forced \/ rc'[o] > 0
            \/ /\ ~Forced /\ where[o] = "heap" /\ rc[o] = 1
               /\ where'[o] = "finalize" /\ o \in hasFin \ finalized /\ o \in finalizable'
            \/ /\ ~Forced /\ where[o] = "heap" /\ rc[o] = 1
               /\ where'[o] = "refzero" /\ o \notin hasFin \ finalized
               /\ o \in finalizable' <=> o \in finalizable
<1>1. /\ where \in [Obj -> {"free", "heap", "refzero", "finalize"}]
      /\ rc \in [Obj -> Nat]
      /\ TypeOK
  BY DEF IInv, TypeOK
<1>2. /\ rc[o] \in Nat /\ rc[o] > 0
      /\ where[o] \in {"heap", "finalize"}
      /\ rc[o] = 1 => where[o] = "heap"
  BY Reading DEF One
<1>3. {o} \in SUBSET Obj /\ \A p \in {o} : rc[p] > 0
  BY <1>2
<1>4. /\ where' \in [Obj -> {"free", "heap", "refzero", "finalize"}]
      /\ rc' \in [Obj -> Nat]
      /\ finalizable' \subseteq Obj
      /\ \A p \in Obj \ {o} : /\ where'[p] = where[p] /\ rc'[p] = rc[p]
                              /\ p \in finalizable' <=> p \in finalizable
  BY <1>1, <1>3, DecRefsEffect
<1>5. \/ /\ Forced \/ rc[o] > 1
         /\ where'[o] = where[o] /\ rc'[o] = rc[o] - 1
         /\ o \in finalizable' <=> o \in finalizable
      \/ /\ ~Forced /\ rc[o] = 1 /\ o \in hasFin \ finalized
         /\ where'[o] = "finalize" /\ rc'[o] = 1 /\ o \in finalizable'
      \/ /\ ~Forced /\ rc[o] = 1 /\ o \notin hasFin \ finalized
         /\ where'[o] = "refzero" /\ rc'[o] = 0
         /\ o \in finalizable' <=> o \in finalizable
  BY <1>1, <1>3, DecRefsEffect
<1>6. QED
  BY <1>2, <1>4, <1>5 DEF One

\* Code takes a reference from an object: what the lists and the stages promise holds
\* when the next step begins.
LEMMA DecRefInCode ==
  ASSUME IInv, NEW o \in Obj, NEW quiet \in BOOLEAN, Running,
         rc[o] > One(where[o] = "finalize") + One(o \in Held),
         DecRefs(where, rc, {o}), AfterDecRef(quiet),
         UNCHANGED <<hasFin, finalized, cur, stage, round>>
  PROVE  ListsSound' /\ CascadeFinalized' /\ FinalizerHolds' /\ StagesSettled' /\ RoundSound'
<1>1. /\ rc[o] > One(where[o] = "finalize") /\ (rc[o] = 1 => o # cur)
  BY ObjAssumption, Reading DEF One, Held
<1>2. pc = "code"
  BY DEF Running
<1>3. ListsSound'
  <2> SUFFICES ASSUME NEW p \in Obj
               PROVE  /\ where'[p] \in {"free", "refzero"} => rc'[p] = 0
                      /\ where'[p] = "refzero" => pc' = "cascade"
                      /\ where'[p] = "heap" => (rc'[p] > 0 \/ stage' \in {"gc3", "forced"})
                      /\ p \in finalizable' <=> (where'[p] = "finalize" /\ p # cur')
                      /\ (where'[p] = "finalize" /\ p \in finalized') => p = cur'
    BY DEF ListsSound
  <2>1. where'[p] = "refzero" => pc' = "cascade"
    BY <1>2, AfterDecRefEffect DEF On
  <2>2. /\ where[p] \in {"free", "refzero"} => rc[p] = 0
        /\ where[p] = "heap" => (rc[p] > 0 \/ stage \in {"gc3", "forced"})
        /\ p \in finalizable <=> (where[p] = "finalize" /\ p # cur)
        /\ (where[p] = "finalize" /\ p \in finalized) => p = cur
    BY DEF ListsSound, IInv
  <2>3. CASE p = o
    <3>1. \/ where'[o] = where[o] /\ (o \in finalizable' <=> o \in finalizable)
             /\ (Forced \/ rc'[o] > 0)
          \/ where'[o] = "finalize" /\ rc[o] = 1 /\ o \notin finalized /\ o \in finalizable'
          \/ where'[o] = "refzero" /\ rc'[o] = 0 /\ o \notin finalizable'
      BY <1>1, <2>2, <2>3, DecRefOne DEF One
    <3>2. QED
      BY <1>1, <2>1, <2>2, <2>3, <3>1, DecRefOne DEF Forced
  <2>4. CASE p # o
    BY <1>1, <2>1, <2>2, <2>4, DecRefOne
  <2>5. QED
    BY <2>3, <2>4
<1>4. CascadeFinalized'
  BY <1>1, DecRefOne DEF CascadeFinalized, IInv
<1>5. FinalizerHolds'
  <2>1. cur # None => cur \in Obj /\ where[cur] = where'[cur]
    BY <1>1, DecRefOne, Reading DEF FinalizerHolds, Held, One, IInv, TypeOK
  <2>2. QED
    BY <1>2, <2>1, AfterDecRefEffect DEF FinalizerHolds, IInv, Forced
<1>6. StagesSettled' /\ RoundSound'
  <2>1. Forced => \A p \in Obj : where'[p] = where[p]
    BY <1>1, DecRefOne DEF Forced
  <2>2. stage # "live" => cur # None
    BY DEF Running
  <2>3. Forced => (On("finalize"))' = On("finalize") /\ (On("refzero"))' = {}
    BY <1>2, <2>1, <2>2 DEF On, FinalizerHolds, StagesSettled, IInv, ListsSound
  <2>4. StagesSettled'
    BY <1>2, <2>2, <2>3, AfterDecRefEffect DEF StagesSettled, FinalizerHolds, IInv, Forced
  <2>5. RoundSound'
    BY <2>1, <2>2 DEF RoundSound, On, IInv, Forced
  <2>6. QED
    BY <2>4, <2>5
<1>7. QED
  BY <1>3, <1>4, <1>5, <1>6

\* A variable lets go: the count goes down by one, on whichever list the object is.
LEMMA DropStep ==
  ASSUME IInv, NEW o \in Obj, NEW quiet \in BOOLEAN, Drop(o, quiet)
  PROVE  IInv'
<1> USE DEF Drop, ending
<1>1. /\ rc[o] > One(where[o] = "finalize") + One(o \in Held)
      /\ rc[o] > One(where[o] = "finalize")
  BY Reading DEF One
<1>2. pc = "code" /\ Running
  BY DEF Running
<1>3. TypeOK'
  BY <1>1, <1>2, DecRefOne, AfterDecRefEffect, Sets DEF TypeOK, IInv
<1>4. RefcountsExact'
  <2>1. Held' = Held /\ o \notin roots' /\ \A p \in Obj \ {o} : p \in roots' <=> p \in roots
    BY DEF Held
  <2>2. \A p \in Obj : Holders(p)' = Holders(p)
    BY DEF Holders
  <2> SUFFICES ASSUME NEW p \in Obj
               PROVE  rc'[p] = Cardinality(Holders(p)) + One(p \in roots') + One(p \in Held')
                               + One(where'[p] = "finalize")
    BY <2>2 DEF RefcountsExact
  <2>3. /\ rc[p] = Cardinality(Holders(p)) + One(p \in roots) + One(p \in Held)
                   + One(where[p] = "finalize")
        /\ Cardinality(Holders(p)) \in Nat
    BY Reading
  <2>4. CASE p = o
    <3>1. rc'[o] = rc[o] - 1 + One(where'[o] = "finalize") - One(where[o] = "finalize")
      BY <1>1, DecRefOne
    <3>2. QED
      BY <1>1, <2>1, <2>3, <2>4, <3>1 DEF One
  <2>5. CASE p # o
    BY <1>1, <2>1, <2>3, <2>5, DecRefOne DEF One
  <2>6. QED
    BY <2>4, <2>5
<1>5. ListsSound' /\ CascadeFinalized' /\ FinalizerHolds' /\ StagesSettled' /\ RoundSound'
  BY <1>1, <1>2, DecRefInCode
<1>6. FreeIsBare'
  BY <1>1, DecRefOne DEF FreeIsBare, IInv
<1>7. QED
  BY <1>3, <1>4, <1>5, <1>6 DEF IInv

\* A property lets go: one object less refers to b.
LEMMA UnlinkStep ==
  ASSUME IInv, NEW a \in Obj, NEW b \in Obj, NEW quiet \in BOOLEAN, Unlink(a, b, quiet)
  PROVE  IInv'
<1> USE DEF Unlink, ending
<1>1. a \in Holders(b) /\ Holders(b)' = Holders(b) \ {a}
      /\ \A p \in Obj \ {b} : Holders(p)' = Holders(p)
  BY DEF Holders, IInv, TypeOK
<1>2. Cardinality(Holders(b)') = Cardinality(Holders(b)) - 1 /\ Cardinality(Holders(b)) > 0
  BY <1>1, Reading, Counting
<1>3. /\ rc[b] > One(where[b] = "finalize") + One(b \in Held)
      /\ rc[b] > One(where[b] = "finalize")
  BY <1>2, Reading DEF One
<1>4. pc = "code" /\ Running
  BY DEF Running
<1>5. TypeOK'
  BY <1>3, <1>4, DecRefOne, AfterDecRefEffect, Sets DEF TypeOK, IInv
<1>6. RefcountsExact'
  <2>1. Held' = Held
    BY DEF Held
  <2> SUFFICES ASSUME NEW p \in Obj
               PROVE  rc'[p] = Cardinality(Holders(p)') + One(p \in roots) + One(p \in Held)
                               + One(where'[p] = "finalize")
    BY <2>1 DEF RefcountsExact
  <2>2. /\ rc[p] = Cardinality(Holders(p)) + One(p \in roots) + One(p \in Held)
                   + One(where[p] = "finalize")
        /\ Cardinality(Holders(p)) \in Nat
    BY Reading
  <2>3. CASE p = b
    <3>1. rc'[b] = rc[b] - 1 + One(where'[b] = "finalize") - One(where[b] = "finalize")
      BY <1>3, DecRefOne
    <3>2. QED
      BY <1>2, <2>2, <2>3, <3>1 DEF One
  <2>4. CASE p # b
    BY <1>1, <1>3, <2>2, <2>4, DecRefOne DEF One
  <2>5. QED
    BY <2>3, <2>4
<1>7. ListsSound' /\ CascadeFinalized' /\ FinalizerHolds' /\ StagesSettled' /\ RoundSound'
  BY <1>3, <1>4, DecRefInCode
<1>8. FreeIsBare'
  BY <1>3, DecRefOne DEF FreeIsBare, IInv, TypeOK
<1>9. QED
  BY <1>5, <1>6, <1>7, <1>8 DEF IInv

-----------------------------------------------------------------------------
\* Freeing an object that nobody refers to: it was about to be freed by the cascade,
\* or its finalizer has just returned.
LEMMA FreeKeeps ==
  ASSUME IInv, NEW o \in Obj, Free(o), ~Forced,
         Holders(o) = {}, o \notin roots,
         \/ where[o] = "refzero" /\ cur' = cur
         \/ where[o] = "finalize" /\ o = cur /\ cur' = None,
         roots' = roots, stage' = stage,
         (On("refzero"))' # {} => pc' = "cascade"
  PROVE  /\ where' \in [Obj -> {"free", "heap", "refzero", "finalize"}]
         /\ rc' \in [Obj -> Nat]
         /\ refs' \in [Obj -> SUBSET Obj]
         /\ finalizable' \subseteq Obj /\ hasFin' \subseteq Obj /\ finalized' \subseteq Obj
         /\ RefcountsExact' /\ ListsSound' /\ FreeIsBare' /\ CascadeFinalized'
         /\ where'[o] = "free"
         /\ \A p \in Obj \ {o} : where'[p] = "free" <=> where[p] = "free"
         /\ \A p \in Obj : (where[p] = "finalize" /\ p # o) => where'[p] = "finalize"
<1> DEFINE w == [where EXCEPT ![o] = "free"]
           c == [rc EXCEPT ![o] = 0]
           S == refs[o] \ {o}
<1>1. /\ w \in [Obj -> {"free", "heap", "refzero", "finalize"}] /\ c \in [Obj -> Nat]
      /\ w[o] = "free" /\ c[o] = 0
      /\ \A p \in Obj \ {o} : w[p] = where[p] /\ c[p] = rc[p]
      /\ refs[o] \in SUBSET Obj /\ o \notin refs[o]
      /\ refs \in [Obj -> SUBSET Obj] /\ TypeOK
  BY DEF IInv, TypeOK, Holders
<1>2. \A p \in refs[o] : o \in Holders(p) /\ Cardinality(Holders(p)) > 0
  BY <1>1, Counting DEF Holders
<1>3. \A p \in refs[o] : c[p] > 0
  BY <1>1, <1>2, Reading DEF One
<1>4. /\ hasFin' = hasFin \ {o} /\ finalized' = finalized \ {o}
      /\ refs' = [refs EXCEPT ![o] = {}]
  BY DEF Free
<1>5. DecRefs(w, c, S) /\ S = refs[o]
  BY <1>1 DEF Free
<1>6. \A p \in Obj : Holders(p)' = Holders(p) \ {o}
  BY <1>1, <1>4 DEF Holders
<1>7. /\ \A p \in refs[o] : Cardinality(Holders(p)') = Cardinality(Holders(p)) - 1
      /\ \A p \in Obj \ refs[o] : Holders(p)' = Holders(p)
  <2>1. \A p \in refs[o] : Cardinality(Holders(p) \ {o}) = Cardinality(Holders(p)) - 1
    <3> TAKE p \in refs[o]
    <3>1. p \in Obj /\ Holders(p) \in SUBSET Obj /\ o \in Holders(p)
      BY <1>1, <1>2 DEF Holders
    <3>2. QED
      BY <3>1, Counting
  <2>2. \A p \in Obj \ refs[o] : Holders(p) \ {o} = Holders(p)
    BY DEF Holders
  <2>3. \A p \in refs[o] : p \in Obj
    BY <1>1
  <2>4. QED
    BY <1>6, <2>1, <2>2, <2>3, Zenon
<1> HIDE DEF w, c, S
\* What becomes of the object, of those it referred to and of the rest.
<1>8. /\ where' \in [Obj -> {"free", "heap", "refzero", "finalize"}]
      /\ rc' \in [Obj -> Nat]
      /\ finalizable' \subseteq Obj
      /\ where'[o] = "free" /\ rc'[o] = 0 /\ (o \in finalizable' <=> o \in finalizable)
      /\ \A p \in Obj \ ({o} \cup refs[o]) :
           /\ where'[p] = where[p] /\ rc'[p] = rc[p]
           /\ p \in finalizable' <=> p \in finalizable
  BY <1>1, <1>3, <1>5, DecRefsEffect
<1>9. ASSUME NEW p \in refs[o]
      PROVE  /\ p \in Obj /\ p # o /\ where[p] \in {"heap", "finalize"}
             /\ \/ /\ rc[p] > 1 /\ where'[p] = where[p] /\ rc'[p] = rc[p] - 1
                   /\ p \in finalizable' <=> p \in finalizable
                \/ /\ rc[p] = 1 /\ where[p] = "heap" /\ p # cur /\ where'[p] = "finalize"
                   /\ rc'[p] = 1 /\ p \in hasFin \ finalized /\ p \in finalizable'
                \/ /\ rc[p] = 1 /\ where[p] = "heap" /\ p # cur /\ where'[p] = "refzero"
                   /\ rc'[p] = 0 /\ p \notin hasFin \ finalized
                   /\ p \in finalizable' <=> p \in finalizable
  <2>1. p \in Obj /\ p # o /\ c[p] = rc[p] /\ w[p] = where[p] /\ rc[p] > 0
    BY <1>1, <1>3, <1>9
  <2>2. where[p] \in {"heap", "finalize"} /\ (rc[p] = 1 => where[p] = "heap" /\ p # cur)
    BY <1>2, <1>9, <2>1, ObjAssumption, Reading DEF One, Held
  <2>3. \/ /\ c[p] > 1
           /\ where'[p] = w[p] /\ rc'[p] = c[p] - 1
           /\ p \in finalizable' <=> p \in finalizable
        \/ /\ c[p] = 1 /\ p \in hasFin \ finalized
           /\ where'[p] = "finalize" /\ rc'[p] = 1 /\ p \in finalizable'
        \/ /\ c[p] = 1 /\ p \notin hasFin \ finalized
           /\ where'[p] = "refzero" /\ rc'[p] = 0
           /\ p \in finalizable' <=> p \in finalizable
    BY <1>1, <1>3, <1>5, <1>9, DecRefsEffect
  <2>4. QED
    BY <2>1, <2>2, <2>3
<1>10. \A p \in Obj \ {o} : (p \in Held' <=> p \in Held) /\ (p = cur' <=> p = cur)
  BY ObjAssumption DEF Held
<1>11. o \notin Held'
  BY ObjAssumption, Reading DEF Held
<1>12. RefcountsExact'
  <2> SUFFICES ASSUME NEW p \in Obj
               PROVE  rc'[p] = Cardinality(Holders(p)') + One(p \in roots) + One(p \in Held')
                               + One(where'[p] = "finalize")
    BY DEF RefcountsExact
  <2>1. /\ rc[p] = Cardinality(Holders(p)) + One(p \in roots) + One(p \in Held)
                   + One(where[p] = "finalize")
        /\ Cardinality(Holders(p)) \in Nat
    BY Reading
  <2>2. CASE p = o
    <3>1. Cardinality(Holders(o)') = 0
      BY <1>1, <1>7, FS_EmptySet
    <3>2. QED
      BY <1>8, <1>11, <2>2, <3>1 DEF One
  <2>3. CASE p \in refs[o]
    BY <1>7, <1>9, <1>10, <2>1, <2>3 DEF One
  <2>4. CASE p \notin {o} \cup refs[o]
    BY <1>7, <1>8, <1>10, <2>1, <2>4 DEF One
  <2>5. QED
    BY <2>2, <2>3, <2>4
<1>13. ListsSound'
  <2> SUFFICES ASSUME NEW p \in Obj
               PROVE  /\ where'[p] \in {"free", "refzero"} => rc'[p] = 0
                      /\ where'[p] = "refzero" => pc' = "cascade"
                      /\ where'[p] = "heap" => (rc'[p] > 0 \/ stage' \in {"gc3", "forced"})
                      /\ p \in finalizable' <=> (where'[p] = "finalize" /\ p # cur')
                      /\ (where'[p] = "finalize" /\ p \in finalized') => p = cur'
    BY DEF ListsSound
  <2>1. where'[p] = "refzero" => pc' = "cascade"
    BY DEF On
  <2>2. /\ where[p] \in {"free", "refzero"} => rc[p] = 0
        /\ where[p] = "heap" => (rc[p] > 0 \/ stage \in {"gc3", "forced"})
        /\ p \in finalizable <=> (where[p] = "finalize" /\ p # cur)
        /\ (where[p] = "finalize" /\ p \in finalized) => p = cur
    BY DEF ListsSound, IInv
  <2>3. CASE p = o
    BY <1>8, <2>2, <2>3
  <2>4. CASE p \in refs[o]
    <3>1. rc[p] \in Nat
      BY Reading
    <3>2. QED
      BY <1>4, <1>9, <1>10, <2>1, <2>2, <2>4, <3>1
  <2>5. CASE p \notin {o} \cup refs[o]
    BY <1>4, <1>8, <1>10, <2>1, <2>2, <2>5
  <2>6. QED
    BY <2>3, <2>4, <2>5
<1>14. FreeIsBare' /\ CascadeFinalized'
  <2> SUFFICES ASSUME NEW p \in Obj
               PROVE  /\ where'[p] = "free" =>
                           refs'[p] = {} /\ p \notin hasFin' /\ p \notin finalized'
                      /\ where'[p] = "refzero" => p \notin hasFin' \ finalized'
    BY DEF FreeIsBare, CascadeFinalized
  <2>1. CASE p = o
    BY <1>1, <1>4, <1>8, <2>1
  <2>2. CASE p # o
    BY <1>1, <1>4, <1>8, <1>9, <2>2 DEF FreeIsBare, CascadeFinalized, IInv
  <2>3. QED
    BY <2>1, <2>2
<1>15. refs' \in [Obj -> SUBSET Obj] /\ hasFin' \subseteq Obj /\ finalized' \subseteq Obj
  BY <1>1, <1>4, Sets
<1>16. \A p \in Obj \ {o} : where'[p] = "free" <=> where[p] = "free"
  BY <1>8, <1>9
<1>17. \A p \in Obj : (where[p] = "finalize" /\ p # o) => where'[p] = "finalize"
  BY <1>8, <1>9
<1>18. QED
  BY <1>8, <1>12, <1>13, <1>14, <1>15, <1>16, <1>17

\* The cascade frees one object, and those it kept follow or wait for their finalizers.
LEMMA FreePendingStep ==
  ASSUME IInv, NEW o \in Obj, FreePending(o)
  PROVE  IInv'
<1> USE DEF FreePending, ending
<1>1. /\ Holders(o) = {} /\ o \notin roots /\ where[o] = "refzero" /\ cur' = cur
      /\ Free(o) /\ roots' = roots /\ stage' = stage
      /\ (On("refzero"))' # {} => pc' = "cascade"
  BY Reading
<1>2. ~Forced /\ stage # "gone"
  BY DEF IInv, StagesSettled, Forced
<1>3. /\ where' \in [Obj -> {"free", "heap", "refzero", "finalize"}]
      /\ rc' \in [Obj -> Nat]
      /\ refs' \in [Obj -> SUBSET Obj]
      /\ finalizable' \subseteq Obj /\ hasFin' \subseteq Obj /\ finalized' \subseteq Obj
      /\ RefcountsExact' /\ ListsSound' /\ FreeIsBare' /\ CascadeFinalized'
      /\ \A p \in Obj : (where[p] = "finalize" /\ p # o) => where'[p] = "finalize"
  BY <1>1, <1>2, FreeKeeps
<1>4. TypeOK'
  BY <1>3, Sets DEF TypeOK, IInv
<1>5. FinalizerHolds'
  <2>1. cur # None => cur # o /\ cur \in Obj /\ where[cur] = "finalize"
    BY <1>1, <1>2, Reading DEF FinalizerHolds, IInv, TypeOK
  <2>2. finalized' = finalized \ {o}
    BY DEF Free
  <2>3. QED
    BY <1>1, <1>2, <1>3, <2>1, <2>2 DEF FinalizerHolds, IInv, Forced
<1>6. StagesSettled' /\ RoundSound'
  BY <1>2 DEF StagesSettled, RoundSound, FinalizerHolds, IInv, TypeOK, Forced
<1>7. QED
  BY <1>3, <1>4, <1>5, <1>6 DEF IInv

-----------------------------------------------------------------------------
\* A collection: what is swept is referred to by nothing that stays, and what stays on
\* heap_allocated is wanted by something that stays.
LEMMA SweepKeeps ==
  ASSUME IInv, MarkAndSweep, pc = "code", pc' \in {"code", "loop"}, ~Forced,
         UNCHANGED <<roots, cur>>
  PROVE  /\ where' \in [Obj -> {"free", "heap", "refzero", "finalize"}]
         /\ rc' \in [Obj -> Nat]
         /\ refs' \in [Obj -> SUBSET Obj]
         /\ finalizable' \subseteq Obj /\ hasFin' \subseteq Obj /\ finalized' \subseteq Obj
         /\ RefcountsExact' /\ ListsSound' /\ FreeIsBare' /\ CascadeFinalized'
         /\ cur # None => cur \in finalized' /\ where'[cur] = "finalize"
         /\ On("finalize") = {} => finalized' = {}
<1> DEFINE dead == Swept
           dying == ToFinalize
<1>1. TypeOK
  BY DEF IInv
<1>2. /\ dead \subseteq Obj /\ dying \subseteq Obj /\ dead \cap dying = {}
      /\ \A o \in dead \cup dying : where[o] = "heap" /\ o # cur
      /\ \A o \in dead : o \notin Kept /\ o \notin roots /\ o \notin Held
      /\ \A o \in Obj : where[o] = "heap" <=> (o \in dead \/ (where[o] = "heap" /\ o \in Kept))
      /\ \A o \in dying : o \in hasFin \ finalized
      /\ \A o \in dead : o \notin hasFin \ finalized
  <2>1. dead \subseteq Obj /\ dying \subseteq Obj
    BY DEF Swept, ToFinalize, On
  <2>2. roots \cup Held \subseteq Visible
    BY <1>1, Sets, ReachCloses DEF Visible
  <2>3. \A o \in dead \cup dying : where[o] = "heap" /\ o # cur
    BY <1>1, <2>1, <2>2, ObjAssumption, Marks DEF Swept, ToFinalize, On, Held
  <2>4. QED
    BY <1>1, <2>1, <2>2, <2>3, Marks DEF Swept, ToFinalize, On
<1>3. /\ where' = [o \in Obj |-> IF o \in dead THEN "free"
                                 ELSE IF o \in dying THEN "finalize" ELSE where[o]]
      /\ rc' = [o \in Obj |-> IF o \in dead THEN 0
                              ELSE rc[o] - Lost(dead, o) + One(o \in dying)]
      /\ refs' = [o \in Obj |-> IF o \in dead THEN {} ELSE refs[o]]
      /\ finalizable' = finalizable \cup dying
      /\ finalized' = finalized \ (dead \cup Rescued)
      /\ hasFin' = hasFin \ dead
  <2>1. where' = [o \in Obj |-> CASE o \in dead -> "free"
                                  [] o \in dying -> "finalize"
                                  [] OTHER -> where[o]]
    BY DEF MarkAndSweep
  <2>2. \A o \in Obj : (CASE o \in dead -> "free"
                          [] o \in dying -> "finalize"
                          [] OTHER -> where[o])
                       = IF o \in dead THEN "free"
                         ELSE IF o \in dying THEN "finalize" ELSE where[o]
    BY <1>2
  <2>3. QED
    BY <2>1, <2>2 DEF MarkAndSweep
<1>4. \A o \in Obj : where[o] # "refzero"
  BY DEF ListsSound, IInv
\* Nothing that stays refers to what goes.
<1>5. \A o \in dead, x \in Obj : o \in refs[x] => x \in dead
  <2> TAKE o \in dead, x \in Obj
  <2> HAVE o \in refs[x]
  <2>1. x \notin Kept
    BY <1>1, <1>2, Marks DEF Closed
  <2>2. where[x] # "free"
    BY DEF FreeIsBare, IInv
  <2>3. where[x] # "finalize"
    BY <1>1, <2>1, Marks DEF On
  <2>4. QED
    BY <1>2, <1>4, <2>1, <2>2, <2>3, Reading
<1>6. \A o \in Obj : Holders(o)' = Holders(o) \ dead
  BY <1>3 DEF Holders
<1>7. \A o \in Obj :
        /\ Lost(dead, o) = Cardinality(Holders(o) \cap dead)
        /\ Cardinality(Holders(o)') = Cardinality(Holders(o)) - Lost(dead, o)
        /\ Lost(dead, o) \in Nat /\ Cardinality(Holders(o)') \in Nat
        /\ Cardinality(Holders(o)') = 0 <=> Holders(o)' = {}
  <2> TAKE o \in Obj
  <2>1. {x \in dead : o \in refs[x]} = Holders(o) \cap dead
    BY <1>2 DEF Holders
  <2>2. Lost(dead, o) = Cardinality(Holders(o) \cap dead)
    BY <2>1 DEF Lost
  <2>3. Holders(o) \in SUBSET Obj
    BY DEF Holders
  <2>4. Cardinality(Holders(o) \ dead) = Cardinality(Holders(o)) - Cardinality(Holders(o) \cap dead)
    BY <2>3, Counting
  <2>5. Holders(o) \cap dead \in SUBSET Obj /\ Holders(o)' \in SUBSET Obj
    BY <1>6, <2>3
  <2>6. Cardinality(Holders(o) \cap dead) \in Nat
    BY <2>5, Counting
  <2>7. /\ Cardinality(Holders(o)') \in Nat
        /\ Cardinality(Holders(o)') = 0 <=> Holders(o)' = {}
    BY <2>5, Counting
  <2>8. QED
    BY <1>6, <2>2, <2>4, <2>6, <2>7
<1> HIDE DEF dead, dying
<1>8. \A o \in dead : Cardinality(Holders(o)') = 0
  <2> TAKE o \in dead
  <2>1. Holders(o) \ dead = {}
    BY <1>5 DEF Holders
  <2>2. QED
    BY <1>2, <1>6, <1>7, <2>1
<1>9. Held' = Held
  BY DEF Held
<1>10. RefcountsExact' /\ rc' \in [Obj -> Nat]
  <2>1. ASSUME NEW o \in Obj
        PROVE  /\ rc'[o] = Cardinality(Holders(o)') + One(o \in roots) + One(o \in Held)
                           + One(where'[o] = "finalize")
               /\ rc'[o] \in Nat
    <3>1. CASE o \in dead
      BY <1>2, <1>3, <1>8, <3>1 DEF One
    <3>2. CASE o \notin dead
      <4>1. rc[o] = Cardinality(Holders(o)) + One(o \in roots) + One(o \in Held)
                    + One(where[o] = "finalize")
            /\ Cardinality(Holders(o)) \in Nat
        BY Reading
      <4>2. rc'[o] = rc[o] - Lost(dead, o) + One(o \in dying)
        BY <1>3, <3>2
      <4>3. One(where'[o] = "finalize") = One(where[o] = "finalize") + One(o \in dying)
        BY <1>2, <1>3, <3>2 DEF One
      <4>4. /\ Cardinality(Holders(o)') = Cardinality(Holders(o)) - Lost(dead, o)
            /\ Cardinality(Holders(o)') \in Nat /\ Lost(dead, o) \in Nat
        BY <1>7
      <4>5. /\ One(o \in roots) \in Nat /\ One(o \in Held) \in Nat /\ One(o \in dying) \in Nat
            /\ One(where[o] = "finalize") \in Nat
        BY DEF One
      <4>6. QED
        BY <4>1, <4>2, <4>3, <4>4, <4>5
    <3>3. QED
      BY <3>1, <3>2
  <2>2. rc' = [o \in Obj |-> rc'[o]]
    BY <1>3
  <2>3. QED
    BY <1>9, <2>1, <2>2 DEF RefcountsExact
<1>11. ASSUME NEW o \in Obj, where'[o] = "heap"
       PROVE  rc'[o] > 0
  <2>1. where[o] = "heap" /\ o \notin dead /\ o \notin dying /\ o \in Kept
    BY <1>2, <1>3, <1>11
  <2>2. o \in roots \cup Held \/ \E x \in Kept : o \in refs[x]
    BY <1>1, <2>1, Marks DEF dying, On
  <2>3. o \in roots \cup Held \/ Holders(o)' # {}
    BY <1>1, <1>2, <1>6, <2>2, Marks DEF Holders
  <2>4. /\ Cardinality(Holders(o)') \in Nat
        /\ Cardinality(Holders(o)') = 0 <=> Holders(o)' = {}
    BY <1>7
  <2>5. rc'[o] = Cardinality(Holders(o)') + One(o \in roots) + One(o \in Held)
                 + One(where'[o] = "finalize")
    BY <1>9, <1>10 DEF RefcountsExact
  <2>6. QED
    BY <2>3, <2>4, <2>5 DEF One
<1>12. ListsSound'
  <2> SUFFICES ASSUME NEW o \in Obj
               PROVE  /\ where'[o] \in {"free", "refzero"} => rc'[o] = 0
                      /\ where'[o] # "refzero"
                      /\ o \in finalizable' <=> (where'[o] = "finalize" /\ o # cur)
                      /\ (where'[o] = "finalize" /\ o \in finalized') => o = cur
    BY <1>11 DEF ListsSound
  <2>1. /\ where[o] \in {"free", "refzero"} => rc[o] = 0
        /\ o \in finalizable <=> (where[o] = "finalize" /\ o # cur)
        /\ (where[o] = "finalize" /\ o \in finalized) => o = cur
    BY DEF ListsSound, IInv
  <2>2. where'[o] = "free" => rc'[o] = 0
    <3>1. o \notin dead /\ where[o] = "free" => o \notin Held /\ o \notin roots /\ Holders(o) = {}
      BY <2>1, Reading
    <3>2. o \notin dead /\ where[o] = "free" => Holders(o)' = {} /\ Cardinality(Holders(o)') = 0
      BY <1>6, <1>7, <3>1
    <3>3. QED
      BY <1>2, <1>3, <1>9, <1>10, <3>1, <3>2 DEF RefcountsExact, One
  <2>3. QED
    BY <1>2, <1>3, <1>4, <2>1, <2>2
<1>13. FreeIsBare' /\ CascadeFinalized'
  BY <1>2, <1>3, <1>4 DEF FreeIsBare, CascadeFinalized, IInv
<1>14. /\ where' \in [Obj -> {"free", "heap", "refzero", "finalize"}]
       /\ refs' \in [Obj -> SUBSET Obj]
       /\ finalizable' \subseteq Obj /\ hasFin' \subseteq Obj /\ finalized' \subseteq Obj
  BY <1>1, <1>2, <1>3, Sets DEF TypeOK
<1>15. cur # None => cur \in finalized' /\ where'[cur] = "finalize"
  <2>1. cur # None => cur \in finalized /\ where[cur] = "finalize" /\ cur \in Obj
    BY DEF FinalizerHolds, IInv, TypeOK
  <2>2. QED
    BY <1>2, <1>3, <2>1 DEF Rescued, On
<1>16. On("finalize") = {} => finalized' = {}
  <2>1. \A o \in finalized : o \in Obj /\ where[o] \notin {"free", "refzero"}
    BY <1>1, <1>4, Sets DEF FreeIsBare, IInv
  <2>2. On("finalize") = {} => \A o \in finalized : where[o] = "heap"
    BY <1>1, <2>1 DEF On, TypeOK
  <2>3. On("finalize") = {} => \A o \in finalized : o \in dead \/ o \in Rescued
    BY <1>2, <2>1, <2>2 DEF Rescued, On
  <2>4. QED
    BY <1>3, <2>3
<1>17. QED
  BY <1>10, <1>12, <1>13, <1>14, <1>15, <1>16

\* A collection by running code, from a finalizer too.
LEMMA CollectStep ==
  ASSUME IInv, NEW quiet \in BOOLEAN, Collect(quiet)
  PROVE  IInv'
<1> USE DEF Collect, ending
<1>1. MarkAndSweep /\ pc = "code" /\ pc' \in {"code", "loop"} /\ ~Forced
      /\ UNCHANGED <<roots, cur, hadZero, back, stage, round>>
  BY DEF Running
<1>2. TypeOK'
  BY <1>1, SweepKeeps, Sets DEF TypeOK, IInv
<1>3. FinalizerHolds'
  BY <1>1, SweepKeeps DEF FinalizerHolds, IInv, Forced, Processing
<1>4. StagesSettled' /\ RoundSound'
  BY <1>1 DEF StagesSettled, RoundSound, FinalizerHolds, IInv, Forced, Running
<1>5. QED
  BY <1>1, <1>2, <1>3, <1>4, SweepKeeps DEF IInv

\* A collection of duk_heap_free: the third one leaves no mark of a finalizer behind.
LEMMA DestroyCollectsStep ==
  ASSUME IInv, DestroyCollects
  PROVE  IInv'
<1> USE DEF DestroyCollects
<1>1. MarkAndSweep /\ pc = "code" /\ cur = None /\ pc' = "loop"
      /\ UNCHANGED <<roots, cur, hadZero, back, round>>
  BY DEF Idle
<1>2. \/ stage = "live" /\ stage' = "gc1"
      \/ stage = "gc1" /\ stage' = "gc2"
      \/ stage = "gc2" /\ stage' = "gc3"
  BY DEF NextStage
<1>3. ~Forced
  BY <1>2 DEF Forced
<1>4. TypeOK'
  BY <1>1, <1>2, <1>3, SweepKeeps, Sets DEF TypeOK, IInv
<1>5. stage' = "gc3" => finalized' = {}
  BY <1>1, <1>2, <1>3, SweepKeeps DEF StagesSettled, IInv
<1>6. FinalizerHolds' /\ StagesSettled' /\ RoundSound'
  BY <1>1, <1>2, <1>5 DEF FinalizerHolds, StagesSettled, RoundSound, Forced
<1>7. QED
  BY <1>1, <1>3, <1>4, <1>6, SweepKeeps DEF IInv

-----------------------------------------------------------------------------
\* The finalizer's stack holds the object, and counts.
LEMMA CallFinalizerStep ==
  ASSUME IInv, NEW o \in Obj, CallFinalizer(o)
  PROVE  IInv'
<1> USE DEF CallFinalizer, ending
<1>1. cur = None /\ stage \notin {"gc3", "forced", "gone"} /\ ~Forced
  BY DEF IInv, FinalizerHolds, StagesSettled, Forced
<1>2. TypeOK'
  BY Sets DEF IInv, TypeOK
<1>3. RefcountsExact'
  <2>1. \A p \in Obj : Holders(p)' = Holders(p)
    BY DEF Holders
  <2>2. Held = {} /\ Held' = {o}
    BY <1>1, ObjAssumption DEF Held
  <2> SUFFICES ASSUME NEW p \in Obj
               PROVE  rc'[p] = Cardinality(Holders(p)) + One(p \in roots) + One(p \in Held')
                               + One(where[p] = "finalize")
    BY <2>1 DEF RefcountsExact
  <2>3. rc'[p] = rc[p] + One(p = o) /\ Cardinality(Holders(p)) \in Nat
        /\ rc[p] = Cardinality(Holders(p)) + One(p \in roots) + One(p \in Held)
                   + One(where[p] = "finalize")
    BY Reading DEF IInv, TypeOK, One
  <2>4. QED
    BY <2>2, <2>3 DEF One
<1>4. ListsSound'
  BY <1>1, ObjAssumption, Reading DEF ListsSound, IInv, TypeOK
<1>5. FreeIsBare' /\ CascadeFinalized'
  BY DEF FreeIsBare, CascadeFinalized, IInv
<1>6. FinalizerHolds' /\ StagesSettled' /\ RoundSound'
  BY <1>1, ObjAssumption DEF FinalizerHolds, StagesSettled, RoundSound, Forced
<1>7. QED
  BY <1>2, <1>3, <1>4, <1>5, <1>6 DEF IInv

\* The object a finalizer ran for: it is freed if the list alone kept it, and goes back
\* to the heap, where something refers to it, if not.
LEMMA FinalizerReturnsStep ==
  ASSUME IInv, NEW o \in Obj, FinalizerReturns(o)
  PROVE  IInv'
<1> USE DEF FinalizerReturns, ending
<1>1. /\ cur = o /\ cur' = None /\ pc = "code" /\ ~Forced
      /\ where[o] = "finalize" /\ stage \notin {"gc3", "forced", "gone"}
      /\ UNCHANGED <<roots, stage, round>>
  BY ObjAssumption DEF FinalizerHolds, IInv, Forced
<1>2. Held = {o} /\ Held' = {}
  BY <1>1, ObjAssumption DEF Held
<1>3. rc[o] = Cardinality(Holders(o)) + One(o \in roots) + 2 /\ rc[o] \in Nat
      /\ Cardinality(Holders(o)) \in Nat
  BY <1>1, <1>2, Reading DEF One
<1>4. CASE rc[o] = 2
  <2>1. Holders(o) = {} /\ o \notin roots
    <3>1. Holders(o) \in SUBSET Obj
      BY DEF Holders
    <3>2. Cardinality(Holders(o)) = 0 /\ o \notin roots
      BY <1>3, <1>4 DEF One
    <3>3. QED
      BY <3>1, <3>2, Counting
  <2>2. /\ Free(o) /\ pc' \in {"cascade", "loop"} /\ back' \in {"code", "loop"}
        /\ (On("refzero"))' # {} => pc' = "cascade"
        /\ pc' = "cascade" => back' = "loop"
    BY <1>4
  <2>3. /\ where' \in [Obj -> {"free", "heap", "refzero", "finalize"}]
        /\ rc' \in [Obj -> Nat]
        /\ refs' \in [Obj -> SUBSET Obj]
        /\ finalizable' \subseteq Obj /\ hasFin' \subseteq Obj /\ finalized' \subseteq Obj
        /\ RefcountsExact' /\ ListsSound' /\ FreeIsBare' /\ CascadeFinalized'
    BY <1>1, <2>1, <2>2, FreeKeeps
  <2>4. TypeOK'
    <3>1. round \in [todo : SUBSET Obj, all : Nat, count : Nat, limit : Nat, first : BOOLEAN] /\ roots \subseteq Obj
          /\ stage \in {"live", "gc1", "gc2", "gc3", "forced", "gone"}
          /\ hadZero \in BOOLEAN
      BY Sets DEF TypeOK, IInv
    <3>2. hadZero' \in BOOLEAN
      BY <3>1, <1>4
    <3>3. QED
      BY <2>2, <2>3, <1>1, <3>1, <3>2 DEF TypeOK
  <2>5. FinalizerHolds' /\ StagesSettled' /\ RoundSound'
    BY <1>1, <2>2 DEF FinalizerHolds, StagesSettled, RoundSound, Forced
  <2>6. QED
    BY <2>3, <2>4, <2>5 DEF IInv
<1>5. CASE rc[o] # 2
  <2>1. /\ where' = [where EXCEPT ![o] = "heap"] /\ rc' = [rc EXCEPT ![o] = @ - 2]
        /\ finalized' \subseteq finalized /\ finalized \subseteq finalized' \cup {o}
        /\ pc' = "loop" /\ UNCHANGED <<refs, hasFin, finalizable, back>>
        /\ hadZero' \in BOOLEAN
    BY <1>5
  <2>2. rc[o] > 2
    BY <1>3, <1>5 DEF One
  <2>3. TypeOK'
    BY <1>1, <2>1, <2>2, Sets DEF IInv, TypeOK
  <2>4. RefcountsExact'
    <3>1. \A p \in Obj : Holders(p)' = Holders(p)
      BY <2>1 DEF Holders
    <3> SUFFICES ASSUME NEW p \in Obj
                 PROVE  rc'[p] = Cardinality(Holders(p)) + One(p \in roots) + One(p \in Held')
                                 + One(where'[p] = "finalize")
      BY <1>1, <3>1 DEF RefcountsExact
    <3>2. CASE p = o
      BY <1>1, <1>2, <1>3, <2>1, <3>2 DEF One, IInv, TypeOK
    <3>3. CASE p # o
      <4>1. rc'[p] = rc[p] /\ where'[p] = where[p]
        BY <2>1, <3>3 DEF IInv, TypeOK
      <4>2. rc[p] = Cardinality(Holders(p)) + One(p \in roots) + One(p \in Held)
                    + One(where[p] = "finalize")
        BY Reading
      <4>3. QED
        BY <1>2, <3>3, <4>1, <4>2 DEF One
    <3>4. QED
      BY <3>2, <3>3
  <2>5. ListsSound'
    BY <1>1, <2>1, <2>2, ObjAssumption DEF ListsSound, IInv, TypeOK
  <2>6. FreeIsBare' /\ CascadeFinalized'
    BY <1>1, <2>1 DEF FreeIsBare, CascadeFinalized, ListsSound, IInv, TypeOK
  <2>7. FinalizerHolds' /\ StagesSettled' /\ RoundSound'
    BY <1>1, <2>1 DEF FinalizerHolds, StagesSettled, RoundSound, Forced
  <2>8. QED
    BY <2>3, <2>4, <2>5, <2>6, <2>7 DEF IInv
<1>6. QED
  BY <1>4, <1>5

\* The list gives its reference back.
LEMMA SkipFinalizerStep ==
  ASSUME IInv, NEW o \in Obj, SkipFinalizer(o)
  PROVE  IInv'
<1> USE DEF SkipFinalizer, control, ending
<1>1. cur = None /\ rc[o] > 0 /\ o # cur
  BY ObjAssumption, Reading DEF FinalizerHolds, IInv, One
<1>2. TypeOK'
  BY <1>1, Sets DEF IInv, TypeOK
<1>3. RefcountsExact'
  <2>1. Held' = Held /\ \A p \in Obj : Holders(p)' = Holders(p)
    BY DEF Holders, Held
  <2> SUFFICES ASSUME NEW p \in Obj
               PROVE  rc'[p] = Cardinality(Holders(p)) + One(p \in roots) + One(p \in Held)
                               + One(where'[p] = "finalize")
    BY <2>1 DEF RefcountsExact
  <2>2. rc[p] = Cardinality(Holders(p)) + One(p \in roots) + One(p \in Held)
                + One(where[p] = "finalize")
        /\ Cardinality(Holders(p)) \in Nat
    BY Reading
  <2>3. CASE p = o
    BY <2>2, <2>3 DEF One, IInv, TypeOK
  <2>4. CASE p # o
    BY <2>2, <2>4 DEF IInv, TypeOK
  <2>5. QED
    BY <2>3, <2>4
<1>4. ListsSound'
  BY <1>1 DEF ListsSound, IInv, TypeOK
<1>5. FreeIsBare' /\ CascadeFinalized' /\ FinalizerHolds' /\ StagesSettled' /\ RoundSound'
  BY <1>1 DEF FreeIsBare, CascadeFinalized, FinalizerHolds, StagesSettled, RoundSound, IInv, TypeOK,
              Forced
<1>6. QED
  BY <1>2, <1>3, <1>4, <1>5 DEF IInv

\* The loop ends with the list empty.
LEMMA ListDoneStep ==
  ASSUME IInv, ListDone
  PROVE  IInv'
<1> USE DEF ListDone, lists, ending
<1>1. TypeOK'
  BY Sets DEF IInv, TypeOK
<1>2. RefcountsExact' /\ ListsSound'
  <2>1. \A p \in Obj : Holders(p)' = Holders(p)
    BY DEF Holders
  <2>2. QED
    BY <2>1 DEF RefcountsExact, ListsSound, Held, IInv
<1>3. FreeIsBare' /\ CascadeFinalized' /\ FinalizerHolds' /\ StagesSettled' /\ RoundSound'
  BY DEF FreeIsBare, CascadeFinalized, FinalizerHolds, StagesSettled, RoundSound, IInv, On, Forced
<1>4. QED
  BY <1>1, <1>2, <1>3 DEF IInv

-----------------------------------------------------------------------------
\* The last finalizers start with every object to be looked at.
LEMMA StartForcedStep ==
  ASSUME IInv, StartForced
  PROVE  IInv'
<1> USE DEF StartForced, lists, control, Idle
<1>1. round' = [todo |-> On("heap"), all |-> 0, count |-> 0, first |-> TRUE, limit |-> 0]
  BY DEF StartRound, NoRound
<1>2. TypeOK'
  BY <1>1, Sets DEF IInv, TypeOK
<1>3. RefcountsExact' /\ ListsSound'
  <2>1. \A p \in Obj : Holders(p)' = Holders(p)
    BY DEF Holders
  <2>2. QED
    BY <2>1 DEF RefcountsExact, ListsSound, Held, IInv
<1>4. FreeIsBare' /\ CascadeFinalized' /\ FinalizerHolds' /\ StagesSettled'
  BY DEF FreeIsBare, CascadeFinalized, FinalizerHolds, StagesSettled, IInv, On, Forced
<1>5. RoundSound'
  BY <1>1 DEF RoundSound, On
<1>6. QED
  BY <1>2, <1>3, <1>4, <1>5 DEF IInv

\* One object is looked at: if it was due, it is counted in the round.
LEMMA VisitForcedStep ==
  ASSUME IInv, NEW o \in Obj, VisitForced(o)
  PROVE  IInv'
<1> USE DEF VisitForced, Idle
<1>1. pc = "code" /\ cur = None /\ where[o] = "heap" /\ stage = "forced"
      /\ round.todo \subseteq On("heap") /\ round.count \in Nat
      /\ round \in [todo : SUBSET Obj, all : Nat, count : Nat, limit : Nat, first : BOOLEAN]
  BY DEF IInv, RoundSound, TypeOK, On, Forced
<1>2. /\ round'.todo = round.todo \ {o}
      /\ round' \in [todo : SUBSET Obj, all : Nat, count : Nat, limit : Nat, first : BOOLEAN]
      /\ \/ o \in hasFin \ finalized /\ round'.count > 0
            /\ finalized' = finalized \cup {o} /\ rc' = [rc EXCEPT ![o] = @ + 1] /\ cur' = o
         \/ o \notin hasFin \ finalized /\ round'.count = round.count
            /\ UNCHANGED <<finalized, rc, cur>>
  <2>1. round.todo \ {o} \in SUBSET Obj
    BY <1>1
  <2>2. CASE o \in hasFin \ finalized
    <3>1. round' = [round EXCEPT !.todo = @ \ {o}, !.all = @ + 1, !.count = @ + 1]
      BY <2>2
    <3>2. round' = [todo |-> round.todo \ {o}, all |-> round.all + 1, count |-> round.count + 1,
                    limit |-> round.limit, first |-> round.first]
      BY <1>1, <3>1
    <3>3. QED
      BY <1>1, <2>1, <2>2, <3>2
  <2>3. CASE o \notin hasFin \ finalized
    <3>1. round' = [round EXCEPT !.todo = @ \ {o}, !.all = @ + 1] /\ UNCHANGED <<finalized, rc, cur>>
      BY <2>3
    <3>2. round' = [todo |-> round.todo \ {o}, all |-> round.all + 1, count |-> round.count,
                    limit |-> round.limit, first |-> round.first]
      BY <1>1, <3>1
    <3>3. QED
      BY <1>1, <2>1, <2>3, <3>1, <3>2
  <2>4. QED
    BY <2>2, <2>3
<1>3. TypeOK'
  BY <1>2, Sets DEF IInv, TypeOK
<1>4. RefcountsExact'
  <2>1. \A p \in Obj : Holders(p)' = Holders(p)
    BY DEF Holders
  <2> SUFFICES ASSUME NEW p \in Obj
               PROVE  rc'[p] = Cardinality(Holders(p)) + One(p \in roots) + One(p \in Held')
                               + One(where[p] = "finalize")
    BY <2>1 DEF RefcountsExact
  <2>2. rc[p] = Cardinality(Holders(p)) + One(p \in roots) + One(p \in Held)
                + One(where[p] = "finalize")
        /\ Cardinality(Holders(p)) \in Nat
    BY Reading
  <2>3. /\ Held = {}
        /\ \/ Held' = {o} /\ rc'[p] = rc[p] + One(p = o)
           \/ Held' = {} /\ rc'[p] = rc[p]
    BY <1>1, <1>2, ObjAssumption, Reading DEF Held, One, IInv, TypeOK
  <2>4. QED
    BY <2>2, <2>3 DEF One
<1>5. ListsSound'
  BY <1>1, <1>2, ObjAssumption, Reading DEF ListsSound, StagesSettled, On, IInv, TypeOK
<1>6. FreeIsBare' /\ CascadeFinalized' /\ FinalizerHolds' /\ StagesSettled'
  BY <1>1, <1>2, ObjAssumption
     DEF FreeIsBare, CascadeFinalized, FinalizerHolds, StagesSettled, IInv, On, Forced
<1>7. RoundSound'
  BY <1>1, <1>2 DEF RoundSound, On, IInv, Forced
<1>8. QED
  BY <1>3, <1>4, <1>5, <1>6, <1>7 DEF IInv

\* A last finalizer returns, and its object stays.
LEMMA ForcedReturnsStep ==
  ASSUME IInv, NEW o \in Obj, ForcedReturns(o)
  PROVE  IInv'
<1> USE DEF ForcedReturns, ending
<1>1. Held = {o} /\ Held' = {} /\ o \in Held /\ cur # None /\ stage = "forced"
  BY ObjAssumption DEF Held, Forced
<1>2. rc[o] > 0
  BY <1>1, Reading DEF One
<1>3. TypeOK'
  BY <1>2, Sets DEF IInv, TypeOK
<1>4. RefcountsExact'
  <2>1. \A p \in Obj : Holders(p)' = Holders(p)
    BY DEF Holders
  <2> SUFFICES ASSUME NEW p \in Obj
               PROVE  rc'[p] = Cardinality(Holders(p)) + One(p \in roots) + One(p \in Held')
                               + One(where[p] = "finalize")
    BY <2>1 DEF RefcountsExact
  <2>2. rc'[p] = rc[p] - One(p = o) /\ Cardinality(Holders(p)) \in Nat
        /\ rc[p] = Cardinality(Holders(p)) + One(p \in roots) + One(p \in Held)
                   + One(where[p] = "finalize")
    BY Reading DEF IInv, TypeOK, One
  <2>3. QED
    BY <1>1, <2>2 DEF One
<1>5. ListsSound'
  BY <1>1, <1>2, Reading DEF ListsSound, StagesSettled, On, IInv, TypeOK
<1>6. FreeIsBare' /\ CascadeFinalized' /\ FinalizerHolds' /\ StagesSettled' /\ RoundSound'
  BY <1>1
     DEF FreeIsBare, CascadeFinalized, FinalizerHolds, StagesSettled, RoundSound, IInv, On, Forced
<1>7. QED
  BY <1>3, <1>4, <1>5, <1>6 DEF IInv

\* A round ends: all goes, or another starts with every object to be looked at.
LEMMA EndRoundStep ==
  ASSUME IInv, EndRound
  PROVE  IInv'
<1> USE DEF Idle, control
<1> DEFINE limit == IF round.first THEN 2 * (round.all + BaseCount)
                    ELSE (round.limit * 3) \div 4
<1>1. /\ pc = "code" /\ cur = None /\ stage = "forced"
      /\ UNCHANGED <<finalizable, cur, hadZero, pc, back>>
  BY DEF EndRound, Forced
<1>2. \/ /\ stage' = "gone" /\ round' = NoRound
         /\ where' = [o \in Obj |-> "free"] /\ refs' = [o \in Obj |-> {}]
         /\ rc' = [o \in Obj |-> 0] /\ hasFin' = {} /\ finalized' = {} /\ roots' = {}
      \/ /\ round' = StartRound([round EXCEPT !.first = FALSE, !.limit = limit])
         /\ UNCHANGED <<where, refs, rc, hasFin, finalized, roots, stage>>
  BY DEF EndRound
<1>3. round \in [todo : SUBSET Obj, all : Nat, count : Nat, limit : Nat, first : BOOLEAN]
  BY DEF TypeOK, IInv
<1>4. limit \in Nat
  <2>1. round.all \in Nat
    BY <1>3
  <2>2. 2 * (round.all + BaseCount) \in Nat
    BY <2>1, BoundsAssumption
  <2>3. round.limit \in Nat
    BY <1>3
  <2>4. \A n \in Nat : (n * 3) \div 4 \in Nat
    OBVIOUS
  <2>5. QED
    BY <2>2, <2>3, <2>4
<1> HIDE DEF limit
<1>5. finalizable = {}
  BY <1>1, Sets DEF IInv, ListsSound, StagesSettled, On
<1>6. CASE stage' = "gone"
  <2>1. /\ round' = NoRound
        /\ where' = [o \in Obj |-> "free"] /\ refs' = [o \in Obj |-> {}]
        /\ rc' = [o \in Obj |-> 0] /\ hasFin' = {} /\ finalized' = {} /\ roots' = {}
    BY <1>1, <1>2, <1>6
  <2>2. TypeOK'
    BY <1>1, <1>5, <1>6, <2>1 DEF TypeOK, IInv, NoRound
  <2>3. RefcountsExact'
    <3>1. Held' = {} /\ \A o \in Obj : Holders(o)' = {}
      BY <1>1, <2>1 DEF Held, Holders
    <3>2. \A o \in Obj : Cardinality(Holders(o)') = 0
      BY <3>1, FS_EmptySet
    <3>3. QED
      BY <2>1, <3>1, <3>2 DEF RefcountsExact, One
  <2>4. /\ ListsSound' /\ FreeIsBare' /\ CascadeFinalized'
        /\ FinalizerHolds' /\ StagesSettled' /\ RoundSound'
    BY <1>1, <1>5, <1>6, <2>1
       DEF ListsSound, FreeIsBare, CascadeFinalized, FinalizerHolds, StagesSettled, RoundSound,
           On, Forced
  <2>5. QED
    BY <2>2, <2>3, <2>4 DEF IInv
<1>7. CASE stage' # "gone"
  <2>1. /\ round' = StartRound([round EXCEPT !.first = FALSE, !.limit = limit])
        /\ UNCHANGED <<where, refs, rc, hasFin, finalized, roots, stage>>
    BY <1>2, <1>7
  <2>2. round' = [todo |-> On("heap"), all |-> 0, count |-> 0, first |-> FALSE, limit |-> limit]
    BY <1>3, <2>1 DEF StartRound
  <2>3. TypeOK'
    <3>1. round' \in [todo : SUBSET Obj, all : Nat, count : Nat, limit : Nat, first : BOOLEAN]
      BY <1>4, <2>2 DEF On
    <3>2. UNCHANGED <<where, refs, rc, hasFin, finalizable, finalized, roots,
                      cur, hadZero, pc, back, stage>>
      BY <1>1, <2>1
    <3>3. QED
      BY <3>1, <3>2 DEF IInv, TypeOK
  <2>4. RefcountsExact' /\ ListsSound'
    <3>1. \A p \in Obj : Holders(p)' = Holders(p)
      BY <2>1 DEF Holders
    <3>2. QED
      BY <1>1, <2>1, <3>1 DEF RefcountsExact, ListsSound, Held, IInv
  <2>5. FreeIsBare' /\ CascadeFinalized' /\ FinalizerHolds' /\ StagesSettled' /\ RoundSound'
    BY <1>1, <2>1, <2>2
       DEF FreeIsBare, CascadeFinalized, FinalizerHolds, StagesSettled, RoundSound, IInv, On, Forced
  <2>6. QED
    BY <2>3, <2>4, <2>5 DEF IInv
<1>8. QED
  BY <1>6, <1>7

-----------------------------------------------------------------------------
\* When nothing changes.
LEMMA StutterStep ==
  ASSUME IInv, UNCHANGED vars
  PROVE  IInv'
<1> USE DEF vars
<1>1. \A p \in Obj : Holders(p)' = Holders(p)
  BY DEF Holders
<1>2. TypeOK'
  BY DEF TypeOK, IInv
<1>3. RefcountsExact' /\ ListsSound'
  BY <1>1 DEF RefcountsExact, ListsSound, Held, IInv
<1>4. FreeIsBare' /\ CascadeFinalized' /\ FinalizerHolds' /\ StagesSettled' /\ RoundSound'
  BY DEF FreeIsBare, CascadeFinalized, FinalizerHolds, StagesSettled, RoundSound, IInv, On, Forced
<1>5. QED
  BY <1>2, <1>3, <1>4 DEF IInv

\* Every step keeps the invariant.
LEMMA NextIInv ==
  ASSUME IInv, [Next]_vars
  PROVE  IInv'
<1>1. ASSUME NEW o \in Obj, Alloc(o) PROVE IInv'
  BY <1>1, AllocStep
<1>2. ASSUME NEW o \in Obj, Hold(o) PROVE IInv'
  BY <1>2, HoldStep
<1>3. ASSUME NEW o \in Obj, SetFinalizer(o) PROVE IInv'
  BY <1>3, SetFinalizerStep
<1>4. ASSUME NEW o \in Obj, FreePending(o) PROVE IInv'
  BY <1>4, FreePendingStep
<1>5. ASSUME NEW o \in Obj, CallFinalizer(o) PROVE IInv'
  BY <1>5, CallFinalizerStep
<1>6. ASSUME NEW o \in Obj, FinalizerReturns(o) PROVE IInv'
  BY <1>6, FinalizerReturnsStep
<1>7. ASSUME NEW o \in Obj, SkipFinalizer(o) PROVE IInv'
  BY <1>7, SkipFinalizerStep
<1>8. ASSUME NEW o \in Obj, VisitForced(o) PROVE IInv'
  BY <1>8, VisitForcedStep
<1>9. ASSUME NEW o \in Obj, ForcedReturns(o) PROVE IInv'
  BY <1>9, ForcedReturnsStep
<1>10. ASSUME NEW a \in Obj, NEW b \in Obj, Link(a, b) PROVE IInv'
  BY <1>10, LinkStep
<1>11. ASSUME NEW o \in Obj, NEW quiet \in BOOLEAN, Drop(o, quiet) PROVE IInv'
  BY <1>11, DropStep
<1>12. ASSUME NEW a \in Obj, NEW b \in Obj, NEW quiet \in BOOLEAN, Unlink(a, b, quiet) PROVE IInv'
  BY <1>12, UnlinkStep
<1>13. ASSUME NEW quiet \in BOOLEAN, Collect(quiet) PROVE IInv'
  BY <1>13, CollectStep
<1>14. QED
  BY <1>1, <1>2, <1>3, <1>4, <1>5, <1>6, <1>7, <1>8, <1>9, <1>10, <1>11, <1>12, <1>13,
     ListDoneStep, DestroyCollectsStep, StartForcedStep, EndRoundStep, StutterStep DEF Next

\* Every state of the heap, whatever the program does, is in order.
THEOREM Invariance == Spec => []IInv
<1>1. Init => IInv
  BY InitIInv
<1>2. IInv /\ [Next]_vars => IInv'
  BY NextIInv
<1>3. QED
  BY <1>1, <1>2, PTL DEF Spec

\* TypeOK, for every number of objects and references.
THEOREM TypesKept == Spec => []TypeOK
<1>1. IInv => TypeOK
  BY DEF IInv
<1>2. QED
  BY <1>1, Invariance, PTL

\* Reference counting: a count is always the number of references there are.
THEOREM CountsExact == Spec => []RefcountsExact
<1>1. IInv => RefcountsExact
  BY DEF IInv
<1>2. QED
  BY <1>1, Invariance, PTL

\* The lists of the heap: nothing is left half freed, nothing waits in the wrong place.
THEOREM ListsKept == Spec => []ListsSound
<1>1. IInv => ListsSound
  BY DEF IInv
<1>2. QED
  BY <1>1, Invariance, PTL

-----------------------------------------------------------------------------
\* Which objects reference counting leaves behind in running code: all of them.
LEMMA DecRefFreesNone ==
  ASSUME IInv, NEW o \in Obj, DecRefs(where, rc, {o}), rc[o] > One(where[o] = "finalize")
  PROVE  \A p \in Obj : where'[p] = "free" <=> where[p] = "free"
BY DecRefOne DEF One

\* A collection takes back only what neither the program nor a finalizer sees, and no
\* object whose finalizer is still to be called; and what it takes for rescued is seen by
\* the program, or by an object it has just found dead.
LEMMA SweepTakes ==
  ASSUME IInv, MarkAndSweep
  PROVE  /\ Swept \subseteq Live \ Visible
         /\ Live' = Live \ Swept
         /\ refs' = [o \in Obj |-> IF o \in Swept THEN {} ELSE refs[o]]
         /\ Swept \cap hasFin \subseteq finalized
         /\ \A o \in finalized \ finalized' :
              where'[o] = "heap" => o \in Visible \cup Reach(refs, ToFinalize)
<1>1. TypeOK
  BY DEF IInv
<1>2. /\ Swept \subseteq Live \ Visible
      /\ Swept \cap hasFin \subseteq finalized
  BY <1>1, Marks DEF Swept, ToFinalize, On, Live
<1>3. /\ refs' = [o \in Obj |-> IF o \in Swept THEN {} ELSE refs[o]]
      /\ finalized' = finalized \ (Swept \cup Rescued)
  BY DEF MarkAndSweep
<1>4. \A o \in Obj : where'[o] = IF o \in Swept THEN "free"
                                 ELSE IF o \in ToFinalize THEN "finalize" ELSE where[o]
  <2>1. where' = [o \in Obj |-> CASE o \in Swept -> "free"
                                  [] o \in ToFinalize -> "finalize"
                                  [] OTHER -> where[o]]
    BY DEF MarkAndSweep
  <2>2. \A o \in ToFinalize : o \notin Swept
    BY <1>1, Marks DEF Swept
  <2>3. QED
    BY <2>1, <2>2
<1>5. Live' = Live \ Swept
  BY <1>4 DEF Live, ToFinalize, On
<1>6. ASSUME NEW o \in finalized \ finalized', where'[o] = "heap"
      PROVE  o \in Visible \cup Reach(refs, ToFinalize)
  <2>1. o \in Obj /\ o \notin Swept
    BY <1>1, <1>4, <1>6, Sets
  <2>2. o \in Rescued
    BY <1>3, <1>6, <2>1
  <2>3. On("finalize") = {} /\ o \in Kept
    BY <2>2 DEF Rescued
  <2>4. Kept = Visible \cup Reach(refs, ToFinalize)
    <3>1. ToFinalize \cup On("finalize") = ToFinalize
      BY <2>3
    <3>2. Kept = Visible \cup Reach(refs, ToFinalize \cup On("finalize"))
      BY <1>1, Marks
    <3>3. QED
      BY <3>1, <3>2, Zenon
  <2>5. QED
    BY <2>3, <2>4
<1>7. QED
  BY <1>2, <1>3, <1>5, <1>6

\* The cascade takes back one object, which nobody sees.
LEMMA CascadeTakes ==
  ASSUME IInv, NEW o \in Obj, FreePending(o)
  PROVE  /\ where[o] = "refzero" /\ o \notin Visible
         /\ Live' = Live \ {o}
         /\ refs' = [refs EXCEPT ![o] = {}]
<1> USE DEF FreePending, ending
<1>1. /\ Holders(o) = {} /\ o \notin roots /\ where[o] = "refzero" /\ cur' = cur
      /\ Free(o) /\ roots' = roots /\ stage' = stage
      /\ (On("refzero"))' # {} => pc' = "cascade"
  BY Reading
<1>2. ~Forced
  BY DEF IInv, StagesSettled, Forced
<1>3. /\ where'[o] = "free"
      /\ \A p \in Obj \ {o} : where'[p] = "free" <=> where[p] = "free"
  BY <1>1, <1>2, FreeKeeps
<1>4. refs' = [refs EXCEPT ![o] = {}]
  BY <1>1 DEF Free
<1>5. QED
  BY <1>1, <1>3, <1>4, VisibleCounted DEF Live

\* A finalizer that returns leaves its object where something else refers to it, or,
\* where nothing does, has it taken back.
LEMMA FinalizerReturnsTakes ==
  ASSUME IInv, NEW o \in Obj, FinalizerReturns(o)
  PROVE  /\ Held = {o} /\ Held' = {} /\ o \in finalized /\ where[o] = "finalize"
         /\ \/ /\ Holders(o) = {} /\ o \notin roots
               /\ Live' = Live \ {o} /\ refs' = [refs EXCEPT ![o] = {}]
            \/ Live' = Live /\ refs' = refs
<1> USE DEF FinalizerReturns, ending
<1>1. /\ cur = o /\ cur' = None /\ ~Forced /\ where[o] = "finalize" /\ o \in finalized
      /\ UNCHANGED <<roots, stage, round>>
  BY ObjAssumption DEF FinalizerHolds, IInv, Forced
<1>2. Held = {o} /\ Held' = {}
  BY <1>1, ObjAssumption DEF Held
<1>3. CASE rc[o] = 2
  <2>1. Holders(o) = {} /\ o \notin roots
    <3>1. Holders(o) \in SUBSET Obj
      BY DEF Holders
    <3>2. Cardinality(Holders(o)) = 0 /\ o \notin roots
      BY <1>1, <1>2, <1>3, Reading DEF One
    <3>3. QED
      BY <3>1, <3>2, Counting
  <2>2. Free(o) /\ ((On("refzero"))' # {} => pc' = "cascade")
    BY <1>3
  <2>3. /\ where'[o] = "free"
        /\ \A p \in Obj \ {o} : where'[p] = "free" <=> where[p] = "free"
    BY <1>1, <2>1, <2>2, FreeKeeps
  <2>4. QED
    BY <1>1, <1>2, <2>1, <2>2, <2>3 DEF Live, Free
<1>4. CASE rc[o] # 2
  <2>1. where' = [where EXCEPT ![o] = "heap"] /\ refs' = refs
    BY <1>4
  <2>2. QED
    BY <1>1, <1>2, <2>1 DEF Live, IInv, TypeOK
<1>5. QED
  BY <1>3, <1>4

-----------------------------------------------------------------------------
\* In a step of code that only rearranges references no object is freed; the others free
\* what the lemmas above say, and the end of the heap frees all there is.
LEMMA StepFinalizes ==
  ASSUME IInv, Next, NEW o \in Obj, where[o] # "free", o \in hasFin, where'[o] = "free"
  PROVE  o \in finalized \/ round.count > 0
<1> USE DEF lists, control, ending
<1>1. ASSUME NEW p \in Obj, Alloc(p) PROVE FALSE
  BY <1>1 DEF Alloc, IInv, TypeOK
<1>2. ASSUME NEW p \in Obj, Hold(p) \/ SetFinalizer(p) PROVE FALSE
  BY <1>2 DEF Hold, SetFinalizer
<1>3. ASSUME NEW p \in Obj, FreePending(p) PROVE o \in finalized
  <2>1. where[p] = "refzero" /\ Live' = Live \ {p}
    BY <1>3, CascadeTakes
  <2>2. o = p
    BY <2>1 DEF Live
  <2>3. QED
    BY <2>1, <2>2 DEF CascadeFinalized, IInv
<1>4. ASSUME NEW p \in Obj, CallFinalizer(p) \/ VisitForced(p) \/ ForcedReturns(p) PROVE FALSE
  BY <1>4 DEF CallFinalizer, VisitForced, ForcedReturns
<1>5. ASSUME NEW p \in Obj, FinalizerReturns(p) PROVE o \in finalized
  <2>1. p \in finalized /\ (Live' = Live \ {p} \/ Live' = Live)
    BY <1>5, FinalizerReturnsTakes
  <2>2. QED
    BY <2>1 DEF Live
<1>6. ASSUME NEW p \in Obj, SkipFinalizer(p) PROVE FALSE
  BY <1>6 DEF SkipFinalizer, IInv, TypeOK
<1>7. ASSUME NEW p \in Obj, NEW b \in Obj, Link(p, b) PROVE FALSE
  BY <1>7 DEF Link
<1>8. ASSUME NEW p \in Obj, NEW quiet \in BOOLEAN, Drop(p, quiet) PROVE FALSE
  <2>1. rc[p] > One(where[p] = "finalize") /\ DecRefs(where, rc, {p})
    BY <1>8, Reading DEF Drop, One
  <2>2. QED
    BY <2>1, DecRefFreesNone
<1>9. ASSUME NEW a \in Obj, NEW b \in Obj, NEW quiet \in BOOLEAN, Unlink(a, b, quiet)
      PROVE  FALSE
  <2>1. a \in Holders(b) /\ Holders(b) \in SUBSET Obj
    BY <1>9 DEF Unlink, Holders
  <2>2. rc[b] > One(where[b] = "finalize") /\ DecRefs(where, rc, {b})
    BY <1>9, <2>1, Reading, Counting DEF Unlink, One
  <2>3. QED
    BY <2>2, DecRefFreesNone
<1>10. ASSUME MarkAndSweep PROVE o \in finalized
  BY <1>10, SweepTakes DEF Live
<1>11. ASSUME ListDone \/ StartForced PROVE FALSE
  BY <1>11 DEF ListDone, StartForced
<1>12. ASSUME EndRound PROVE o \in finalized \/ round.count > 0
  <2>1. round.todo = {} /\ Forced /\ cur = None /\ pc = "code" /\ round.count \in Nat
    BY <1>12 DEF EndRound, Idle, IInv, TypeOK
  <2>2. On("finalize") = {} /\ where[o] # "refzero"
    BY <2>1 DEF StagesSettled, ListsSound, IInv, Forced
  <2>3. o \in On("heap")
    BY <2>2 DEF On, IInv, TypeOK
  <2>4. QED
    BY <2>1, <2>3 DEF RoundSound, IInv
<1>13. QED
  BY <1>1, <1>2, <1>3, <1>4, <1>5, <1>6, <1>7, <1>8, <1>9, <1>10, <1>11, <1>12
     DEF Next, Collect, DestroyCollects

\* Finalizers come first: whichever way an object with a finalizer goes, by the cascade,
\* after its finalizer, in a collection or with the heap, its finalizer was called, unless
\* the limit on the last rounds cut them short; and the last rounds begin with no object
\* taken for finalized.
THEOREM FinalizersFirst == Spec => FinalizedFirst
<1>1. IInv /\ [Next]_vars =>
        [/\ \A o \in Live \cap hasFin :
              where'[o] = "free" => (o \in finalized \/ round.count > 0)
         /\ (stage = "gc3" /\ stage' = "forced") => Visible \cap finalized = {}]_vars
  <2> SUFFICES ASSUME IInv, Next
               PROVE  /\ \A o \in Live \cap hasFin :
                           where'[o] = "free" => (o \in finalized \/ round.count > 0)
                      /\ stage = "gc3" => Visible \cap finalized = {}
    OBVIOUS
  <2>1. \A o \in Live \cap hasFin : where'[o] = "free" => (o \in finalized \/ round.count > 0)
    BY StepFinalizes DEF Live
  <2>2. stage = "gc3" => Visible \cap finalized = {}
    BY DEF StagesSettled, IInv
  <2>3. QED
    BY <2>1, <2>2
<1>2. QED
  BY <1>1, Invariance, PTL DEF Spec, FinalizedFirst

-----------------------------------------------------------------------------
\* The steps that take the mark of the finalizer away from an object that stays on
\* heap_allocated are the collections.
LEMMA StepRescues ==
  ASSUME IInv, Next, NEW o \in finalized \ finalized', where[o] = "heap", where'[o] = "heap"
  PROVE  o \in Visible \cup Reach(refs, ToFinalize)
<1> USE DEF lists, control, ending
<1>1. ASSUME NEW p \in Obj, \/ Alloc(p) \/ Hold(p) \/ SetFinalizer(p) \/ SkipFinalizer(p)
                            \/ ForcedReturns(p)
      PROVE  FALSE
  BY <1>1 DEF Alloc, Hold, SetFinalizer, SkipFinalizer, ForcedReturns
<1>2. ASSUME NEW p \in Obj, FreePending(p) PROVE FALSE
  <2>1. where[p] = "refzero" /\ finalized' = finalized \ {p}
    BY <1>2 DEF FreePending, Free
  <2>2. QED
    BY <2>1
<1>3. ASSUME NEW p \in Obj, CallFinalizer(p) \/ VisitForced(p) PROVE FALSE
  BY <1>3 DEF CallFinalizer, VisitForced
<1>4. ASSUME NEW p \in Obj, FinalizerReturns(p) PROVE FALSE
  <2>1. where[p] = "finalize"
    BY <1>4, FinalizerReturnsTakes
  <2>2. finalized' \in {finalized, finalized \ {p}}
    BY <1>4 DEF FinalizerReturns, Free
  <2>3. QED
    BY <2>1, <2>2
<1>5. ASSUME NEW p \in Obj, NEW b \in Obj, Link(p, b) PROVE FALSE
  BY <1>5 DEF Link
<1>6. ASSUME NEW p \in Obj, NEW b \in Obj, NEW quiet \in BOOLEAN,
             Drop(p, quiet) \/ Unlink(p, b, quiet)
      PROVE  FALSE
  BY <1>6 DEF Drop, Unlink
<1>7. ASSUME MarkAndSweep PROVE o \in Visible \cup Reach(refs, ToFinalize)
  BY <1>7, SweepTakes
<1>8. ASSUME ListDone \/ StartForced PROVE FALSE
  BY <1>8 DEF ListDone, StartForced
<1>9. ASSUME EndRound PROVE FALSE
  <2>1. \/ where' = [p \in Obj |-> "free"]
        \/ finalized' = finalized
    BY <1>9 DEF EndRound
  <2>2. o \in Obj
    BY Sets DEF IInv
  <2>3. QED
    BY <2>1, <2>2
<1>10. QED
  BY <1>1, <1>2, <1>3, <1>4, <1>5, <1>6, <1>7, <1>8, <1>9 DEF Next, Collect, DestroyCollects

\* Rescue is justified: a collection clears the mark of the finalizer only from objects
\* that the program sees, or that an object found dead in this same collection keeps.
THEOREM RescuesJustified == Spec => RescueJustified
<1>1. IInv /\ [Next]_vars =>
        [\A o \in finalized \ finalized' :
           (where[o] = "heap" /\ where'[o] = "heap")
             => o \in Visible \cup Reach(refs, ToFinalize)]_vars
  BY StepRescues
<1>2. QED
  BY <1>1, Invariance, PTL DEF Spec, RescueJustified

-----------------------------------------------------------------------------
\* The refinement: what the program sees in the heap is what it sees in ObjectMemory.
LEMMA SameVisible ==
  ASSUME IInv
  PROVE  Memory!Visible = Visible /\ Visible \subseteq Live
<1>1. Visible \subseteq Live
  BY VisibleCounted DEF Live
<1>2. QED
  BY <1>1 DEF Memory!Visible, Visible, Memory!Reach, Reach, Memory!Closed, Closed

\* The steps of code: it creates an object, assigns a variable or stores in an object.
LEMMA CodeMaps ==
  ASSUME IInv, NEW a \in Obj, NEW b \in Obj, NEW quiet \in BOOLEAN
  PROVE  /\ Alloc(a) => Memory!Create
         /\ Hold(a) \/ Drop(a, quiet) => Memory!Assign
         /\ Link(a, b) \/ Unlink(a, b, quiet) => Memory!Store
         /\ SetFinalizer(a) => UNCHANGED Memory!vars
<1> USE DEF lists, control, ending
<1>1. ASSUME Alloc(a) PROVE Memory!Create
  <2>1. a \in Obj \ Live /\ Live' = Live \cup {a} /\ Held' = Held
        /\ roots' = roots \cup {a} /\ refs' = refs
    BY <1>1 DEF Alloc, Live, Held, IInv, TypeOK
  <2>2. QED
    BY <2>1 DEF Memory!Create
<1>2. ASSUME Hold(a) PROVE Memory!Assign
  <2>1. a \in Visible /\ roots' = roots \cup {a} /\ Live' = Live /\ Held' = Held /\ refs' = refs
    BY <1>2 DEF Hold, Live, Held
  <2>2. QED
    BY <2>1, SameVisible DEF Memory!Assign
<1>3. ASSUME Drop(a, quiet) PROVE Memory!Assign
  <2>1. rc[a] > One(where[a] = "finalize") /\ DecRefs(where, rc, {a})
    BY <1>3, Reading DEF Drop, One
  <2>2. Live' = Live
    BY <2>1, DecRefFreesNone DEF Live
  <2>3. a \in roots /\ roots' = roots \ {a} /\ Held' = Held /\ refs' = refs
    BY <1>3 DEF Drop, Held
  <2>4. QED
    BY <2>2, <2>3 DEF Memory!Assign
<1>4. ASSUME Link(a, b) PROVE Memory!Store
  <2>1. a \in Visible /\ b \in Visible /\ refs' = [refs EXCEPT ![a] = @ \cup {b}]
        /\ Live' = Live /\ Held' = Held /\ roots' = roots
    BY <1>4 DEF Link, Live, Held
  <2>2. QED
    BY <2>1, SameVisible DEF Memory!Store
<1>5. ASSUME Unlink(a, b, quiet) PROVE Memory!Store
  <2>1. a \in Holders(b) /\ Holders(b) \in SUBSET Obj
    BY <1>5 DEF Unlink, Holders
  <2>2. rc[b] > One(where[b] = "finalize") /\ DecRefs(where, rc, {b})
    BY <1>5, <2>1, Reading, Counting DEF Unlink, One
  <2>3. Live' = Live
    BY <2>2, DecRefFreesNone DEF Live
  <2>4. a \in Visible /\ b \in refs[a] /\ refs' = [refs EXCEPT ![a] = @ \ {b}]
        /\ Held' = Held /\ roots' = roots
    BY <1>5 DEF Unlink, Held
  <2>5. QED
    BY <2>3, <2>4, SameVisible DEF Memory!Store
<1>6. ASSUME SetFinalizer(a) PROVE UNCHANGED Memory!vars
  BY <1>6 DEF SetFinalizer, Memory!vars, Live, Held
<1>7. QED
  BY <1>1, <1>2, <1>3, <1>4, <1>5, <1>6

\* The steps that take memory back where nobody can look.
LEMMA CollectorMaps ==
  ASSUME IInv
  PROVE  /\ \A o \in Obj : FreePending(o) => Memory!Reclaim
         /\ \A quiet \in BOOLEAN : Collect(quiet) => Memory!Reclaim
         /\ DestroyCollects => Memory!Reclaim
         /\ \A o \in Obj : FinalizerReturns(o) => Memory!LeaveFinalizer
         /\ EndRound => Memory!Shutdown \/ UNCHANGED Memory!vars
<1> USE DEF control, ending
<1>1. refs \in [Obj -> SUBSET Obj] /\ roots \in SUBSET Obj
  BY Sets DEF IInv
<1>2. ASSUME NEW o \in Obj, FreePending(o) PROVE Memory!Reclaim
  <2>1. where[o] = "refzero" /\ o \notin Visible /\ Live' = Live \ {o}
        /\ refs' = [refs EXCEPT ![o] = {}]
    BY <1>2, CascadeTakes
  <2>2. refs' = [p \in Obj |-> IF p \in {o} THEN {} ELSE refs[p]]
    BY <1>1, <2>1
  <2>3. {o} \in SUBSET (Live \ Memory!Visible)
    BY <2>1, SameVisible DEF Live
  <2>4. Held' = Held /\ roots' = roots
    BY <1>2 DEF FreePending, Held
  <2>5. Memory!Without({o})
    BY <2>1, <2>2 DEF Memory!Without
  <2>6. QED
    BY <2>3, <2>4, <2>5 DEF Memory!Reclaim
<1>3. ASSUME NEW quiet \in BOOLEAN, Collect(quiet) \/ DestroyCollects PROVE Memory!Reclaim
  <2>1. MarkAndSweep /\ roots' = roots /\ Held' = Held
    BY <1>3 DEF Collect, DestroyCollects, Held
  <2>2. Swept \in SUBSET (Live \ Memory!Visible) /\ Memory!Without(Swept)
    BY <2>1, SweepTakes, SameVisible DEF Memory!Without
  <2>3. QED
    BY <2>1, <2>2 DEF Memory!Reclaim
<1>4. ASSUME NEW o \in Obj, FinalizerReturns(o) PROVE Memory!LeaveFinalizer
  <2>1. roots' = roots /\ Held' = {}
    BY <1>4, FinalizerReturnsTakes DEF FinalizerReturns
  <2>2. CASE Holders(o) = {} /\ o \notin roots
             /\ Live' = Live \ {o} /\ refs' = [refs EXCEPT ![o] = {}]
    <3>1. o \notin Reach(refs, roots)
      BY <1>1, <2>2, ReachCloses, ReachedFrom DEF Holders
    <3>2. Memory!Reach(refs, roots) = Reach(refs, roots)
      BY DEF Memory!Reach, Reach, Memory!Closed, Closed
    <3>3. o \in Live
      BY <1>4, FinalizerReturnsTakes DEF Live
    <3>4. refs' = [p \in Obj |-> IF p \in {o} THEN {} ELSE refs[p]]
      BY <1>1, <2>2
    <3>5. Memory!Without({o})
      BY <2>2, <3>4 DEF Memory!Without
    <3>6. QED
      BY <2>1, <3>1, <3>2, <3>3, <3>5 DEF Memory!LeaveFinalizer
  <2>3. CASE Live' = Live /\ refs' = refs
    <3>1. refs' = [p \in Obj |-> IF p \in {} THEN {} ELSE refs[p]]
      BY <1>1, <2>3
    <3>2. Memory!Without({})
      BY <2>3, <3>1 DEF Memory!Without
    <3>3. QED
      BY <2>1, <3>2 DEF Memory!LeaveFinalizer
  <2>4. QED
    BY <1>4, <2>2, <2>3, FinalizerReturnsTakes
<1>5. ASSUME EndRound PROVE Memory!Shutdown \/ UNCHANGED Memory!vars
  <2>1. Held = {} /\ Held' = {}
    BY <1>5 DEF EndRound, Idle, Held
  <2>2. CASE where' = [p \in Obj |-> "free"] /\ refs' = [p \in Obj |-> {}] /\ roots' = {}
    <3>1. Live' = {}
      BY <2>2 DEF Live
    <3>2. QED
      BY <2>1, <2>2, <3>1 DEF Memory!Shutdown
  <2>3. CASE UNCHANGED <<where, refs, roots>>
    BY <2>1, <2>3 DEF Memory!vars, Live
  <2>4. QED
    BY <1>5, <2>2, <2>3 DEF EndRound
<1>6. QED
  BY <1>2, <1>3, <1>4, <1>5

\* The steps that call finalizers, and those that only move on.
LEMMA FinalizerMaps ==
  ASSUME IInv
  PROVE  /\ \A o \in Obj :
              /\ CallFinalizer(o) => Memory!EnterFinalizer
              /\ VisitForced(o) => Memory!EnterFinalizer \/ UNCHANGED Memory!vars
              /\ ForcedReturns(o) => Memory!LeaveFinalizer
              /\ SkipFinalizer(o) => UNCHANGED Memory!vars
         /\ ListDone \/ StartForced => UNCHANGED Memory!vars
<1> USE DEF lists, control, ending
<1>1. ASSUME NEW o \in Obj, CallFinalizer(o) PROVE Memory!EnterFinalizer
  <2>1. cur = None
    BY <1>1 DEF CallFinalizer, FinalizerHolds, IInv
  <2>2. Held = {} /\ Held' = {o} /\ o \in Live /\ Live' = Live /\ UNCHANGED <<refs, roots>>
    BY <1>1, <2>1, ObjAssumption DEF CallFinalizer, Held, Live
  <2>3. QED
    BY <2>2 DEF Memory!EnterFinalizer
<1>2. ASSUME NEW o \in Obj, VisitForced(o) PROVE Memory!EnterFinalizer \/ UNCHANGED Memory!vars
  <2>1. cur = None /\ o \in Live /\ Live' = Live /\ UNCHANGED <<refs, roots>>
    BY <1>2 DEF VisitForced, Idle, RoundSound, IInv, On, Live
  <2>2. cur' \in {cur, o}
    BY <1>2 DEF VisitForced
  <2>3. CASE cur' = cur
    BY <2>1, <2>3 DEF Memory!vars, Held
  <2>4. CASE cur' = o
    <3>1. Held = {} /\ Held' = {o}
      BY <2>1, <2>4, ObjAssumption DEF Held
    <3>2. QED
      BY <2>1, <3>1 DEF Memory!EnterFinalizer
  <2>5. QED
    BY <2>2, <2>3, <2>4
<1>3. ASSUME NEW o \in Obj, ForcedReturns(o) PROVE Memory!LeaveFinalizer
  <2>1. Held' = {} /\ Live' = Live /\ UNCHANGED <<refs, roots>> /\ refs \in [Obj -> SUBSET Obj]
    BY <1>3 DEF ForcedReturns, Held, Live, IInv, TypeOK
  <2>2. refs' = [p \in Obj |-> IF p \in {} THEN {} ELSE refs[p]]
    BY <2>1
  <2>3. Memory!Without({})
    BY <2>1, <2>2 DEF Memory!Without
  <2>4. QED
    BY <2>1, <2>3 DEF Memory!LeaveFinalizer
<1>4. ASSUME NEW o \in Obj, SkipFinalizer(o) PROVE UNCHANGED Memory!vars
  <2>1. Live' = Live
    BY <1>4 DEF SkipFinalizer, Live, IInv, TypeOK
  <2>2. QED
    BY <1>4, <2>1 DEF SkipFinalizer, Memory!vars, Held
<1>5. ASSUME ListDone \/ StartForced PROVE UNCHANGED Memory!vars
  BY <1>5 DEF ListDone, StartForced, Memory!vars, Held, Live
<1>6. QED
  BY <1>1, <1>2, <1>3, <1>4, <1>5

\* The collector keeps the promise of ObjectMemory: every step of the heap is one of the
\* memory's, or none, and takes back nothing that a program or a finalizer can reach.
THEOREM HeapImplementsMemory == Spec => ImplementsMemory
<1>1. Init => Memory!Init
  BY ObjAssumption DEF Init, Memory!Init, Live, Held
<1>2. IInv /\ [Next]_vars => [Memory!Next]_(Memory!vars)
  <2> SUFFICES ASSUME IInv, [Next]_vars
               PROVE  Memory!Next \/ UNCHANGED Memory!vars
    OBVIOUS
  <2>1. CASE UNCHANGED vars
    BY <2>1 DEF vars, Memory!vars, Live, Held
  <2>2. CASE Next
    <3>1. \A a, b \in Obj : Alloc(a) \/ Hold(a) \/ SetFinalizer(a) \/ Link(a, b) =>
                              Memory!Next \/ UNCHANGED Memory!vars
      BY CodeMaps, TRUE \in BOOLEAN DEF Memory!Next
    <3>2. \A a, b \in Obj, quiet \in BOOLEAN :
            Drop(a, quiet) \/ Unlink(a, b, quiet) => Memory!Next
      BY CodeMaps DEF Memory!Next
    <3>3. QED
      BY <2>2, <3>1, <3>2, CollectorMaps, FinalizerMaps DEF Next, Memory!Next
  <2>3. QED
    BY <2>1, <2>2
<1>3. QED
  BY <1>1, <1>2, Invariance, PTL DEF Spec, ImplementsMemory, Memory!Spec

=============================================================================

-------------------------------- MODULE Heap --------------------------------
(***************************************************************************)
(* The memory of the Duktape engine: reference counting, the mark-and-     *)
(* sweep collector, finalizers and the destruction of the heap             *)
(* (src/duktape/duktape.c, the files duk_heap_*.c it is made of).          *)
(*                                                                         *)
(* The program is any code that runs in the engine.  Its variables are the *)
(* properties of the global object (roots), so that a finalizer reaches    *)
(* them too; an object refers to a set of others.  A finalizer is code     *)
(* that may do all the program may, and holds the object it was called     *)
(* with.  Reference counting runs inside the program's steps, one object   *)
(* freed per step; mark-and-sweep calls nobody back and is one step.  The  *)
(* order within the engine's lists is left open.  Strings and buffers,     *)
(* which refer to nothing, behave as objects without references.           *)
(***************************************************************************)
EXTENDS Reachability, Naturals, FiniteSets

CONSTANTS
  Obj,       \* the objects there is memory for
  None,      \* no object
  MaxRefs,   \* how many references between objects there may be at once
  BaseCount, \* objects of the engine itself, which no program frees
  Mark(_, _, _)  \* what is marked in a graph from some objects, after others

ASSUME ObjAssumption == IsFiniteSet(Obj) /\ None \notin Obj
ASSUME BoundsAssumption == MaxRefs \in Nat /\ BaseCount \in Nat \ {0}

\* Marking (module Marking) finds what there is to find, and stops at objects an
\* earlier phase has finished with.
ASSUME MarkAssumption ==
  \A g \in [Obj -> SUBSET Obj], S, done \in SUBSET Obj :
    Closed(g, done) => Mark(g, S, done) = done \cup Reach(g, S)

VARIABLES
  where,       \* the list an object is on: heap_allocated, refzero_list, finalize_list
  refs,        \* the objects it refers to
  rc,          \* h_refcount
  hasFin,      \* objects with a finalizer (DUK_HOBJECT_FLAG_HAVE_FINALIZER)
  finalizable, \* objects with DUK_HEAPHDR_FLAG_FINALIZABLE
  finalized,   \* objects with DUK_HEAPHDR_FLAG_FINALIZED
  roots,       \* the objects the global variables hold
  cur,         \* the object whose finalizer runs
  hadZero,     \* had_zero_refcount of duk_heap_process_finalize_list
  pc,          \* who works: code, the refzero cascade or the finalize_list loop
  back,        \* who called the cascade
  stage,       \* how far duk_heap_free has come
  round        \* the state of duk__free_run_finalizers

lists == <<where, rc, finalizable>>
control == <<cur, hadZero, pc, back>>
ending == <<stage, round>>
vars == <<where, refs, rc, hasFin, finalizable, finalized, roots,
          cur, hadZero, pc, back, stage, round>>

NoRound == [todo |-> {}, all |-> 0, count |-> 0, limit |-> 0, first |-> TRUE]

Init ==
  /\ where = [o \in Obj |-> "free"]
  /\ refs = [o \in Obj |-> {}]
  /\ rc = [o \in Obj |-> 0]
  /\ hasFin = {}
  /\ finalizable = {}
  /\ finalized = {}
  /\ roots = {}
  /\ cur = None
  /\ hadZero = FALSE
  /\ pc = "code"
  /\ back = "code"
  /\ stage = "live"
  /\ round = NoRound

-----------------------------------------------------------------------------
On(list) == {o \in Obj : where[o] = list}
Live == {o \in Obj : where[o] # "free"}

\* The object on the finalizer's stack: duk_heap_run_finalizer pushes it.
Held == {cur} \ {None}

\* What the code that runs can get hold of.
Visible == Reach(refs, roots \cup Held)

One(b) == IF b THEN 1 ELSE 0

\* ms_running = 2: the last finalizers before the heap goes.
Forced == stage = "forced"

\* The program runs until it destroys the heap; finalizers run after that too.
Running ==
  /\ pc = "code"
  /\ stage = "live" \/ cur # None

\* duk_heap_process_finalize_list does nothing while it is at work already.
\* (pf_prevent_count # 0)
Processing == cur # None \/ pc = "loop"

-----------------------------------------------------------------------------
(***************************************************************************)
(* Reference counting.  DecRefs takes one reference away from each member  *)
(* of S in a heap whose other changes are in w (the lists) and c (the      *)
(* counts).  An object nobody refers to any more waits on finalize_list,   *)
(* with a reference of its own, if its finalizer still has to run, and on  *)
(* refzero_list if not; when the heap is being destroyed it stays.         *)
(***************************************************************************)
DecRefsUnbumped(w, c, S) ==      \* Faulty: finalize_list holds no reference
  LET zero == {o \in S : c[o] = 1 /\ ~Forced}
      late == {o \in zero : o \in hasFin /\ o \notin finalized}
  IN  /\ where' = [o \in Obj |-> CASE o \in late -> "finalize"
                                   [] o \in zero \ late -> "refzero"
                                   [] OTHER -> w[o]]
      /\ rc' = [o \in Obj |-> c[o] - One(o \in S)]
      /\ finalizable' = finalizable \cup late

DecRefs(w, c, S) ==
  LET zero == {o \in S : c[o] = 1 /\ ~Forced}
      late == {o \in zero : o \in hasFin /\ o \notin finalized}
  IN  /\ where' = [o \in Obj |-> CASE o \in late -> "finalize"
                                   [] o \in zero \ late -> "refzero"
                                   [] OTHER -> w[o]]
      /\ rc' = [o \in Obj |-> c[o] - One(o \in S \ late)]
      /\ finalizable' = finalizable \cup late

\* An object that is freed drops what it refers to; its memory may be given out
\* again.  The counts go down with DECREF_NORZ (duk_hobject_refcount_finalize_norz).
Free(o) ==
  /\ DecRefs([where EXCEPT ![o] = "free"], [rc EXCEPT ![o] = 0], refs[o] \ {o})
  /\ refs' = [refs EXCEPT ![o] = {}]
  /\ hasFin' = hasFin \ {o}
  /\ finalized' = finalized \ {o}

\* A DECREF that frees an object frees, before anything else happens, all that
\* hung on it; then the finalizers it left on finalize_list run, unless the
\* caller asked for none (DECREF_NORZ, or pf_prevent_count # 0 in a resize).
AfterDecRef(quiet) ==
  LET next == IF ~quiet /\ ~Processing /\ (On("finalize"))' # {} THEN "loop" ELSE pc
      freeing == (On("refzero"))' # {}
  IN  /\ pc' = IF freeing THEN "cascade" ELSE next
      /\ back' = IF freeing /\ ~quiet /\ ~Processing THEN "loop"
                 ELSE IF freeing THEN pc ELSE "code"

\* Faulty: the cascade stops after one object.
FreePendingOnce(o) ==
  /\ pc = "cascade"
  /\ where[o] = "refzero"
  /\ Free(o)
  /\ pc' = back
  /\ back' = "code"
  /\ UNCHANGED <<roots, cur, hadZero, ending>>

\* duk__refcount_free_pending frees the list's objects, those it adds included.
FreePending(o) ==
  /\ pc = "cascade"
  /\ where[o] = "refzero"
  /\ Free(o)
  /\ pc' = IF (On("refzero"))' # {} THEN "cascade" ELSE back
  /\ back' = IF (On("refzero"))' # {} THEN back ELSE "code"
  /\ UNCHANGED <<roots, cur, hadZero, ending>>

-----------------------------------------------------------------------------
(***************************************************************************)
(* What code does to the graph: the program, and a finalizer.              *)
(***************************************************************************)

\* var o = {}: the new object is on heap_allocated, and the variable counts.
Alloc(o) ==
  /\ Running
  /\ where[o] = "free"
  /\ where' = [where EXCEPT ![o] = "heap"]
  /\ rc' = [rc EXCEPT ![o] = 1]
  /\ roots' = roots \cup {o}
  /\ UNCHANGED <<refs, hasFin, finalizable, finalized, control, ending>>

\* A variable takes an object.
Hold(o) ==
  /\ Running
  /\ o \in Visible \ roots
  /\ roots' = roots \cup {o}
  /\ rc' = [rc EXCEPT ![o] = @ + 1]
  /\ UNCHANGED <<where, refs, hasFin, finalizable, finalized, control, ending>>

\* A variable lets go of an object.
Drop(o, quiet) ==
  /\ Running
  /\ o \in roots
  /\ roots' = roots \ {o}
  /\ DecRefs(where, rc, {o})
  /\ AfterDecRef(quiet)
  /\ UNCHANGED <<refs, hasFin, finalized, cur, hadZero, ending>>

\* a.p = b: one more reference.
Link(a, b) ==
  /\ Running
  /\ {a, b} \subseteq Visible
  /\ b \notin refs[a]
  /\ Cardinality({r \in Obj \X Obj : r[2] \in refs[r[1]]}) < MaxRefs
  /\ refs' = [refs EXCEPT ![a] = @ \cup {b}]
  /\ rc' = [rc EXCEPT ![b] = @ + 1]
  /\ UNCHANGED <<where, hasFin, finalizable, finalized, roots, control, ending>>

\* delete a.p, or the property takes another value.
Unlink(a, b, quiet) ==
  /\ Running
  /\ a \in Visible
  /\ b \in refs[a]
  /\ refs' = [refs EXCEPT ![a] = @ \ {b}]
  /\ DecRefs(where, rc, {b})
  /\ AfterDecRef(quiet)
  /\ UNCHANGED <<hasFin, finalized, roots, cur, hadZero, ending>>

\* Duktape.fin(o, f), and Duktape.fin(o, undefined), which takes it back
\* (duk_set_finalizer).
SetFinalizer(o) ==
  /\ Running
  /\ o \in Visible
  /\ \/ hasFin' = hasFin \cup {o}
     \/ hasFin' = hasFin \ {o}
  /\ UNCHANGED <<lists, refs, finalized, roots, control, ending>>

-----------------------------------------------------------------------------
(***************************************************************************)
(* Mark-and-sweep (duk_heap_mark_and_sweep).  Marked: what the roots and   *)
(* the finalizer's stack reach.  Of the rest, objects whose finalizer has  *)
(* to run go to finalize_list with a reference of their own, and keep all  *)
(* they reach, as does what waits there already.  What is left is freed.   *)
(***************************************************************************)
Marked == Mark(refs, roots \cup Held, {})

ToFinalize == (On("heap") \cap hasFin) \ (finalized \cup Marked)

Kept == Mark(refs, ToFinalize \cup On("finalize"), Marked)

Swept == On("heap") \ Kept

\* Faulty: what is swept keeps its references.
LostForgotten(dead, o) == 0

\* The references that the objects swept held on o (duk__finalize_refcounts).
Lost(dead, o) == Cardinality({x \in dead : o \in refs[x]})

\* Faulty, both: rescue is decided at any time, or never.
RescuedAnyway == finalized \cap On("heap") \cap Kept
RescuedNever == {}

\* An object kept on heap_allocated after its finalizer ran has been rescued: it
\* is finalized again when it dies.  While finalizers are pending, which keep
\* objects alive without anyone wanting them, that is not decided.
Rescued ==
  IF On("finalize") # {} THEN {} ELSE finalized \cap On("heap") \cap Kept

MarkAndSweep ==
  LET dying == ToFinalize
      dead == Swept
  IN  /\ where' = [o \in Obj |-> CASE o \in dead -> "free"
                                   [] o \in dying -> "finalize"
                                   [] OTHER -> where[o]]
      /\ rc' = [o \in Obj |-> IF o \in dead THEN 0
                              ELSE rc[o] - Lost(dead, o) + One(o \in dying)]
      /\ refs' = [o \in Obj |-> IF o \in dead THEN {} ELSE refs[o]]
      /\ finalizable' = finalizable \cup dying
      /\ finalized' = finalized \ (dead \cup Rescued)
      /\ hasFin' = hasFin \ dead

\* A collection the program asks for (Duktape.gc) or an allocation starts, and
\* then the finalizers, unless they are being run already or prevented: quiet is
\* a collection inside a resize or the throw of an error (pf_prevent_count # 0).
Collect(quiet) ==
  /\ Running
  /\ ~Forced
  /\ MarkAndSweep
  /\ pc' = IF quiet \/ Processing THEN pc ELSE "loop"
  /\ UNCHANGED <<roots, cur, hadZero, back, ending>>

-----------------------------------------------------------------------------
(***************************************************************************)
(* duk_heap_process_finalize_list.                                         *)
(***************************************************************************)

\* The next finalizer is called, with its object on the stack.  That the call is
\* refused while a coroutine runs is left to module Coroutine, as is a Proxy, whose
\* finalizer is not called: to the lists and counts either is a finalizer that
\* returns at once.
CallFinalizer(o) ==
  /\ pc = "loop"
  /\ stage # "gc3"
  /\ where[o] = "finalize"
  /\ finalizable' = finalizable \ {o}
  /\ finalized' = finalized \cup {o}
  /\ hadZero' = (rc[o] = 1)
  /\ rc' = [rc EXCEPT ![o] = @ + 1]
  /\ cur' = o
  /\ pc' = "code"
  /\ UNCHANGED <<where, refs, hasFin, roots, back, ending>>

\* Faulty: the object is freed though its finalizer rescued it.
FinalizerFrees(o) ==
  /\ pc = "code"
  /\ cur = o
  /\ ~Forced
  /\ cur' = None
  /\ hadZero' = FALSE
  /\ Free(o)
  /\ pc' = IF (On("refzero"))' # {} THEN "cascade" ELSE "loop"
  /\ back' = IF (On("refzero"))' # {} THEN "loop" ELSE "code"
  /\ UNCHANGED <<roots, ending>>

\* It returns, or throws, and its object is dropped from the stack.  If only the
\* list still refers to it, it is freed; otherwise it goes back to the heap, and
\* mark-and-sweep decides what becomes of it, or, if it was there because its
\* count was zero, it is an ordinary object again at once.
FinalizerReturns(o) ==
  /\ pc = "code"
  /\ cur = o
  /\ ~Forced
  /\ cur' = None
  /\ hadZero' = FALSE
  /\ IF rc[o] = 2
     THEN /\ Free(o)
          /\ pc' = IF (On("refzero"))' # {} THEN "cascade" ELSE "loop"
          /\ back' = IF (On("refzero"))' # {} THEN "loop" ELSE "code"
     ELSE /\ where' = [where EXCEPT ![o] = "heap"]
          /\ rc' = [rc EXCEPT ![o] = @ - 2]
          /\ finalized' = IF hadZero THEN finalized \ {o} ELSE finalized
          /\ pc' = "loop"
          /\ UNCHANGED <<refs, hasFin, finalizable, back>>
  /\ UNCHANGED <<roots, ending>>

\* pf_skip_finalizers: before the last finalizers of all, the list is put back.
SkipFinalizer(o) ==
  /\ pc = "loop"
  /\ stage = "gc3"
  /\ where[o] = "finalize"
  /\ where' = [where EXCEPT ![o] = "heap"]
  /\ rc' = [rc EXCEPT ![o] = @ - 1]
  /\ finalizable' = finalizable \ {o}
  /\ UNCHANGED <<refs, hasFin, finalized, roots, control, ending>>

ListDone ==
  /\ pc = "loop"
  /\ On("finalize") = {}
  /\ pc' = "code"
  /\ UNCHANGED <<lists, refs, hasFin, finalized, roots, cur, hadZero, back, ending>>

-----------------------------------------------------------------------------
(***************************************************************************)
(* duk_heap_free: two collections with finalizers, one without, then the   *)
(* finalizer of every object left that has one, reachable or not, in       *)
(* rounds, because a finalizer may make more.  Nothing is freed meanwhile. *)
(***************************************************************************)
Idle == pc = "code" /\ cur = None

NextStage == [live |-> "gc1", gc1 |-> "gc2", gc2 |-> "gc3"]

DestroyCollects ==
  /\ Idle
  /\ stage \in DOMAIN NextStage
  /\ stage' = NextStage[stage]
  /\ MarkAndSweep
  /\ pc' = "loop"
  /\ UNCHANGED <<roots, cur, hadZero, back, round>>

\* A round walks heap_allocated, to the head of which new objects are added: those
\* a finalizer makes are left to the next round.
StartRound(r) ==
  [todo |-> On("heap"), all |-> 0, count |-> 0, first |-> r.first, limit |-> r.limit]

StartForced ==
  /\ Idle
  /\ stage = "gc3"
  /\ stage' = "forced"
  /\ round' = StartRound(NoRound)
  /\ UNCHANGED <<lists, refs, hasFin, finalized, roots, control>>

\* One object of heap_allocated is looked at, and its finalizer called if it has
\* one that has not run.
VisitForced(o) ==
  /\ Idle
  /\ Forced
  /\ o \in round.todo
  /\ IF o \in hasFin \ finalized
     THEN /\ finalized' = finalized \cup {o}
          /\ rc' = [rc EXCEPT ![o] = @ + 1]
          /\ cur' = o
          /\ round' = [round EXCEPT !.todo = @ \ {o}, !.all = @ + 1, !.count = @ + 1]
     ELSE /\ round' = [round EXCEPT !.todo = @ \ {o}, !.all = @ + 1]
          /\ UNCHANGED <<finalized, rc, cur>>
  /\ UNCHANGED <<where, refs, hasFin, finalizable, roots, hadZero, pc, back, stage>>

ForcedReturns(o) ==
  /\ pc = "code"
  /\ cur = o
  /\ Forced
  /\ cur' = None
  /\ rc' = [rc EXCEPT ![o] = @ - 1]
  /\ UNCHANGED <<where, refs, hasFin, finalizable, finalized, roots, hadZero, pc, back, ending>>

\* A round is over.  The limit on the finalizers it called: twice the objects that
\* were looked at in the first, and a quarter less in each that follows.
EndRound ==
  LET limit == IF round.first THEN 2 * (round.all + BaseCount)
               ELSE (round.limit * 3) \div 4
  IN  /\ Idle
      /\ Forced
      /\ round.todo = {}
      /\ IF round.count = 0 \/ round.count >= limit
         THEN /\ stage' = "gone"
              /\ round' = NoRound
              /\ where' = [o \in Obj |-> "free"]
              /\ refs' = [o \in Obj |-> {}]
              /\ rc' = [o \in Obj |-> 0]
              /\ hasFin' = {}
              /\ finalized' = {}
              /\ roots' = {}
         ELSE /\ round' = StartRound([round EXCEPT !.first = FALSE, !.limit = limit])
              /\ UNCHANGED <<where, refs, rc, hasFin, finalized, roots, stage>>
      /\ UNCHANGED <<finalizable, control>>

-----------------------------------------------------------------------------
Next ==
  \/ \E o \in Obj :
       \/ Alloc(o)
       \/ Hold(o)
       \/ SetFinalizer(o)
       \/ FreePending(o)
       \/ CallFinalizer(o)
       \/ FinalizerReturns(o)
       \/ SkipFinalizer(o)
       \/ VisitForced(o)
       \/ ForcedReturns(o)
       \/ \E b \in Obj : Link(o, b)
  \/ \E quiet \in BOOLEAN :
       \/ \E o \in Obj : Drop(o, quiet)
       \/ \E a, b \in Obj : Unlink(a, b, quiet)
       \/ Collect(quiet)
  \/ ListDone
  \/ DestroyCollects
  \/ StartForced
  \/ EndRound

Spec == Init /\ [][Next]_vars

-----------------------------------------------------------------------------
TypeOK ==
  /\ where \in [Obj -> {"free", "heap", "refzero", "finalize"}]
  /\ refs \in [Obj -> SUBSET Obj]
  /\ rc \in [Obj -> Nat]
  /\ {hasFin, finalizable, finalized, roots} \subseteq SUBSET Obj
  /\ cur \in Obj \cup {None}
  /\ hadZero \in BOOLEAN
  /\ pc \in {"code", "cascade", "loop"}
  /\ back \in {"code", "loop"}
  /\ stage \in {"live", "gc1", "gc2", "gc3", "forced", "gone"}
  /\ round \in [todo : SUBSET Obj, all : Nat, count : Nat, limit : Nat, first : BOOLEAN]

\* A count is the number of references there are, from objects, variables and the
\* stack of a finalizer, plus the one that keeps an object on finalize_list:
\* whatever order assignments, cascades, collections and finalizers come in.  It
\* is zero for memory that was freed, so nothing refers there.
Holders(o) == {x \in Obj : o \in refs[x]}

RefcountsExact ==
  \A o \in Obj :
    rc[o] = Cardinality(Holders(o)) + One(o \in roots) + One(o \in Held)
            + One(where[o] = "finalize")

\* The list an object is on tells what its count and its flags may be: an object
\* nobody refers to is being freed now, or waits for its finalizer, which has not
\* been called yet unless it runs this moment; between two steps of code nothing
\* is left half freed.
ListsSound ==
  \A o \in Obj :
    /\ where[o] \in {"free", "refzero"} => rc[o] = 0
    /\ where[o] = "refzero" => pc = "cascade"
    /\ where[o] = "heap" => (rc[o] > 0 \/ stage \in {"gc3", "forced"})
    /\ o \in finalizable <=> (where[o] = "finalize" /\ o # cur)
    /\ (where[o] = "finalize" /\ o \in finalized) => o = cur

\* An object with a finalizer is not freed before its finalizer was called, by
\* whichever of the ways it goes: only the limit on the last rounds lets one go
\* without.  Of those the program still reaches at the end none is taken for
\* finalized, however often it was rescued: each is called once more.
FinalizedFirst ==
  [][/\ \A o \in Live \cap hasFin :
          where'[o] = "free" => (o \in finalized \/ round.count > 0)
     /\ (stage = "gc3" /\ stage' = "forced") => Visible \cap finalized = {}]_vars

\* A collection takes an object for rescued only because the program can reach it
\* or because an object found dead in the same collection can: never because of
\* what was waiting for its finalizer already.
RescueJustified ==
  [][\A o \in finalized \ finalized' :
       (where[o] = "heap" /\ where'[o] = "heap")
         => o \in Visible \cup Reach(refs, ToFinalize)]_vars

Memory == INSTANCE ObjectMemory WITH live <- Live, held <- Held

\* The collector keeps what ObjectMemory promises: it takes back only what neither
\* the program nor a running finalizer can reach.
ImplementsMemory == Memory!Spec

=============================================================================

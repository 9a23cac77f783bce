---------------------------- MODULE ObjectMemory ----------------------------
(***************************************************************************)
(* What the collector of the Duktape heap promises a program, with no      *)
(* reference counts, no lists and no marks: memory is a graph of objects   *)
(* the program builds, a finalizer may be called with an object that is    *)
(* still there, and memory is only taken back where nobody can look: an    *)
(* object that is reclaimed is reachable neither from the program nor from *)
(* the finalizer that runs.  Module Heap implements it.                    *)
(***************************************************************************)
EXTENDS Reachability

CONSTANT Obj

VARIABLES
  live,   \* the objects that are allocated
  refs,   \* the objects each of them refers to
  roots,  \* the objects the program's variables hold
  held    \* the argument of the finalizer that runs: at most one object

vars == <<live, refs, roots, held>>

Init ==
  /\ live = {}
  /\ refs = [o \in Obj |-> {}]
  /\ roots = {}
  /\ held = {}

\* What running code can get hold of.
Visible == live \cap Reach(refs, roots \cup held)

Create ==
  \E o \in Obj \ live :
    /\ live' = live \cup {o}
    /\ roots' = roots \cup {o}
    /\ UNCHANGED <<refs, held>>

Assign ==
  /\ \/ \E o \in Visible : roots' = roots \cup {o}
     \/ \E o \in roots : roots' = roots \ {o}
  /\ UNCHANGED <<live, refs, held>>

Store ==
  /\ \E a \in Visible :
       \/ \E b \in Visible : refs' = [refs EXCEPT ![a] = @ \cup {b}]
       \/ \E b \in refs[a] : refs' = [refs EXCEPT ![a] = @ \ {b}]
  /\ UNCHANGED <<live, roots, held>>

\* The collector takes back objects of S: memory that is gone refers to nothing.
Without(S) ==
  /\ live' = live \ S
  /\ refs' = [o \in Obj |-> IF o \in S THEN {} ELSE refs[o]]

Reclaim ==
  /\ \E S \in SUBSET (live \ Visible) : Without(S)
  /\ UNCHANGED <<roots, held>>

EnterFinalizer ==
  /\ held = {}
  /\ \E o \in live : held' = {o}
  /\ UNCHANGED <<live, refs, roots>>

\* When the finalizer returns, its argument may be taken back at once.
LeaveFinalizer ==
  /\ held' = {}
  /\ \E S \in SUBSET (live \ Reach(refs, roots)) : Without(S)
  /\ UNCHANGED roots

\* duk_destroy_heap() ends everything, reachable or not.
Shutdown ==
  /\ held = {}
  /\ live' = {}
  /\ refs' = [o \in Obj |-> {}]
  /\ roots' = {}
  /\ UNCHANGED held

Next ==
  \/ Create
  \/ Assign
  \/ Store
  \/ Reclaim
  \/ EnterFinalizer
  \/ LeaveFinalizer
  \/ Shutdown

Spec == Init /\ [][Next]_vars

=============================================================================

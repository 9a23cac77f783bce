----------------------------- MODULE Coroutine -----------------------------
(***************************************************************************)
(* Control flow of the Duktape engine over threads (coroutines), call      *)
(* stacks and the C stack.  A thread has a stack of activations; the       *)
(* bytecode executor runs the ones of several threads in one C frame, a    *)
(* native function that calls back enters a new executor, and errors,      *)
(* resumes and yields all travel as a longjmp to the innermost catchpoint: *)
(* an executor or a protected call.  The program is any sequence of calls, *)
(* returns, throws, try statements, resumes and yields.                    *)
(***************************************************************************)
EXTENDS Integers, Sequences, FiniteSets, FiniteSetsExt

CONSTANTS
  Thread,     \* the threads; Main is the heap thread
  Main,
  None,
  MaxFrames,  \* bound on the activations of all threads together
  MaxCatch,   \* bound on the catchpoints on the C stack
  MaxTry      \* bound on the try statements entered at a time

ASSUME CoroutineAssumption ==
  /\ Main \in Thread
  /\ None \notin Thread
  /\ MaxFrames \in Nat
  /\ MaxCatch \in Nat
  /\ MaxTry \in Nat

VARIABLES
  state,         \* thr->state, "none" before the constructor
  resumer,       \* thr->resumer
  callstack,     \* thr->callstack_curr and its parents
  preventcount,  \* thr->callstack_preventcount
  native,        \* the threads made with a native initial function
  curr,          \* heap->curr_thread, None for NULL
  cstack,        \* the catchpoints: executors and protected calls
  lj,            \* heap->lj while a longjmp is under way
  finalizer      \* of one object: "due", "running", "ran" or "refused"

threads == <<state, resumer, curr>>
stacks == <<callstack, preventcount, cstack>>
vars == <<threads, stacks, native, lj, finalizer>>

-----------------------------------------------------------------------------
(* Activations and catchpoints *)

\* An activation: entry says that an executor was started for it, cat what an
\* enclosing try does with an error ("throwing" and "returning": its finally block
\* runs and holds that completion), to whom a call of resume() resumes.
Activation(kind) ==
  [kind |-> kind, entry |-> FALSE, cat |-> "none", to |-> None, iserror |-> FALSE]

EntryActivation == [Activation("ecma") EXCEPT !.entry = TRUE]

\* DUK_ACT_FLAG_PREVENT_YIELD
Prevents(a) == a.kind # "ecma" \/ a.entry

NoJump == [type |-> "none", to |-> None, iserror |-> FALSE]
Jump(type, to, iserror) == [type |-> type, to |-> to, iserror |-> iserror]
Throw == Jump("throw", None, TRUE)

Depth(t) == Len(callstack[t])
Top(t) == callstack[t][Depth(t)]
Preventing(acts) == Cardinality({i \in DOMAIN acts : Prevents(acts[i])})

\* The bounds on activations and on try statements.
Room == MapThenSumSet(Depth, Thread) < MaxFrames
Tries(t) == Cardinality({i \in DOMAIN callstack[t] : callstack[t][i].cat # "none"})

Catchpoint(kind, t, depth, what) ==
  [kind |-> kind, thr |-> t, depth |-> depth, what |-> what,
   curr |-> curr, state |-> state[t]]

Innermost == cstack[Len(cstack)]
PopC(s) == SubSeq(s, 1, Len(s) - 1)
OnC(what) == \E i \in DOMAIN cstack : cstack[i].what = what

\* Faulty: the call is not counted.
PushUncounted(t, a) ==
  /\ callstack' = [callstack EXCEPT ![t] = Append(@, a)]
  /\ UNCHANGED preventcount

\* Activations of t after a push, a pop, or a change of the one on top.
Push(t, a) ==
  /\ callstack' = [callstack EXCEPT ![t] = Append(@, a)]
  /\ preventcount' = [preventcount EXCEPT ![t] = @ + (IF Prevents(a) THEN 1 ELSE 0)]

\* duk_hthread_activation_unwind_norz
UnwindTo(t, depth) ==
  /\ callstack' = [callstack EXCEPT ![t] = SubSeq(@, 1, depth)]
  /\ preventcount' =
       [preventcount EXCEPT ![t] = @ - Preventing(SubSeq(callstack[t], depth + 1, Depth(t)))]

SetCat(t, cat) == callstack' = [callstack EXCEPT ![t][Depth(t)].cat = cat]

\* Who has control when no longjmp is under way: the activation on top of the
\* current thread, or the C function of the innermost protected call.
Quiet == lj = NoJump /\ cstack # <<>>
InCode == Quiet /\ Innermost.kind = "executor"
InEcma == InCode /\ Top(curr).kind = "ecma"
InNative == InCode /\ Top(curr).kind = "native"
InProtected == Quiet /\ Innermost.kind = "safe"

\* An errThrow handler (duk_err_augment_error_throw) may run in a resume or yield
\* that passes an error, after its checks and before its longjmp.
InHandler ==
  /\ InCode
  /\ Top(curr).kind \in {"resume", "yield"}
  /\ Top(curr).iserror
  /\ ~OnC("errThrow")

-----------------------------------------------------------------------------
Init ==
  /\ state = [t \in Thread |-> IF t = Main THEN "inactive" ELSE "none"]
  /\ resumer = [t \in Thread |-> None]
  /\ callstack = [t \in Thread |-> <<>>]
  /\ preventcount = [t \in Thread |-> 0]
  /\ native = {}
  /\ curr = None
  /\ cstack = <<>>
  /\ lj = NoJump
  /\ finalizer = "due"

-----------------------------------------------------------------------------
(* Calls *)

\* duk_handle_safe_call up to the C function: the catchpoint, then
\* duk__call_thread_state_update, whose error the catchpoint itself catches.
Callable(t) == IF t = curr THEN state[t] = "running" ELSE state[t] = "inactive"

StartSafe(t, what) ==
  /\ Len(cstack) < MaxCatch
  /\ cstack' = Append(cstack, Catchpoint("safe", t, Depth(t), what))
  /\ preventcount' = [preventcount EXCEPT ![t] = @ + 1]
  /\ IF Callable(t)
     THEN /\ curr' = t
          /\ state' = [state EXCEPT ![t] = "running"]
          /\ lj' = NoJump
     ELSE /\ lj' = Throw
          /\ UNCHANGED <<curr, state>>
  /\ UNCHANGED <<resumer, callstack, native>>

\* The host, a native function or the augmentation of an error makes a protected
\* call on the current thread.
ProtectedCall ==
  /\ \/ /\ curr = None
        /\ lj = NoJump
        /\ StartSafe(Main, "host")
     \/ InNative /\ StartSafe(curr, "pcall")
     \/ InHandler /\ StartSafe(curr, "errThrow")
  /\ UNCHANGED finalizer

\* A reference is dropped or a collection ends while code runs, and an object has
\* a finalizer: it is called on the heap thread, whoever is current.  Once called
\* it is not called again (duk_heap_run_finalizer).  Nothing is dropped between the
\* checks of resume() or yield() and their longjmp.  The finalizers still due when the
\* protected call of an errThrow handler is over (the end of duk_handle_safe_call) run
\* here before it is over, while the handler is: on the same threads, in the same state.
RunFinalizer ==
  /\ lj = NoJump
  /\ InCode => Top(curr).kind \in {"ecma", "native"}
  /\ finalizer = "due"
  /\ StartSafe(Main, "finalizer")
  /\ finalizer' = IF Callable(Main) THEN "running" ELSE "refused"

\* The C function or the native function calls ECMAScript code: a new executor.
EnterExecutor ==
  /\ \/ InNative
     \/ InProtected
  /\ Len(cstack) < MaxCatch
  /\ Room
  /\ cstack' = Append(cstack, Catchpoint("executor", curr, Depth(curr) + 1, "call"))
  /\ Push(curr, EntryActivation)
  /\ UNCHANGED <<threads, native, lj, finalizer>>

\* duk__executor_handle_call: ECMAScript code is run by the executor that is
\* there, a native function is called.
Call(kind) ==
  /\ InEcma
  /\ Room
  /\ Push(curr, Activation(kind))
  /\ UNCHANGED <<threads, cstack, native, lj, finalizer>>

NativeReturns ==
  /\ InNative
  /\ UnwindTo(curr, Depth(curr) - 1)
  /\ UNCHANGED <<threads, cstack, native, lj, finalizer>>

\* An error: the longjmp goes to the innermost catchpoint.
Raise ==
  /\ InEcma \/ InNative \/ InProtected
  /\ lj' = Throw
  /\ UNCHANGED <<threads, stacks, native, finalizer>>

\* What a finalizer's protected call leaves in the history.
Finished(what) ==
  finalizer' = IF what = "finalizer" /\ finalizer = "running" THEN "ran" ELSE finalizer

\* The rest of duk_handle_safe_call, both paths.
LeaveSafe ==
  LET c == Innermost
  IN  /\ cstack' = PopC(cstack)
      /\ callstack' = [callstack EXCEPT ![c.thr] = SubSeq(@, 1, c.depth)]
      /\ preventcount' =
           [preventcount EXCEPT ![c.thr] =
              @ - 1 - Preventing(SubSeq(callstack[c.thr], c.depth + 1, Depth(c.thr)))]
      /\ curr' = c.curr
      /\ state' = [state EXCEPT ![c.thr] = c.state]
      /\ lj' = NoJump
      /\ Finished(c.what)
      /\ UNCHANGED <<resumer, native>>

SafeReturns == InProtected /\ LeaveSafe

-----------------------------------------------------------------------------
(* try statements *)

Try(cat) ==
  /\ InEcma
  /\ Top(curr).cat = "none"
  /\ MapThenSumSet(Tries, Thread) < MaxTry
  /\ SetCat(curr, cat)
  /\ UNCHANGED <<threads, preventcount, cstack, native, lj, finalizer>>

\* The protected block is left, or a finally block drops the completion it holds.
EndTry ==
  /\ InEcma
  /\ Top(curr).cat # "none"
  /\ SetCat(curr, "none")
  /\ UNCHANGED <<threads, preventcount, cstack, native, lj, finalizer>>

-----------------------------------------------------------------------------
(* duk__handle_return *)

IsEntry(t) == Innermost.thr = t /\ Innermost.depth = Depth(t)

\* Faulty: the thread that answers keeps its resumer.
BackToStillLinked(r, t, s) ==
  /\ state' = [state EXCEPT ![t] = s, ![r] = "running"]
  /\ UNCHANGED resumer
  /\ curr' = r

\* "running" again, with the thread that had resumed it gone from the chain.
BackTo(r, t, s) ==
  /\ state' = [state EXCEPT ![t] = s, ![r] = "running"]
  /\ resumer' = [resumer EXCEPT ![t] = None]
  /\ curr' = r

ReturnTo(t) ==
  IF Top(t).cat = "finally"
  THEN SetCat(t, "returning") /\ UNCHANGED <<threads, preventcount, cstack>>
  ELSE IF IsEntry(t)
       THEN /\ UnwindTo(t, Depth(t) - 1)
            /\ cstack' = PopC(cstack)
            /\ curr' = Innermost.curr
            /\ state' = [state EXCEPT ![t] = Innermost.state]
            /\ UNCHANGED resumer
       ELSE IF Depth(t) >= 2
            THEN UnwindTo(t, Depth(t) - 1) /\ UNCHANGED <<threads, cstack>>
            ELSE LET r == resumer[t]
                 IN  /\ callstack' = [callstack EXCEPT ![t] = <<>>,
                                                       ![r] = SubSeq(@, 1, Depth(r) - 1)]
                     /\ preventcount' = [preventcount EXCEPT ![r] = @ - 1]
                     /\ BackTo(r, t, "terminated")
                     /\ UNCHANGED cstack

Return ==
  /\ InEcma
  /\ Top(curr).cat \notin {"throwing", "returning"}
  /\ ReturnTo(curr)
  /\ UNCHANGED <<native, lj, finalizer>>

\* The end of a finally block: the completion it holds goes on.
EndFinally ==
  /\ InEcma
  /\ \/ /\ Top(curr).cat = "returning"
        /\ ReturnTo(curr)
        /\ UNCHANGED lj
     \/ /\ Top(curr).cat = "throwing"
        /\ lj' = Throw
        /\ UNCHANGED <<threads, stacks>>
  /\ UNCHANGED <<native, finalizer>>

-----------------------------------------------------------------------------
(* Duktape.Thread *)

New(t, isNative) ==
  /\ InEcma
  /\ state[t] = "none"
  /\ state' = [state EXCEPT ![t] = "inactive"]
  /\ native' = IF isNative THEN native \cup {t} ELSE native
  /\ UNCHANGED <<resumer, curr, stacks, lj, finalizer>>

\* Faulty: a thread that has ended begins anew.
ResumableAgain(t) ==
  \/ state[t] \in {"yielded", "terminated"}
  \/ state[t] = "inactive" /\ callstack[t] = <<>> /\ t \notin native

\* The checks of resume(): an ECMAScript caller, and a thread that waits in a
\* yield or has not begun.
Resumable(t) ==
  \/ state[t] = "yielded"
  \/ state[t] = "inactive" /\ callstack[t] = <<>> /\ t \notin native

CallResume(t, iserror) ==
  /\ InEcma \/ InNative
  /\ Room
  /\ state[t] # "none"
  /\ Push(curr, [Activation("resume") EXCEPT !.to = t, !.iserror = iserror])
  /\ lj' = IF InEcma /\ Resumable(t) THEN NoJump ELSE Throw
  /\ UNCHANGED <<threads, cstack, native, finalizer>>

\* Faulty: the calls in between are not looked at.
YieldableAnywhere == resumer[curr] # None /\ InEcma

\* The checks of yield(): a resumer, an ECMAScript caller, and no call but this
\* one that could not be left and come back to.
Yieldable == resumer[curr] # None /\ InEcma /\ preventcount[curr] + 1 = 1

CallYield(iserror) ==
  /\ InEcma \/ InNative
  /\ Room
  /\ Push(curr, [Activation("yield") EXCEPT !.iserror = iserror])
  /\ lj' = IF Yieldable THEN NoJump ELSE Throw
  /\ UNCHANGED <<threads, cstack, native, finalizer>>

\* The checks passed, and the handler was run if there is one: the longjmp.
LongjmpFromThread ==
  /\ InCode
  /\ Top(curr).kind \in {"resume", "yield"}
  /\ lj' = Jump(Top(curr).kind, Top(curr).to, Top(curr).iserror)
  /\ UNCHANGED <<threads, stacks, native, finalizer>>

-----------------------------------------------------------------------------
(* duk__handle_longjmp, one branch of its switch at a time *)

Handling(type) == lj.type = type /\ Innermost.kind = "executor"

SwitchTo(t) ==
  /\ resumer' = [resumer EXCEPT ![t] = curr]
  /\ state' = [state EXCEPT ![t] = "running", ![curr] = "resumed"]
  /\ curr' = t

\* A resume with an error becomes a throw in the thread resumed.
ResumeError ==
  /\ Handling("resume")
  /\ lj.iserror
  /\ SwitchTo(lj.to)
  /\ lj' = Throw
  /\ UNCHANGED <<stacks, native, finalizer>>

\* A resume with a value: yield() returns it, or the initial call is set up.
ResumeValue ==
  /\ Handling("resume")
  /\ ~lj.iserror
  /\ SwitchTo(lj.to)
  /\ IF state[lj.to] = "yielded"
     THEN UnwindTo(lj.to, Depth(lj.to) - 1)
     ELSE Push(lj.to, Activation("ecma"))
  /\ lj' = NoJump
  /\ UNCHANGED <<cstack, native, finalizer>>

YieldError ==
  /\ Handling("yield")
  /\ lj.iserror
  /\ BackTo(resumer[curr], curr, "yielded")
  /\ lj' = Throw
  /\ UNCHANGED <<stacks, native, finalizer>>

YieldValue ==
  /\ Handling("yield")
  /\ ~lj.iserror
  /\ UnwindTo(resumer[curr], Depth(resumer[curr]) - 1)
  /\ BackTo(resumer[curr], curr, "yielded")
  /\ lj' = NoJump
  /\ UNCHANGED <<cstack, native, finalizer>>

Catching == {"catch", "finally"}

\* A catch or finally of the activation on top takes the error.
ThrowCaught ==
  /\ Handling("throw")
  /\ callstack[curr] # <<>>
  /\ Top(curr).cat \in Catching
  /\ SetCat(curr, IF Top(curr).cat = "catch" THEN "none" ELSE "throwing")
  /\ lj' = NoJump
  /\ UNCHANGED <<threads, preventcount, cstack, native, finalizer>>

\* Faulty: only catch clauses are looked for.
ThrowUnwindsPastFinally ==
  /\ Handling("throw")
  /\ callstack[curr] # <<>>
  /\ Top(curr).cat # "catch"
  /\ IF IsEntry(curr)
     THEN cstack' = PopC(cstack) /\ UNCHANGED <<callstack, preventcount>>
     ELSE UnwindTo(curr, Depth(curr) - 1) /\ UNCHANGED cstack
  /\ UNCHANGED <<threads, native, lj, finalizer>>

\* No handler: out of the executor at its entry level, else to the caller.
ThrowUnwinds ==
  /\ Handling("throw")
  /\ callstack[curr] # <<>>
  /\ Top(curr).cat \notin Catching
  /\ IF IsEntry(curr)
     THEN cstack' = PopC(cstack) /\ UNCHANGED <<callstack, preventcount>>
     ELSE UnwindTo(curr, Depth(curr) - 1) /\ UNCHANGED cstack
  /\ UNCHANGED <<threads, native, lj, finalizer>>

\* The thread has nothing left to catch with: it ends, and its resumer throws.
ThrowTerminates ==
  /\ Handling("throw")
  /\ callstack[curr] = <<>>
  /\ BackTo(resumer[curr], curr, "terminated")
  /\ UNCHANGED <<stacks, native, lj, finalizer>>

\* duk__handle_safe_call_error
SafeCatches ==
  /\ lj.type # "none"
  /\ Innermost.kind = "safe"
  /\ LeaveSafe

-----------------------------------------------------------------------------
Next ==
  \/ ProtectedCall \/ RunFinalizer \/ EnterExecutor
  \/ \E kind \in {"ecma", "native"} : Call(kind)
  \/ NativeReturns \/ Raise \/ SafeReturns
  \/ \E cat \in Catching : Try(cat)
  \/ EndTry \/ Return \/ EndFinally
  \/ \E t \in Thread, b \in BOOLEAN : New(t, b) \/ CallResume(t, b)
  \/ \E b \in BOOLEAN : CallYield(b)
  \/ LongjmpFromThread
  \/ ResumeError \/ ResumeValue \/ YieldError \/ YieldValue
  \/ ThrowCaught \/ ThrowUnwinds \/ ThrowTerminates \/ SafeCatches

Spec == Init /\ [][Next]_vars

-----------------------------------------------------------------------------
State == {"none", "inactive", "running", "resumed", "yielded", "terminated"}

TypeOK ==
  /\ state \in [Thread -> State]
  /\ resumer \in [Thread -> Thread \cup {None}]
  /\ \A t \in Thread : \A i \in DOMAIN callstack[t] :
       /\ callstack[t][i].kind \in {"ecma", "native", "resume", "yield"}
       /\ callstack[t][i].cat # "none" => callstack[t][i].kind = "ecma"
       /\ callstack[t][i].to # None <=> callstack[t][i].kind = "resume"
  /\ preventcount \in [Thread -> Nat]
  /\ native \subseteq Thread
  /\ curr \in Thread \cup {None}
  /\ \A i \in DOMAIN cstack : cstack[i].thr \in Thread
  /\ lj.type \in {"none", "resume", "yield", "throw"}
  /\ finalizer \in {"due", "running", "ran", "refused"}

\* One thread runs, the current one, and each thread that resumed another waits
\* in its call of resume() for the very thread that names it as its resumer, which
\* is being run itself: so every answer has one place to go to.
ResumersWait ==
  /\ \A t \in Thread : state[t] = "running" <=> t = curr
  /\ \A t \in Thread : resumer[t] # None =>
       /\ state[t] \in {"running", "resumed"}
       /\ state[resumer[t]] = "resumed"
       /\ callstack[resumer[t]] # <<>>
       /\ Top(resumer[t]).kind = "resume"
       /\ Top(resumer[t]).to = t
  /\ \A r \in Thread : state[r] = "resumed" =>
       \E t \in Thread : resumer[t] = r
  /\ \A t \in Thread \ {Main} :
       state[t] \in {"running", "resumed"} => resumer[t] # None

\* The counter that decides whether a thread may yield counts its activations that
\* forbid it and the protected calls made on it, however they are left.  So a
\* thread that waits in a yield has left nothing behind on the C stack, which
\* others go on to use.
YieldsLeaveNoC ==
  /\ \A t \in Thread :
       preventcount[t] = Preventing(callstack[t])
         + Cardinality({i \in DOMAIN cstack : cstack[i].kind = "safe" /\ cstack[i].thr = t})
  /\ \A i \in DOMAIN cstack :
       /\ state[cstack[i].thr] \in {"running", "resumed"}
       /\ cstack[i].depth <= Depth(cstack[i].thr)
       /\ cstack[i].kind = "executor" =>
            callstack[cstack[i].thr][cstack[i].depth].entry

\* An error never passes a handler that could take it: what an unwinding drops, in
\* its own thread or on the way out of a coroutine, an executor or a protected
\* call, had no catch or finally waiting.
HandlersNotPassed ==
  [][lj.type = "throw" =>
       \A t \in Thread : \A i \in DOMAIN callstack[t] :
         (i > Len(callstack'[t])) => callstack[t][i].cat \notin Catching]_vars

-----------------------------------------------------------------------------
\* A thread with no activation left, or none yet, is over already.
Ends(t) == t # Main /\ state[t] = "running" /\ callstack[t] = <<>>

BeingRun == {t \in Thread : state[t] \in {"running", "resumed"} /\ ~Ends(t)}
Front == IF curr # None /\ Ends(curr) THEN resumer[curr] ELSE curr

\* The threads of a set in a row, each the resumer of the next, the front one last.
Linked(c, by, front) ==
  /\ \A i \in DOMAIN c : by[c[i]] = IF i = 1 THEN None ELSE c[i - 1]
  /\ c # <<>> => c[Len(c)] = front
Row(T, by, front) == CHOOSE c \in [1 .. Cardinality(T) -> T] : Linked(c, by, front)

\* The chain of resumers.
Chain == Row(BeingRun, resumer, Front)

StatusOf ==
  [none |-> "fresh", inactive |-> "fresh", running |-> "active", resumed |-> "active",
   yielded |-> "waiting", terminated |-> "over"]

Promise == INSTANCE ResumeChain WITH
  chain <- Chain,
  status <- [t \in Thread |-> IF Ends(t) THEN "over" ELSE StatusOf[state[t]]]

\* Calls, native code, finally blocks and errors make no difference to what
\* ResumeChain promises.
ImplementsChain == Promise!Spec

\* What duktape.c:50725-50736 says of finalizers: they are guaranteed, each object
\* that has one gets the chance to free what it holds.
FinalizersRun == finalizer # "refused"

=============================================================================

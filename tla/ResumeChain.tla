---------------------------- MODULE ResumeChain ----------------------------
(***************************************************************************)
(* What coroutines promise, with no call stacks, no longjmp and no errors: *)
(* the threads that are being run form a stack.  Resuming one pushes it;   *)
(* when it yields or ends, control goes back to the very thread that       *)
(* resumed it.  Only a thread that has not started, or that waits in a     *)
(* yield, can be resumed, and one that has ended never runs again.         *)
(* Module Coroutine implements it.                                         *)
(***************************************************************************)
EXTENDS Integers, Sequences

CONSTANTS Thread, Main

VARIABLES
  chain,  \* the threads being run, each resumed by the one before it
  status  \* "fresh", "active", "waiting" or "over"

vars == <<chain, status>>

Init ==
  /\ chain = <<>>
  /\ status = [t \in Thread |-> "fresh"]

Running == chain[Len(chain)]

\* The host calls into the heap thread, which is as fresh as before when the call
\* is over.
Enter ==
  /\ chain = <<>>
  /\ chain' = <<Main>>
  /\ status' = [status EXCEPT ![Main] = "active"]

Leave ==
  /\ chain = <<Main>>
  /\ chain' = <<>>
  /\ status' = [status EXCEPT ![Main] = "fresh"]

Resume(t) ==
  /\ chain # <<>>
  /\ status[t] \in {"fresh", "waiting"}
  /\ chain' = Append(chain, t)
  /\ status' = [status EXCEPT ![t] = "active"]

\* The running thread gives control back, to wait or for good.
Answer(s) ==
  /\ Len(chain) > 1
  /\ chain' = SubSeq(chain, 1, Len(chain) - 1)
  /\ status' = [status EXCEPT ![Running] = s]

\* A thread resumed with an error it has nothing to catch with ends at once.
Cancel(t) ==
  /\ chain # <<>>
  /\ status[t] = "fresh"
  /\ status' = [status EXCEPT ![t] = "over"]
  /\ UNCHANGED chain

Next ==
  \/ Enter
  \/ Leave
  \/ \E t \in Thread : Resume(t) \/ Cancel(t)
  \/ \E s \in {"waiting", "over"} : Answer(s)

Spec == Init /\ [][Next]_vars

=============================================================================

---------------------------- MODULE ScriptVerdict ----------------------------
(***************************************************************************)
(* What a CKB script built from this repository promises the chain that    *)
(* runs it: the JavaScript its caller asks for runs at most once, and the  *)
(* script accepts only when nothing was asked for or when the code that    *)
(* was asked for has run to its end without an error.                      *)
(***************************************************************************)
CONSTANTS
  Requests,           \* what callers may ask for
  Idle,               \* the request to run nothing
  Runnable,           \* the requests that name a code
  Good                \* those whose code ends without an error

VARIABLES
  asked,              \* the request
  ran,                \* the set of requests whose code was started
  verdict             \* "pending", "accept", "reject" or "crash"

vars == << asked, ran, verdict >>

Init == asked \in Requests /\ ran = {} /\ verdict = "pending"

Start ==
  /\ verdict = "pending" /\ ran = {} /\ asked \in Runnable
  /\ ran' = {asked}
  /\ UNCHANGED << asked, verdict >>

Accept ==
  /\ verdict = "pending"
  /\ asked = Idle \/ (ran = {asked} /\ asked \in Good)
  /\ verdict' = "accept"
  /\ UNCHANGED << asked, ran >>

\* A code of failure, or a death of the machine.
Refuse ==
  /\ verdict = "pending"
  /\ verdict' \in {"reject", "crash"}
  /\ UNCHANGED << asked, ran >>

Next == Start \/ Accept \/ Refuse
Spec == Init /\ [][Next]_vars
==============================================================================

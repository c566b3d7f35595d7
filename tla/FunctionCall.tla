---------------------------- MODULE FunctionCall ----------------------------
(***************************************************************************)
(* What a worker process promises runCode, with no pipes and no commands:  *)
(* one call at a time, answered with what the function's output buffer     *)
(* holds.  The buffer is private to the worker and outlives the call: a    *)
(* function that sets no output is answered with the output set last.  A   *)
(* call that fails is never answered, and no call follows it.              *)
(***************************************************************************)
CONSTANTS Requests, Nobody

VARIABLES
  call,      \* the request being served, or Nobody
  held,      \* the request whose output the buffer holds; Nobody: the initial zeros
  answer,    \* per request: the requests whose output it was answered with, a singleton once answered
  failed     \* a call has failed

vars == <<call, held, answer, failed>>

Init ==
  /\ call = Nobody
  /\ held = Nobody
  /\ answer = [r \in Requests |-> {}]
  /\ failed = FALSE

Begin(r) ==
  /\ call = Nobody
  /\ answer[r] = {}
  /\ call' = r
  /\ UNCHANGED <<held, answer, failed>>

Output(r) ==
  /\ call = r
  /\ held' = r
  /\ UNCHANGED <<call, answer, failed>>

Answer(r) ==
  /\ call = r
  /\ ~ failed
  /\ answer' = [answer EXCEPT ![r] = {held}]
  /\ call' = Nobody
  /\ UNCHANGED <<held, failed>>

Fail(r) ==
  /\ call = r
  /\ failed' = TRUE
  /\ UNCHANGED <<call, held, answer>>

Next == \E r \in Requests : Begin(r) \/ Output(r) \/ Answer(r) \/ Fail(r)

Spec == Init /\ [][Next]_vars
=============================================================================

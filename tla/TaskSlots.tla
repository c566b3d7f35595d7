----------------------------- MODULE TaskSlots ------------------------------
(***************************************************************************)
(* What the session scheduler promises, with no counters, no flag and no   *)
(* lock: a request is a task of one container at a time, no container is   *)
(* given more than Limit tasks, the containers are filled in order, and    *)
(* one is added for a request that finds them full, up to MaxSize.  A      *)
(* request that fails stays a task of its container until the unit closes. *)
(***************************************************************************)
EXTENDS Naturals, FiniteSets

CONSTANTS Requests, MaxSize, Limit

VARIABLES
  size,   \* the number of containers
  task    \* the container each request is a task of, 0 when none

vars == <<size, task>>

Tasks(c) == {r \in Requests : task[r] = c}
Full(c) == Cardinality(Tasks(c)) >= Limit

Init == size = 0 /\ task = [r \in Requests |-> 0]

Open == size = 0 /\ size' = 1 /\ UNCHANGED task

Assign(r, c) ==
  /\ task[r] = 0
  /\ ~Full(c) /\ \A d \in 1..(c - 1) : Full(d)
  /\ task' = [task EXCEPT ![r] = c]
  /\ UNCHANGED size

GrowFor(r) ==
  /\ task[r] = 0
  /\ size < MaxSize
  /\ size' = size + 1
  /\ task' = [task EXCEPT ![r] = size + 1]

Finish(r) ==
  /\ task[r] # 0
  /\ task' = [task EXCEPT ![r] = 0]
  /\ UNCHANGED size

Close == size' = 0 /\ task' = [r \in Requests |-> 0]

Next ==
  \/ Open \/ Close
  \/ \E r \in Requests :
       GrowFor(r) \/ Finish(r) \/ \E c \in 1..size : Assign(r, c)

Spec == Init /\ [][Next]_vars
=============================================================================

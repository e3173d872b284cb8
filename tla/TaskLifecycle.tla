--------------------------- MODULE TaskLifecycle ---------------------------
(***************************************************************************)
(* What the task subsystem promises, without processes, leases or messages: *)
(* a task walks the seven-state transition table of the domain model, it is *)
(* owned by exactly one run while it is running and by none otherwise, and  *)
(* no run ever owns a task twice.                                           *)
(***************************************************************************)
CONSTANTS Tasks, Runs, NoRun

VARIABLES
  state,  \* lifecycle state of each task
  owner,  \* the run executing it
  used    \* runs that have owned a task

vars == <<state, owner, used>>

TaskStatus == {"queued", "running", "waiting_approval", "succeeded",
               "failed", "cancelled", "expired"}

\* TASK_TRANSITION_TABLE
TransitionTable ==
  [s \in TaskStatus |->
     CASE s = "queued"           -> {"running", "cancelled"}
       [] s = "running"          -> {"succeeded", "failed", "waiting_approval",
                                     "cancelled", "expired", "queued"}
       [] s = "waiting_approval" -> {"queued", "cancelled"}
       [] s = "failed"           -> {"queued", "cancelled"}
       [] s = "expired"          -> {"queued"}
       [] OTHER                  -> {}]

Init ==
  /\ state = [t \in Tasks |-> "absent"]
  /\ owner = [t \in Tasks |-> NoRun]
  /\ used = {}

Create(t) ==
  /\ state[t] = "absent"
  /\ state' = [state EXCEPT ![t] = "queued"]
  /\ UNCHANGED <<owner, used>>

\* A fresh run takes a queued task.
Claim(t, r) ==
  /\ state[t] = "queued"
  /\ r \in Runs \ used
  /\ state' = [state EXCEPT ![t] = "running"]
  /\ owner' = [owner EXCEPT ![t] = r]
  /\ used' = used \union {r}

\* The owner's run is finalized.
Release(t, s) ==
  /\ state[t] = "running"
  /\ s \in TransitionTable["running"]
  /\ state' = [state EXCEPT ![t] = s]
  /\ owner' = [owner EXCEPT ![t] = NoRun]
  /\ UNCHANGED used

\* A user decision on a task no run owns.
Move(t, s) ==
  /\ state[t] \in TaskStatus \ {"running"}
  /\ s \in TransitionTable[state[t]] \ {"running"}
  /\ state' = [state EXCEPT ![t] = s]
  /\ UNCHANGED <<owner, used>>

Delete(t) ==
  /\ state[t] \in TaskStatus
  /\ state' = [state EXCEPT ![t] = "deleted"]
  /\ owner' = [owner EXCEPT ![t] = NoRun]
  /\ UNCHANGED used

Next ==
  \E t \in Tasks :
    \/ Create(t)
    \/ \E r \in Runs : Claim(t, r)
    \/ \E s \in TaskStatus : Release(t, s) \/ Move(t, s)
    \/ Delete(t)

Spec == Init /\ [][Next]_vars

=============================================================================

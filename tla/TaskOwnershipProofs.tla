------------------------ MODULE TaskOwnershipProofs ------------------------
(***************************************************************************)
(* Who owns a task and what its ends mean: ClaimIsLive, EndedRunsStay,      *)
(* SingleOwner and TerminalStatusStays, then BreakerHolds,                  *)
(* SuccessWasRequested, WaitingIsResolvable and ConcurrencyBound.  Every    *)
(* step of the subsystem is first reduced to what it does to the tasks and  *)
(* task_runs tables, and for the second group to how work flows (FlowStep). *)
(* Last, the same reduction shows that TaskRuns implements TaskLifecycle.   *)
(***************************************************************************)
EXTENDS TaskRunsProofs

(* The effects a step can have on the two tables *)

QuietStep == UNCHANGED <<status, claim, run_status, run_task, next_run>>

CreateStep(t) ==
  /\ status[t] = "absent"
  /\ status' = [status EXCEPT ![t] = "queued"]
  /\ UNCHANGED <<claim, run_status, run_task, next_run, client>>

ClaimStep(t) ==
  /\ Claimable(t)
  /\ ClaimTask(t)

FinishStep(t, r) ==
  /\ OwnsClaim(t, r)
  /\ \E oc \in TaskRunOutcome \union {"none"}, target \in TaskStatus \ {"running"} :
       Finalize(t, r, oc, target)
  /\ client' = Bumped(t)

\* cancel_task, or a resolved proposal.
MoveStep(c, t) ==
  /\ client[c].op \in {"cancel", "resolve"}
  /\ client[c].task = t
  /\ client[c].fresh
  /\ client[c].op = "cancel" /\ client[c].running => StoreFaults
  /\ status' = [status EXCEPT ![t] = IF client[c].op = "cancel" THEN "cancelled" ELSE "queued"]
  /\ UNCHANGED <<claim, run_status, run_task, next_run>>
  /\ ClientWrote(c, t)

\* The fallback of propose_change.
FallbackStep(t) ==
  /\ StoreFaults
  /\ status[t] = "running"
  /\ status' = [status EXCEPT ![t] = "waiting_approval"]
  /\ UNCHANGED <<claim, run_status, run_task, next_run>>
  /\ client' = Bumped(t)

RetryStep(c, t) ==
  /\ client[c].op = "retry"
  /\ client[c].task = t
  /\ client[c].fresh
  /\ status' = [status EXCEPT ![t] = "queued"]
  /\ claim' = [claim EXCEPT ![t] = NoRun]
  /\ UNCHANGED <<run_status, run_task, next_run>>
  /\ ClientWrote(c, t)

DeleteStep(c, t) ==
  /\ client[c].op = "delete"
  /\ client[c].task = t
  /\ status' = [status EXCEPT ![t] = "deleted"]
  /\ claim' = [claim EXCEPT ![t] = NoRun]
  /\ run_status' = [r \in Runs |-> IF run_task[r] = t THEN "deleted" ELSE run_status[r]]
  /\ UNCHANGED <<run_task, next_run>>
  /\ ClientWrote(c, t)

\* What a quiet step may do to the requests: forget one, start one, or mark
\* some as overtaken.
QuietClients ==
  \A c \in Clients :
    \/ client'[c] = client[c]
    \/ client'[c] = IdleClient
    \/ client'[c] = [client[c] EXCEPT !.fresh = FALSE]
    \/ \E op \in Requests, t \in Tasks :
         /\ status[t] \in Permitted(op)
         /\ client'[c] = [op |-> op, task |-> t, running |-> status[t] = "running", fresh |-> TRUE]

TableStep ==
  \/ QuietStep /\ QuietClients
  \/ \E t \in Tasks : CreateStep(t) \/ ClaimStep(t) \/ FallbackStep(t)
  \/ \E t \in Tasks, r \in Runs : FinishStep(t, r)
  \/ \E c \in Clients, t \in Tasks : MoveStep(c, t) \/ RetryStep(c, t) \/ DeleteStep(c, t)

LEMMA FinishShape ==
  ASSUME TInv, NEW r \in Runs, NEW oc \in TaskRunOutcome \union {"none"},
         NEW target \in TaskStatus \ {"running"},
         FinishRun(run_task[r], r, oc, target),
         client' = AfterFinish(run_task[r], r)
  PROVE  TableStep
<1>1. CASE OwnsClaim(run_task[r], r)
  <2>1. run_task[r] \in Tasks
    BY <1>1 DEF OwnsClaim, TInv, RunsKnown
  <2>2. FinishStep(run_task[r], r)
    BY <1>1 DEF FinishStep, FinishRun, AfterFinish
  <2> QED BY <2>1, <2>2 DEF TableStep
<1>2. CASE ~OwnsClaim(run_task[r], r)
  BY <1>2 DEF FinishRun, AfterFinish, TableStep, QuietStep, QuietClients, taskVars, runVars
<1> QED BY <1>1, <1>2

LEMMA BumpedIsQuiet ==
  ASSUME NEW t, client' = Bumped(t)
  PROVE  QuietClients
  BY DEF Bumped, QuietClients

LEMMA DispatchShape ==
  ASSUME TInv, NEW d \in Dispatchers,
         DispatchStep(d) \/ TickRaises(d) \/ SpawnFailureLost(d)
  PROVE  TableStep
<1>t. disp[d] \in DispatchState
  BY DEF TInv, TypeOK
<1>u. ASSUME UNCHANGED <<taskVars, runVars, client>>
      PROVE  TableStep
  BY <1>u DEF TableStep, QuietStep, QuietClients, taskVars, runVars
<1>1. CASE RecoverRun(d)
  <2>1. disp[d].victim \in Runs
    BY <1>1, <1>t DEF RecoverRun, DispatchState
  <2>2. disp[d].verdict \in TaskRunOutcome
    BY <1>t DEF DispatchState, TaskRunOutcome
  <2> QED BY <1>1, <2>1, <2>2, FinishShape DEF RecoverRun, TaskStatus
<1>2. CASE SpawnFails(d)
  <2>1. disp[d].claimed \in Runs
    BY <1>2, <1>t DEF SpawnFails, DispatchState
  <2>2. "spawn_failed" \in TaskRunOutcome
    BY DEF TaskRunOutcome
  <2> QED BY <1>2, <2>1, <2>2, FinishShape, TargetIsNotRunning DEF SpawnFails
<1>3. ASSUME NEW t \in Tasks, ClaimNext(d, t)
      PROVE  TableStep
  <2>1. CASE Claimable(t) /\ next_run <= MaxRuns
    BY <1>3, <2>1 DEF ClaimNext, TableStep, ClaimStep
  <2>2. CASE ~(Claimable(t) /\ next_run <= MaxRuns)
    BY <1>3, <1>u, <2>2 DEF ClaimNext
  <2> QED BY <2>1, <2>2
<1>4. CASE \/ TickStart(d) \/ (\E r \in Runs : ReadCrashed(d, r)) \/ ListRunning(d)
           \/ (\E e \in disp[d].snapshot : JudgeStale(d, e))
           \/ ListQueued(d) \/ Spawn(d) \/ TickEnd(d) \/ TickRaises(d) \/ SpawnFailureLost(d)
  BY <1>4, <1>u DEF TickStart, ReadCrashed, ListRunning, JudgeStale, ListQueued, Spawn,
                    TickEnd, TickRaises, SpawnFailureLost
<1> QED BY <1>1, <1>2, <1>3, <1>4 DEF DispatchStep

LEMMA WorkerShape ==
  ASSUME TInv, NEW r \in Runs, WorkerStep(r)
  PROVE  TableStep
<1>t. worker[r] # "none" => run_task[r] \in Tasks
  BY DEF TInv, RunsKnown
<1>u. ASSUME UNCHANGED <<taskVars, runVars, client>>
      PROVE  TableStep
  BY <1>u DEF TableStep, QuietStep, QuietClients, taskVars, runVars
<1>1. CASE Heartbeat(r)
  BY <1>1, BumpedIsQuiet DEF Heartbeat, RecordHeartbeat, TableStep, QuietStep, runVars
<1>2. CASE FinalizePropose(r)
  BY <1>2, FinishShape DEF FinalizePropose, TaskRunOutcome, TaskStatus
<1>3. CASE ProposeFallback(r)
  <2>1. CASE UNCHANGED <<status, client>>
    BY <1>3, <2>1 DEF ProposeFallback, TableStep, QuietStep, QuietClients, runVars
  <2>2. CASE ~UNCHANGED <<status, client>>
    <3>1. FallbackStep(run_task[r])
      BY <1>3, <2>2 DEF ProposeFallback, FallbackStep, MayPropose, runVars
    <3> QED BY <1>3, <1>t, <3>1 DEF ProposeFallback, TableStep
  <2> QED BY <2>1, <2>2
<1>4. CASE WorkerFinish(r)
  <2>1. outcome[r] \in TaskRunOutcome \union {"none"}
    BY DEF TInv, TypeOK, WorkersOK
  <2> QED BY <1>4, <2>1, FinishShape, TargetIsNotRunning DEF WorkerFinish
<1>5. CASE \/ Complete(r) \/ Fail(r) \/ ProposeChange(r) \/ ExecutorReturns(r) \/ TimesOut(r)
           \/ WorkerCloses(r) \/ WorkerRaises(r)
  BY <1>5, <1>u DEF Complete, Fail, SubmitIntent, ProposeChange, ExecutorReturns, TimesOut,
                    WorkerCloses, WorkerRaises
<1> QED BY <1>1, <1>2, <1>3, <1>4, <1>5 DEF WorkerStep

LEMMA ClientShape ==
  ASSUME TInv, NEW c \in Clients, ClientStep(c)
  PROVE  TableStep
<1> DEFINE t == client[c].task
<1>t. client[c].op # "idle" => t \in Tasks
  BY DEF TInv, ClientHasTask
<1>c. client \in [Clients -> ClientState]
  BY DEF TInv, TypeOK
<1>u. ASSUME client' = [client EXCEPT ![c] = IdleClient], UNCHANGED <<taskVars, runVars>>
      PROVE  TableStep
  BY <1>u, <1>c DEF TableStep, QuietStep, QuietClients, taskVars, runVars
<1>v. ASSUME ClientGivesUp(c), UNCHANGED runVars
      PROVE  TableStep
  BY <1>u, <1>v DEF ClientGivesUp
<1>1. ASSUME NEW op \in Requests, NEW u \in Tasks, ClientRead(c, op, u)
      PROVE  TableStep
  <2>1. QuietClients
    BY <1>1, <1>c DEF ClientRead, QuietClients
  <2> QED BY <1>1, <2>1 DEF ClientRead, TableStep, QuietStep, taskVars, runVars
<1>2. CASE CancelWrite(c) \/ CancelFallback(c)
  <2>1. CASE VersionCurrent(c)
    <3>1. MoveStep(c, t)
      BY <1>2, <2>1 DEF CancelWrite, CancelFallback, MoveStep, VersionCurrent, runVars
    <3> QED BY <1>2, <1>t, <3>1 DEF CancelWrite, CancelFallback, TableStep
  <2>2. CASE ~VersionCurrent(c)
    BY <1>2, <1>v, <2>2 DEF CancelWrite, CancelFallback
  <2> QED BY <2>1, <2>2
<1>3. CASE TerminateRunning(c)
  <2>1. ~CancelFinds(claim[t])
    BY DEF CancelFinds, RunnerToken, RegistryToken
  <2> QED BY <1>3, <1>u, <2>1 DEF TerminateRunning
<1>4. CASE RetryWrite(c)
  <2>1. CASE VersionCurrent(c)
    <3>1. RetryStep(c, t)
      BY <1>4, <2>1 DEF RetryWrite, RetryStep, VersionCurrent, runVars
    <3> QED BY <1>4, <1>t, <3>1 DEF RetryWrite, TableStep
  <2>2. CASE ~VersionCurrent(c)
    BY <1>4, <1>v, <2>2 DEF RetryWrite
  <2> QED BY <2>1, <2>2
<1>5. CASE DeleteWrite(c)
  <2>1. DeleteStep(c, t)
    BY <1>5 DEF DeleteWrite, DeleteStep
  <2> QED BY <1>5, <1>t, <2>1 DEF DeleteWrite, TableStep
<1>6. CASE ArchiveWrite(c) \/ UpdateWrite(c)
  <2>1. CASE VersionCurrent(c)
    <3>1. QuietStep /\ ClientWrote(c, t)
      BY <1>6, <2>1 DEF ArchiveWrite, UpdateWrite, QuietStep, taskVars, runVars
    <3>2. QuietClients
      BY <3>1, <1>c DEF ClientWrote, Bumped, QuietClients
    <3> QED BY <3>1, <3>2 DEF TableStep
  <2>2. CASE ~VersionCurrent(c)
    BY <1>6, <1>v, <2>2 DEF ArchiveWrite, UpdateWrite
  <2> QED BY <2>1, <2>2
<1>7. CASE ResolveWrite(c)
  <2>1. CASE VersionCurrent(c) /\ ~is_archived[t] /\ Pending(t) # {}
    <3>1. MoveStep(c, t)
      BY <1>7, <2>1 DEF ResolveWrite, MoveStep, VersionCurrent, runVars
    <3> QED BY <1>7, <1>t, <3>1 DEF ResolveWrite, TableStep
  <2>2. CASE ~(VersionCurrent(c) /\ ~is_archived[t] /\ Pending(t) # {})
    BY <1>7, <1>v, <2>2 DEF ResolveWrite
  <2> QED BY <2>1, <2>2
<1> QED BY <1>1, <1>2, <1>3, <1>4, <1>5, <1>6, <1>7 DEF ClientStep

LEMMA NextShape ==
  ASSUME TInv, [Next]_vars
  PROVE  TableStep
<1>u. ASSUME QuietStep, UNCHANGED client
      PROVE  TableStep
  BY <1>u DEF TableStep, QuietClients
<1>1. ASSUME NEW t \in Tasks,
             CreateTask(t) \/ HeartbeatGoesStale(t) \/ LeaseExpires(t) \/ ScheduleDue(t)
      PROVE  TableStep
  <2>1. CASE CreateTask(t)
    BY <2>1 DEF CreateTask, CreateStep, TableStep, runVars
  <2>2. CASE HeartbeatGoesStale(t) \/ LeaseExpires(t) \/ ScheduleDue(t)
    BY <1>u, <2>2 DEF HeartbeatGoesStale, LeaseExpires, ScheduleDue, QuietStep, runVars
  <2> QED BY <1>1, <2>1, <2>2
<1>2. CASE Restart
  BY <1>2 DEF Restart, TableStep, QuietStep, QuietClients, taskVars, runVars
<1>3. CASE UNCHANGED vars
  BY <1>u, <1>3 DEF vars, QuietStep, taskVars, runVars
<1> QED BY <1>1, <1>2, <1>3, DispatchShape, WorkerShape, ClientShape DEF Next

-----------------------------------------------------------------------------
(* A claim always belongs to a live run of the task that carries it.  Nothing *)
(* about storage faults is assumed.                                           *)

LEMMA TableKeepsClaimLive ==
  ASSUME TInv, ClaimIsLive, TableStep
  PROVE  ClaimIsLive'
<1>t. RowsOK
  BY DEF TInv, TypeOK
<1>1. ASSUME UNCHANGED <<claim, run_status, run_task>>
      PROVE  ClaimIsLive'
  BY <1>1 DEF ClaimIsLive
<1>2. ASSUME NEW t \in Tasks, ClaimStep(t)
      PROVE  ClaimIsLive'
  <2>1. next_run \in Runs /\ run_status[next_run] = "absent" /\ next_run # NoRun
    BY <1>2, RunsAreNotNoRun DEF ClaimStep, ClaimTask, TInv, RunsKnown, RowsOK, Runs
  <2>2. /\ claim' = [claim EXCEPT ![t] = next_run]
        /\ run_task' = [run_task EXCEPT ![next_run] = t]
        /\ run_status' = [run_status EXCEPT ![next_run] = "running"]
    BY <1>2 DEF ClaimStep, ClaimTask
  <2> QED BY <1>t, <2>1, <2>2 DEF ClaimIsLive, RowsOK
<1>3. ASSUME NEW t \in Tasks, NEW r \in Runs, FinishStep(t, r)
      PROVE  ClaimIsLive'
  <2>1. /\ claim' = [claim EXCEPT ![t] = NoRun]
        /\ run_task' = run_task
        /\ run_task[r] = t
        /\ \A q \in Runs : q # r => run_status'[q] = run_status[q]
    BY <1>3, <1>t DEF FinishStep, OwnsClaim, Finalize, RowsOK
  <2> QED BY <1>t, <2>1 DEF ClaimIsLive, RowsOK
<1>4. ASSUME NEW c \in Clients, NEW t \in Tasks, RetryStep(c, t)
      PROVE  ClaimIsLive'
  BY <1>4, <1>t DEF RetryStep, ClaimIsLive, RowsOK
<1>5. ASSUME NEW c \in Clients, NEW t \in Tasks, DeleteStep(c, t)
      PROVE  ClaimIsLive'
  BY <1>5, <1>t DEF DeleteStep, ClaimIsLive, RowsOK
<1> QED BY <1>1, <1>2, <1>3, <1>4, <1>5
    DEF TableStep, QuietStep, CreateStep, FallbackStep, MoveStep

\* The claim a task row carries names a run of that task that is still running,
\* whatever recoveries, late finishes, retries, faults and restarts happened.
THEOREM ClaimIsAlwaysLive == Spec => []ClaimIsLive
<1>1. Init => TInv /\ ClaimIsLive
  BY InitTInv DEF Init, ClaimIsLive
<1>2. (TInv /\ ClaimIsLive) /\ [Next]_vars => (TInv /\ ClaimIsLive)'
  BY NextTInv, NextShape, TableKeepsClaimLive
<1> QED BY <1>1, <1>2, PTL DEF Spec

\* A run row that reached a terminal state is never rewritten: the report of a
\* late worker, of a second recovery or of a repeated finish is dropped.
THEOREM EndedRunsAreFinal == Spec => EndedRunsStay
<1> DEFINE Stay == \A r \in Runs : run_status[r] \in TerminalRunStatus =>
                                    run_status'[r] \in {run_status[r], "deleted"}
<1>1. TInv /\ [Next]_vars => Stay
  <2> SUFFICES ASSUME TInv, TableStep, NEW r \in Runs, run_status[r] \in TerminalRunStatus
               PROVE  run_status'[r] \in {run_status[r], "deleted"}
    BY NextShape
  <2>t. RowsOK /\ run_status[r] \notin {"absent", "running"}
    BY DEF TInv, TypeOK, TerminalRunStatus, TaskRunStatus
  <2>1. ASSUME NEW t \in Tasks, ClaimStep(t)
        PROVE  run_status'[r] = run_status[r]
    <3>1. run_status[next_run] = "absent" /\ next_run \in Runs
      BY <2>1 DEF ClaimStep, ClaimTask, TInv, RunsKnown, Runs
    <3> QED BY <2>1, <2>t, <3>1 DEF ClaimStep, ClaimTask, RowsOK
  <2>2. ASSUME NEW t \in Tasks, NEW q \in Runs, FinishStep(t, q)
        PROVE  run_status'[r] = run_status[r]
    BY <2>2, <2>t DEF FinishStep, OwnsClaim, Finalize, RowsOK
  <2>3. ASSUME NEW c \in Clients, NEW t \in Tasks, DeleteStep(c, t)
        PROVE  run_status'[r] \in {run_status[r], "deleted"}
    BY <2>3 DEF DeleteStep
  <2> QED BY <2>1, <2>2, <2>3
      DEF TableStep, QuietStep, CreateStep, FallbackStep, MoveStep, RetryStep
<1> QED BY <1>1, InitTInv, NextTInv, PTL DEF Spec, EndedRunsStay

-----------------------------------------------------------------------------
(* A request whose version is current has read the status the row still has:  *)
(* every write of a status increments the version.                            *)

FreshClient ==
  \A c \in Clients :
    client[c].op # "idle" /\ client[c].fresh =>
      /\ status[client[c].task] \in Permitted(client[c].op)
      /\ client[c].running <=> status[client[c].task] = "running"

LEMMA PermittedStates ==
  ASSUME NEW op
  PROVE  /\ Permitted(op) \subseteq TaskStatus
         /\ op # "cancel" => "running" \notin Permitted(op)
  BY DEF Permitted, TaskStatus

\* A write of the row of t overtakes the other requests about t.
LEMMA BumpedStaysFresh ==
  ASSUME TInv, FreshClient, NEW t \in Tasks,
         \A u \in Tasks : u # t => status'[u] = status[u],
         \A c \in Clients : client'[c] = Bumped(t)[c] \/ client'[c] = IdleClient
  PROVE  FreshClient'
<1> SUFFICES ASSUME NEW c \in Clients, client'[c].op # "idle", client'[c].fresh
             PROVE  /\ status'[client'[c].task] \in Permitted(client'[c].op)
                    /\ client'[c].running <=> status'[client'[c].task] = "running"
  BY DEF FreshClient
<1>1. client[c] \in ClientState
  BY DEF TInv, TypeOK
<1>2. client'[c] = Bumped(t)[c]
  BY DEF IdleClient
<1>3. client'[c] = client[c] /\ client[c].task # t
  BY <1>1, <1>2 DEF Bumped, ClientState
<1>4. client[c].task \in Tasks
  BY <1>3 DEF TInv, ClientHasTask
<1> QED BY <1>3, <1>4 DEF FreshClient

LEMMA TableKeepsFresh ==
  ASSUME TInv, FreshClient, TableStep
  PROVE  FreshClient'
<1>t. RowsOK /\ client \in [Clients -> ClientState]
  BY DEF TInv, TypeOK
<1>1. CASE QuietStep /\ QuietClients
  <2> SUFFICES ASSUME NEW c \in Clients, client'[c].op # "idle", client'[c].fresh
               PROVE  /\ status'[client'[c].task] \in Permitted(client'[c].op)
                      /\ client'[c].running <=> status'[client'[c].task] = "running"
    BY DEF FreshClient
  <2>1. client'[c] # IdleClient
    BY DEF IdleClient
  <2>2. client'[c] # [client[c] EXCEPT !.fresh = FALSE]
    BY <1>t DEF ClientState
  <2>3. CASE client'[c] = client[c]
    BY <1>1, <2>3 DEF FreshClient, QuietStep
  <2>4. ASSUME NEW op \in Requests, NEW t \in Tasks, status[t] \in Permitted(op),
               client'[c] = [op |-> op, task |-> t, running |-> status[t] = "running", fresh |-> TRUE]
        PROVE  /\ status'[client'[c].task] \in Permitted(client'[c].op)
               /\ client'[c].running <=> status'[client'[c].task] = "running"
    <3>1. status' = status
      BY <1>1 DEF QuietStep
    <3>2. client'[c].task = t /\ client'[c].op = op
      BY <2>4
    <3>3. client'[c].running = (status[t] = "running")
      <4> DEFINE b == status[t] = "running"
      <4>1. client'[c] = [op |-> op, task |-> t, running |-> b, fresh |-> TRUE]
        BY <2>4
      <4> HIDE DEF b
      <4>2. client'[c].running = b
        BY <4>1
      <4> QED BY <4>2 DEF b
    <3>4. status'[client'[c].task] \in Permitted(client'[c].op)
      BY <2>4, <3>1, <3>2
    <3>5. client'[c].running <=> status'[client'[c].task] = "running"
      BY <3>1, <3>2, <3>3, Zenon
    <3> QED BY <3>4, <3>5
  <2> QED BY <1>1, <2>1, <2>2, <2>3, <2>4 DEF QuietClients
<1>2. ASSUME NEW t \in Tasks, CreateStep(t)
      PROVE  FreshClient'
  <2> SUFFICES ASSUME NEW c \in Clients, client[c].op # "idle", client[c].fresh
               PROVE  status'[client[c].task] = status[client[c].task]
    BY <1>2 DEF FreshClient, CreateStep
  <2>1. status[client[c].task] # "absent"
    BY PermittedStates DEF FreshClient, TaskStatus
  <2> QED BY <1>2, <1>t, <2>1 DEF CreateStep, TInv, ClientHasTask, RowsOK
<1>3. ASSUME NEW t \in Tasks,
             \/ ClaimStep(t) \/ FallbackStep(t)
             \/ \E r \in Runs : FinishStep(t, r)
      PROVE  FreshClient'
  <2>1. client' = Bumped(t) /\ \A u \in Tasks : u # t => status'[u] = status[u]
    BY <1>3, <1>t DEF ClaimStep, ClaimTask, FallbackStep, FinishStep, Finalize, RowsOK
  <2> QED BY <2>1, BumpedStaysFresh
<1>4. ASSUME NEW c \in Clients, NEW t \in Tasks,
             MoveStep(c, t) \/ RetryStep(c, t) \/ DeleteStep(c, t)
      PROVE  FreshClient'
  <2>1. ClientWrote(c, t) /\ \A u \in Tasks : u # t => status'[u] = status[u]
    BY <1>4, <1>t DEF MoveStep, RetryStep, DeleteStep, RowsOK
  <2>2. \A e \in Clients : client'[e] = Bumped(t)[e] \/ client'[e] = IdleClient
    BY <2>1, <1>t, BumpedType DEF ClientWrote
  <2> QED BY <2>1, <2>2, BumpedStaysFresh
<1> QED BY <1>1, <1>2, <1>3, <1>4 DEF TableStep

-----------------------------------------------------------------------------
(* Without storage faults the row names the only running run of its task, and *)
(* names one exactly while the task is running.                               *)

OneOwner ==
  ~StoreFaults =>
    /\ \A r \in Runs : run_status[r] = "running" => claim[run_task[r]] = r
    /\ \A t \in Tasks : claim[t] # NoRun <=> status[t] = "running"

OInv == TInv /\ FreshClient /\ OneOwner

LEMMA TableKeepsOwner ==
  ASSUME TInv, FreshClient, OneOwner, TableStep
  PROVE  OneOwner'
<1>t. RowsOK /\ client \in [Clients -> ClientState]
  BY DEF TInv, TypeOK
<1> SUFFICES ASSUME ~StoreFaults
             PROVE  /\ \A r \in Runs : run_status'[r] = "running" => claim'[run_task'[r]] = r
                    /\ \A t \in Tasks : claim'[t] # NoRun <=> status'[t] = "running"
  BY DEF OneOwner
<1>a. \A r \in Runs : run_status[r] = "running" => claim[run_task[r]] = r /\ run_task[r] \in Tasks
  BY DEF OneOwner, TInv, RunsKnown
<1>b. \A t \in Tasks : claim[t] # NoRun <=> status[t] = "running"
  BY DEF OneOwner
<1> DEFINE Goal == /\ \A r \in Runs : run_status'[r] = "running" => claim'[run_task'[r]] = r
                   /\ \A t \in Tasks : claim'[t] # NoRun <=> status'[t] = "running"
<1>1. CASE QuietStep
  BY <1>1, <1>a, <1>b DEF QuietStep
<1>2. ASSUME NEW t \in Tasks, CreateStep(t)
      PROVE  Goal
  BY <1>2, <1>a, <1>b, <1>t DEF CreateStep, RowsOK
<1>3. ASSUME NEW t \in Tasks, ClaimStep(t)
      PROVE  Goal
  <2>1. /\ next_run \in Runs /\ next_run # NoRun
        /\ status[t] = "queued"
        /\ claim' = [claim EXCEPT ![t] = next_run]
        /\ status' = [status EXCEPT ![t] = "running"]
        /\ run_task' = [run_task EXCEPT ![next_run] = t]
        /\ run_status' = [run_status EXCEPT ![next_run] = "running"]
    BY <1>3, RunsAreNotNoRun DEF ClaimStep, ClaimTask, Claimable
  <2>2. claim[t] = NoRun
    BY <1>b, <2>1
  <2>3. \A r \in Runs : run_status'[r] = "running" => claim'[run_task'[r]] = r
    BY <1>a, <1>t, <2>1, <2>2, RunsAreNotNoRun DEF RowsOK
  <2>4. \A u \in Tasks : claim'[u] # NoRun <=> status'[u] = "running"
    BY <1>b, <1>t, <2>1 DEF RowsOK
  <2> QED BY <2>3, <2>4
<1>4. ASSUME NEW t \in Tasks, NEW r \in Runs, FinishStep(t, r)
      PROVE  Goal
  <2>1. PICK oc \in TaskRunOutcome \union {"none"}, target \in TaskStatus \ {"running"} :
               Finalize(t, r, oc, target)
    BY <1>4 DEF FinishStep
  <2>2. /\ claim[t] = r
        /\ claim' = [claim EXCEPT ![t] = NoRun]
        /\ status' = [status EXCEPT ![t] = target]
        /\ run_task' = run_task
        /\ run_status' = [run_status EXCEPT ![r] = RunStatusOf(oc)]
    BY <1>4, <2>1 DEF FinishStep, OwnsClaim, Finalize
  <2>3. RunStatusOf(oc) # "running"
    BY RunStatusIsTerminal DEF TerminalRunStatus
  <2>4. \A q \in Runs : run_status'[q] = "running" => claim'[run_task'[q]] = q
    BY <1>a, <1>t, <2>2, <2>3 DEF RowsOK
  <2>5. \A u \in Tasks : claim'[u] # NoRun <=> status'[u] = "running"
    BY <1>b, <1>t, <2>2 DEF RowsOK
  <2> QED BY <2>4, <2>5
<1>5. ASSUME NEW c \in Clients, NEW t \in Tasks, MoveStep(c, t)
      PROVE  Goal
  <2>1. status[t] # "running"
    <3>1. status[t] \in Permitted(client[c].op) /\ (client[c].running <=> status[t] = "running")
      BY <1>5 DEF MoveStep, FreshClient
    <3>2. CASE client[c].op = "cancel"
      BY <1>5, <3>1, <3>2 DEF MoveStep
    <3>3. CASE client[c].op # "cancel"
      BY <3>1, <3>3, PermittedStates
    <3> QED BY <3>2, <3>3
  <2>2. claim' = claim /\ run_status' = run_status /\ run_task' = run_task
    BY <1>5 DEF MoveStep
  <2>3. \A u \in Tasks : status'[u] = "running" <=> status[u] = "running"
    BY <1>5, <1>t, <2>1 DEF MoveStep, RowsOK
  <2> QED BY <1>a, <1>b, <2>2, <2>3
<1>6. ASSUME NEW c \in Clients, NEW t \in Tasks, RetryStep(c, t)
      PROVE  Goal
  <2>1. status[t] # "running"
    BY <1>6, PermittedStates DEF RetryStep, FreshClient
  <2>2. claim' = claim
    BY <1>6, <1>b, <1>t, <2>1 DEF RetryStep, RowsOK
  <2>3. \A u \in Tasks : status'[u] = "running" <=> status[u] = "running"
    BY <1>6, <1>t, <2>1 DEF RetryStep, RowsOK
  <2> QED BY <1>6, <1>a, <1>b, <2>2, <2>3 DEF RetryStep
<1>7. ASSUME NEW c \in Clients, NEW t \in Tasks, DeleteStep(c, t)
      PROVE  Goal
  <2>1. \A r \in Runs : run_status'[r] = "running" => claim'[run_task'[r]] = r
    BY <1>7, <1>a, <1>t DEF DeleteStep, RowsOK
  <2>2. \A u \in Tasks : claim'[u] # NoRun <=> status'[u] = "running"
    BY <1>7, <1>b, <1>t DEF DeleteStep, RowsOK
  <2> QED BY <2>1, <2>2
<1> QED BY <1>1, <1>2, <1>3, <1>4, <1>5, <1>6, <1>7 DEF TableStep, FallbackStep

LEMMA OInvInductive ==
  /\ Init => OInv
  /\ OInv /\ [Next]_vars => OInv'
<1>1. Init => FreshClient
  BY DEF Init, FreshClient, IdleClient
<1>2. Init => OneOwner
  BY DEF Init, OneOwner
<1> QED
  BY <1>1, <1>2, InitTInv, NextTInv, NextShape, TableKeepsFresh, TableKeepsOwner DEF OInv

\* While the registry's calls succeed, a task has at most one running run, the
\* one its row names, however many passes, workers and requests race for it.
THEOREM OwnerIsUnique ==
  ASSUME ~StoreFaults
  PROVE  Spec => []SingleOwner
<1>1. OInv => SingleOwner
  BY DEF OInv, OneOwner, SingleOwner
<1> QED BY <1>1, OInvInductive, PTL DEF Spec

\* While the registry's calls succeed, a succeeded or cancelled task never moves
\* again: no late worker, recovery or concurrent decision revives it.
THEOREM TerminalIsFinal ==
  ASSUME ~StoreFaults
  PROVE  Spec => TerminalStatusStays
<1> DEFINE Stay == \A t \in Tasks : status[t] \in {"succeeded", "cancelled"} =>
                                      status'[t] \in {status[t], "deleted"}
<1>1. OInv /\ [Next]_vars => Stay
  <2> SUFFICES ASSUME OInv, TableStep,
                      NEW t \in Tasks, status[t] \in {"succeeded", "cancelled"}
               PROVE  status'[t] \in {status[t], "deleted"}
    BY NextShape DEF OInv
  <2>t. RowsOK
    BY DEF OInv, TInv, TypeOK
  <2>1. ASSUME NEW u \in Tasks, NEW r \in Runs, FinishStep(u, r)
        PROVE  status'[t] = status[t]
    <3>1. status[u] = "running"
      BY <2>1, RunsAreNotNoRun DEF FinishStep, OwnsClaim, OInv, OneOwner
    <3> QED BY <2>1, <2>t, <3>1 DEF FinishStep, Finalize, RowsOK
  <2>2. ASSUME NEW u \in Tasks, CreateStep(u) \/ ClaimStep(u)
        PROVE  status'[t] = status[t]
    BY <2>2, <2>t DEF CreateStep, ClaimStep, ClaimTask, Claimable, RowsOK
  <2>3. ASSUME NEW c \in Clients, NEW u \in Tasks, MoveStep(c, u) \/ RetryStep(c, u)
        PROVE  status'[t] = status[t]
    <3>1. status[u] \in Permitted(client[c].op) /\ client[c].op \in {"cancel", "resolve", "retry"}
      BY <2>3 DEF MoveStep, RetryStep, OInv, FreshClient
    <3>2. status[u] \notin {"succeeded", "cancelled"}
      BY <3>1 DEF Permitted
    <3> QED BY <2>3, <2>t, <3>2 DEF MoveStep, RetryStep, RowsOK
  <2>4. ASSUME NEW c \in Clients, NEW u \in Tasks, DeleteStep(c, u)
        PROVE  status'[t] \in {status[t], "deleted"}
    BY <2>4, <2>t DEF DeleteStep, RowsOK
  <2> QED BY <2>1, <2>2, <2>3, <2>4 DEF TableStep, QuietStep, FallbackStep
<1> QED BY <1>1, OInvInductive, PTL DEF Spec, TerminalStatusStays

-----------------------------------------------------------------------------
(* What the workers and passes hold in their local variables, and what the    *)
(* events say: the invariants behind BreakerHolds, SuccessWasRequested and    *)
(* WaitingIsResolvable.                                                       *)

\* A claimed run that has no worker yet is in the hands of one pass.
Unspawned ==
  \A d \in Dispatchers :
    disp[d].claimed # NoRun =>
      /\ worker[disp[d].claimed] = "none"
      /\ \A e \in Dispatchers : disp[e].claimed = disp[d].claimed => e = d

\* The run whose outcome is still to be reported.
Held(r) ==
  \/ worker[r] \in {"executing", "proposing", "ended"}
  \/ \E d \in Dispatchers : disp[d].claimed = r

\* As long as a run owns its task, nobody else counts failures of the task: the
\* count the run was given at its claim is the one in the row.
SeenIsCurrent ==
  \A r \in Runs :
    Held(r) /\ claim[run_task[r]] = r => seen_failures[r] = failures[run_task[r]]

\* An executor that returned has an outcome, and the events justify it.
OutcomeJustified ==
  \A r \in Runs : worker[r] = "ended" =>
    /\ outcome[r] # "none"
    /\ outcome[r] = "completed" => intent[r] = "complete" \/ r \in foreign
    /\ outcome[r] = "waiting_approval" => r \in proposed

\* Proposals are made by runs that exist and resolved after they are made.
ProposalsKnown ==
  /\ \A r \in Runs : worker[r] = "proposing" \/ intent[r] = "propose" => r \in proposed
  /\ resolved \subseteq proposed
  /\ \A r \in proposed : r < next_run

\* The claim is the latest run of its task; without storage faults its proposal is
\* not resolved while it runs.
ClaimIsLatest ==
  \A t \in Tasks : claim[t] # NoRun =>
    /\ \A q \in Runs : run_task[q] = t => q <= claim[t]
    /\ ~StoreFaults => claim[t] \notin resolved

FInv == Unspawned /\ SeenIsCurrent /\ OutcomeJustified /\ ProposalsKnown /\ ClaimIsLatest

-----------------------------------------------------------------------------
(* What a step does to the tables, the events and the locals of the workers   *)

\* No pass gets hold of a claimed run.
ClaimedKept == \A d \in Dispatchers : disp'[d].claimed \in {disp[d].claimed, NoRun}

tableVars == <<status, claim, failures, run_status, run_task, next_run>>
localVars == <<worker, outcome, seen_failures>>

RestFlow == UNCHANGED <<tableVars, eventVars, localVars>> /\ ClaimedKept

ClaimFlow(d, t) == ClaimNext(d, t) /\ Claimable(t) /\ next_run <= MaxRuns

\* A run that owns its task ends: recovered, not spawned, proposing or reported.
EndFlow(t, r, oc, target) ==
  /\ OwnsClaim(t, r)
  /\ Finalize(t, r, oc, target)
  /\ UNCHANGED eventVars
  /\ ClaimedKept
  /\ \/ /\ oc \in {"crashed", "expired"} /\ target = "expired"
        /\ UNCHANGED localVars
     \/ /\ \E d \in Dispatchers : disp[d].claimed = r
        /\ oc = "spawn_failed" /\ target = TargetStatus(seen_failures[r], oc)
        /\ UNCHANGED localVars
     \/ /\ worker[r] = "proposing"
        /\ oc = "waiting_approval" /\ target = "waiting_approval"
        /\ worker' = [worker EXCEPT ![r] = "executing"]
        /\ UNCHANGED <<outcome, seen_failures>>
     \/ /\ worker[r] = "ended"
        /\ oc = outcome[r] /\ target = TargetStatus(seen_failures[r], oc)
        /\ worker' = [worker EXCEPT ![r] = "closing"]
        /\ WorkerForgets(r)

\* A worker moves on without a write.
MoveFlow(r) ==
  /\ worker[r] # "none"
  /\ UNCHANGED <<tableVars, eventVars>>
  /\ ClaimedKept
  /\ \/ /\ worker[r] = "proposing"
        /\ worker' = [worker EXCEPT ![r] = "executing"]
        /\ UNCHANGED <<outcome, seen_failures>>
     \/ /\ worker[r] = "ended"
        /\ worker' = [worker EXCEPT ![r] = "closing"]
        /\ WorkerForgets(r)
     \/ /\ worker' = [worker EXCEPT ![r] = "gone"]
        /\ WorkerForgets(r) \/ UNCHANGED <<outcome, seen_failures>>

\* The fallback of propose_change that moved the row.
FallbackFlow(r) ==
  /\ StoreFaults
  /\ worker[r] = "proposing"
  /\ MayPropose(r)
  /\ worker' = [worker EXCEPT ![r] = "executing"]
  /\ status' = [status EXCEPT ![run_task[r]] = "waiting_approval"]
  /\ UNCHANGED <<claim, failures, run_status, run_task, next_run, eventVars, outcome, seen_failures>>
  /\ ClaimedKept

\* A request that found its version current, or deleted the row.
UserFlow(c) ==
  LET t == client[c].task IN
  /\ t \in Tasks
  /\ client[c].op = "delete" \/ client[c].fresh
  /\ \/ /\ client[c].op = "cancel"
        /\ status' = [status EXCEPT ![t] = "cancelled"]
        /\ UNCHANGED <<claim, run_status, resolved>>
     \/ /\ client[c].op = "retry"
        /\ status' = [status EXCEPT ![t] = "queued"]
        /\ claim' = [claim EXCEPT ![t] = NoRun]
        /\ UNCHANGED <<run_status, resolved>>
     \/ /\ client[c].op = "delete"
        /\ status' = [status EXCEPT ![t] = "deleted"]
        /\ claim' = [claim EXCEPT ![t] = NoRun]
        /\ run_status' = [r \in Runs |-> IF run_task[r] = t THEN "deleted" ELSE run_status[r]]
        /\ UNCHANGED resolved
     \/ /\ client[c].op = "resolve"
        /\ status' = [status EXCEPT ![t] = "queued"]
        /\ \E r \in Pending(t) : resolved' = resolved \union {r}
        /\ UNCHANGED <<claim, run_status>>
  /\ UNCHANGED <<failures, run_task, next_run, intent, proposed, foreign, localVars, disp>>

FlowStep ==
  \/ RestFlow
  \/ \E d \in Dispatchers : Spawn(d) \/ \E t \in Tasks : ClaimFlow(d, t)
  \/ \E t \in Tasks, r \in Runs, oc \in TaskRunOutcome \union {"none"}, target \in TaskStatus :
       EndFlow(t, r, oc, target)
  \/ \E r \in Runs : \/ MoveFlow(r) \/ FallbackFlow(r) \/ ExecutorReturns(r) \/ TimesOut(r)
                     \/ Complete(r) \/ Fail(r) \/ ProposeChange(r)
  \/ \E c \in Clients : UserFlow(c)
  \/ \E t \in Tasks : CreateTask(t)
  \/ Restart

LEMMA DispatchFlow ==
  ASSUME TInv, NEW d \in Dispatchers,
         DispatchStep(d) \/ TickRaises(d) \/ SpawnFailureLost(d)
  PROVE  FlowStep
<1>t. disp \in [Dispatchers -> DispatchState] /\ disp[d] \in DispatchState
  BY DEF TInv, TypeOK
<1>u. ASSUME UNCHANGED <<taskVars, runVars, eventVars, workerVars>>, ClaimedKept
      PROVE  FlowStep
  BY <1>u DEF FlowStep, RestFlow, taskVars, runVars, workerVars, tableVars, localVars
<1>1. CASE RecoverRun(d)
  <2>1. PICK r \in Runs : r = disp[d].victim
    BY <1>1, <1>t DEF RecoverRun, DispatchState
  <2>2. PICK oc \in {"crashed", "expired"} : oc = disp[d].verdict
    BY <1>t DEF DispatchState
  <2>3. ClaimedKept
    BY <1>1, <1>t DEF RecoverRun, ClaimedKept, DispatchState
  <2>4. FinishRun(run_task[r], r, oc, "expired") /\ UNCHANGED <<eventVars, workerVars>>
    BY <1>1, <2>1, <2>2 DEF RecoverRun
  <2>5. CASE OwnsClaim(run_task[r], r)
    <3>1. PICK t \in Tasks : t = run_task[r]
      BY <2>5 DEF OwnsClaim, TInv, RunsKnown
    <3>2. EndFlow(t, r, oc, "expired")
      BY <2>3, <2>4, <2>5, <3>1 DEF EndFlow, FinishRun, workerVars, localVars
    <3>3. oc \in TaskRunOutcome \union {"none"} /\ "expired" \in TaskStatus
      BY DEF TaskRunOutcome, TaskStatus
    <3> QED BY <3>2, <3>3 DEF FlowStep
  <2>6. CASE ~OwnsClaim(run_task[r], r)
    BY <1>u, <2>3, <2>4, <2>6 DEF FinishRun
  <2> QED BY <2>5, <2>6
<1>2. CASE SpawnFails(d)
  <2>1. PICK r \in Runs : r = disp[d].claimed
    BY <1>2, <1>t DEF SpawnFails, DispatchState
  <2>2. PICK target \in TaskStatus : target = TargetStatus(seen_failures[r], "spawn_failed")
    BY TargetIsNotRunning
  <2>3. ClaimedKept
    BY <1>2, <1>t DEF SpawnFails, ClaimedKept, DispatchState
  <2>4. FinishRun(run_task[r], r, "spawn_failed", target) /\ UNCHANGED <<eventVars, workerVars>>
    BY <1>2, <2>1, <2>2 DEF SpawnFails
  <2>5. CASE OwnsClaim(run_task[r], r)
    <3>1. PICK t \in Tasks : t = run_task[r]
      BY <2>5 DEF OwnsClaim, TInv, RunsKnown
    <3>2. EndFlow(t, r, "spawn_failed", target)
      BY <2>1, <2>2, <2>3, <2>4, <2>5, <3>1 DEF EndFlow, FinishRun, workerVars, localVars
    <3>3. "spawn_failed" \in TaskRunOutcome \union {"none"}
      BY DEF TaskRunOutcome
    <3> QED BY <3>2, <3>3 DEF FlowStep
  <2>6. CASE ~OwnsClaim(run_task[r], r)
    BY <1>u, <2>3, <2>4, <2>6 DEF FinishRun
  <2> QED BY <2>5, <2>6
<1>3. ASSUME NEW t \in Tasks, ClaimNext(d, t)
      PROVE  FlowStep
  <2>1. CASE Claimable(t) /\ next_run <= MaxRuns
    BY <1>3, <2>1 DEF FlowStep, ClaimFlow
  <2>2. CASE ~(Claimable(t) /\ next_run <= MaxRuns)
    <3>1. ClaimedKept
      BY <1>3, <2>2, <1>t DEF ClaimNext, ClaimedKept, DispatchState
    <3> QED BY <1>3, <1>u, <2>2, <3>1 DEF ClaimNext, workerVars
  <2> QED BY <2>1, <2>2
<1>4. CASE TickStart(d) \/ TickEnd(d) \/ TickRaises(d)
  <2>0. PICK x : disp' = [disp EXCEPT ![d] = x] /\ x.claimed = NoRun
    <3>1. CASE TickStart(d)
      <4> DEFINE y == [IdleDispatch EXCEPT !.pc = "crashed", !.crashed = crashed]
      <4>1. y.claimed = NoRun
        BY DEF IdleDispatch
      <4> QED BY <3>1, <4>1 DEF TickStart
    <3>2. CASE TickEnd(d) \/ TickRaises(d)
      <4>1. IdleDispatch.claimed = NoRun
        BY DEF IdleDispatch
      <4> QED BY <3>2, <4>1 DEF TickEnd, TickRaises
    <3> QED BY <1>4, <3>1, <3>2
  <2>1. ClaimedKept
    BY <2>0, <1>t DEF ClaimedKept
  <2> QED BY <1>4, <2>1 DEF TickStart, TickEnd, TickRaises, FlowStep, RestFlow, taskVars, runVars,
                            workerVars, tableVars, localVars
<1>5. ASSUME NEW r \in Runs, ReadCrashed(d, r)
      PROVE  FlowStep
  <2>1. ClaimedKept
    BY <1>5, <1>t DEF ReadCrashed, ClaimedKept, DispatchState
  <2> QED BY <1>5, <1>u, <2>1 DEF ReadCrashed
<1>6. CASE ListRunning(d)
  <2>1. ClaimedKept
    BY <1>6, <1>t DEF ListRunning, ClaimedKept, DispatchState
  <2> QED BY <1>6, <1>u, <2>1 DEF ListRunning
<1>7. ASSUME NEW e \in disp[d].snapshot, JudgeStale(d, e)
      PROVE  FlowStep
  <2>1. ClaimedKept
    BY <1>7, <1>t DEF JudgeStale, ClaimedKept, DispatchState
  <2> QED BY <1>7, <1>u, <2>1 DEF JudgeStale
<1>8. CASE ListQueued(d)
  <2>1. ClaimedKept
    BY <1>8, <1>t DEF ListQueued, ClaimedKept, DispatchState
  <2> QED BY <1>8, <1>u, <2>1 DEF ListQueued
<1>9. CASE SpawnFailureLost(d)
  <2>1. ClaimedKept
    BY <1>9, <1>t DEF SpawnFailureLost, ClaimedKept, DispatchState
  <2> QED BY <1>9, <1>u, <2>1 DEF SpawnFailureLost
<1>10. CASE Spawn(d)
  BY <1>10 DEF FlowStep
<1> QED BY <1>1, <1>2, <1>3, <1>4, <1>5, <1>6, <1>7, <1>8, <1>9, <1>10 DEF DispatchStep

LEMMA WorkerFlow ==
  ASSUME TInv, NEW r \in Runs, WorkerStep(r)
  PROVE  FlowStep
<1>k. UNCHANGED disp => ClaimedKept
  BY DEF ClaimedKept
<1>1. CASE Heartbeat(r)
  BY <1>1, <1>k DEF Heartbeat, FlowStep, RestFlow, runVars, workerVars, tableVars, localVars
<1>2. CASE FinalizePropose(r)
  <2>1. worker' = [worker EXCEPT ![r] = "executing"]
    BY <1>2, CancelNeverFinds DEF FinalizePropose
  <2>2. CASE OwnsClaim(run_task[r], r)
    <3>1. PICK t \in Tasks : t = run_task[r]
      BY <2>2 DEF OwnsClaim, TInv, RunsKnown
    <3>2. EndFlow(t, r, "waiting_approval", "waiting_approval")
      BY <1>2, <1>k, <2>1, <2>2, <3>1 DEF FinalizePropose, EndFlow, FinishRun
    <3>3. "waiting_approval" \in TaskRunOutcome \union {"none"} /\ "waiting_approval" \in TaskStatus
      BY DEF TaskRunOutcome, TaskStatus
    <3> QED BY <3>2, <3>3 DEF FlowStep
  <2>3. CASE ~OwnsClaim(run_task[r], r)
    <3>1. MoveFlow(r)
      BY <1>2, <1>k, <2>1, <2>3 DEF FinalizePropose, MoveFlow, FinishRun, taskVars, runVars, tableVars
    <3> QED BY <3>1 DEF FlowStep
  <2> QED BY <2>2, <2>3
<1>3. CASE ProposeFallback(r)
  <2>1. CASE UNCHANGED <<status, client>>
    <3>1. MoveFlow(r)
      BY <1>3, <1>k, <2>1 DEF ProposeFallback, MoveFlow, runVars, tableVars
    <3> QED BY <3>1 DEF FlowStep
  <2>2. CASE ~UNCHANGED <<status, client>>
    <3>1. FallbackFlow(r)
      BY <1>3, <1>k, <2>2 DEF ProposeFallback, FallbackFlow, runVars
    <3> QED BY <3>1 DEF FlowStep
  <2> QED BY <2>1, <2>2
<1>4. CASE WorkerFinish(r)
  <2>1. PICK oc \in TaskRunOutcome \union {"none"} : oc = outcome[r]
    BY DEF TInv, TypeOK, WorkersOK
  <2>2. PICK target \in TaskStatus : target = TargetStatus(seen_failures[r], oc)
    BY TargetIsNotRunning
  <2>3. /\ FinishRun(run_task[r], r, oc, target)
        /\ UNCHANGED <<eventVars, disp>>
        /\ worker[r] = "ended"
        /\ worker' = [worker EXCEPT ![r] = "closing"]
        /\ WorkerForgets(r)
    BY <1>4, <2>1, <2>2 DEF WorkerFinish
  <2>4. CASE OwnsClaim(run_task[r], r)
    <3>1. PICK t \in Tasks : t = run_task[r]
      BY <2>4 DEF OwnsClaim, TInv, RunsKnown
    <3>2. EndFlow(t, r, oc, target)
      BY <1>k, <2>1, <2>2, <2>3, <2>4, <3>1 DEF EndFlow, FinishRun
    <3> QED BY <3>2 DEF FlowStep
  <2>5. CASE ~OwnsClaim(run_task[r], r)
    <3>1. MoveFlow(r)
      BY <1>k, <2>3, <2>5 DEF MoveFlow, FinishRun, taskVars, runVars, tableVars
    <3> QED BY <3>1 DEF FlowStep
  <2> QED BY <2>4, <2>5
<1>5. CASE WorkerCloses(r) \/ WorkerRaises(r)
  <2>1. MoveFlow(r)
    BY <1>5, <1>k DEF WorkerCloses, WorkerRaises, MoveFlow, taskVars, runVars, tableVars
  <2> QED BY <2>1 DEF FlowStep
<1>6. CASE Complete(r) \/ Fail(r) \/ ProposeChange(r) \/ ExecutorReturns(r) \/ TimesOut(r)
  BY <1>6 DEF FlowStep
<1> QED BY <1>1, <1>2, <1>3, <1>4, <1>5, <1>6 DEF WorkerStep

LEMMA ClientFlow ==
  ASSUME TInv, NEW c \in Clients, ClientStep(c)
  PROVE  FlowStep
<1> DEFINE t == client[c].task
<1>t. client[c].op # "idle" => t \in Tasks
  BY DEF TInv, ClientHasTask
<1>u. ASSUME UNCHANGED <<status, claim, failures, runVars, eventVars, worker, outcome, seen_failures, disp>>
      PROVE  FlowStep
  BY <1>u DEF FlowStep, RestFlow, ClaimedKept, runVars, tableVars, localVars
<1>v. ASSUME UserFlow(c) PROVE FlowStep
  BY <1>v DEF FlowStep
<1>1. ASSUME NEW op \in Requests, NEW u \in Tasks, ClientRead(c, op, u)
      PROVE  FlowStep
  BY <1>1, <1>u DEF ClientRead, taskVars, workerVars
<1>2. CASE CancelWrite(c) \/ CancelFallback(c)
  <2>1. CASE VersionCurrent(c)
    <3>1. UserFlow(c)
      BY <1>2, <1>t, <2>1 DEF CancelWrite, CancelFallback, UserFlow, VersionCurrent, runVars,
                              eventVars, workerVars, localVars
    <3> QED BY <1>v, <3>1
  <2>2. CASE ~VersionCurrent(c)
    BY <1>2, <1>u, <2>2 DEF CancelWrite, CancelFallback, ClientGivesUp, taskVars, workerVars
  <2> QED BY <2>1, <2>2
<1>3. CASE TerminateRunning(c)
  <2>1. ~CancelFinds(claim[t])
    BY DEF CancelFinds, RunnerToken, RegistryToken
  <2> QED BY <1>3, <1>u, <2>1 DEF TerminateRunning, taskVars
<1>4. CASE RetryWrite(c)
  <2>1. CASE VersionCurrent(c)
    <3>1. UserFlow(c)
      BY <1>4, <1>t, <2>1 DEF RetryWrite, UserFlow, VersionCurrent, runVars, eventVars, workerVars,
                              localVars
    <3> QED BY <1>v, <3>1
  <2>2. CASE ~VersionCurrent(c)
    BY <1>4, <1>u, <2>2 DEF RetryWrite, ClientGivesUp, taskVars, workerVars
  <2> QED BY <2>1, <2>2
<1>5. CASE DeleteWrite(c)
  <2>1. UserFlow(c)
    BY <1>5, <1>t DEF DeleteWrite, UserFlow, eventVars, workerVars, localVars
  <2> QED BY <1>v, <2>1
<1>6. CASE ArchiveWrite(c) \/ UpdateWrite(c)
  BY <1>6, <1>u DEF ArchiveWrite, UpdateWrite, ClientGivesUp, taskVars, workerVars
<1>7. CASE ResolveWrite(c)
  <2>1. CASE VersionCurrent(c) /\ ~is_archived[t] /\ Pending(t) # {}
    <3>1. UserFlow(c)
      BY <1>7, <1>t, <2>1 DEF ResolveWrite, UserFlow, VersionCurrent, runVars, workerVars, localVars
    <3> QED BY <1>v, <3>1
  <2>2. CASE ~(VersionCurrent(c) /\ ~is_archived[t] /\ Pending(t) # {})
    BY <1>7, <1>u, <2>2 DEF ResolveWrite, ClientGivesUp, taskVars, eventVars, workerVars
  <2> QED BY <2>1, <2>2
<1> QED BY <1>1, <1>2, <1>3, <1>4, <1>5, <1>6, <1>7 DEF ClientStep

LEMMA NextFlow ==
  ASSUME TInv, [Next]_vars
  PROVE  FlowStep
<1>u. ASSUME UNCHANGED <<status, claim, failures, runVars, eventVars, workerVars, disp>>
      PROVE  FlowStep
  BY <1>u DEF FlowStep, RestFlow, ClaimedKept, runVars, workerVars, tableVars, localVars
<1>1. ASSUME NEW t \in Tasks,
             CreateTask(t) \/ HeartbeatGoesStale(t) \/ LeaseExpires(t) \/ ScheduleDue(t)
      PROVE  FlowStep
  <2>1. CASE CreateTask(t)
    BY <2>1 DEF FlowStep
  <2>2. CASE HeartbeatGoesStale(t) \/ LeaseExpires(t) \/ ScheduleDue(t)
    BY <1>u, <2>2 DEF HeartbeatGoesStale, LeaseExpires, ScheduleDue
  <2> QED BY <1>1, <2>1, <2>2
<1>2. CASE Restart
  BY <1>2 DEF FlowStep
<1>3. CASE UNCHANGED vars
  BY <1>u, <1>3 DEF vars, taskVars
<1> QED BY <1>1, <1>2, <1>3, DispatchFlow, WorkerFlow, ClientFlow DEF Next

-----------------------------------------------------------------------------
(* The parts of FInv, one by one                                              *)

\* Workers are started by a spawn only.
NoneStarted == \A r \in Runs : worker'[r] = "none" <=> worker[r] = "none"

LEMMA FlowStarts ==
  ASSUME TInv, FlowStep, \A d \in Dispatchers : ~Spawn(d)
  PROVE  NoneStarted
<1>t. WorkersOK
  BY DEF TInv, TypeOK
<1>1. ASSUME NEW d \in Dispatchers, NEW t \in Tasks, ClaimFlow(d, t)
      PROVE  NoneStarted
  BY <1>1 DEF ClaimFlow, ClaimNext, NoneStarted
<1>2. ASSUME NEW t \in Tasks, NEW r \in Runs, NEW oc, NEW target, EndFlow(t, r, oc, target)
      PROVE  NoneStarted
  <2>1. \/ worker' = worker
        \/ worker[r] # "none" /\ worker' = [worker EXCEPT ![r] = "executing"]
        \/ worker[r] # "none" /\ worker' = [worker EXCEPT ![r] = "closing"]
    BY <1>2 DEF EndFlow, localVars
  <2> QED BY <1>t, <2>1 DEF NoneStarted, WorkersOK
<1>3. ASSUME NEW r \in Runs,
             \/ MoveFlow(r) \/ FallbackFlow(r) \/ ExecutorReturns(r) \/ TimesOut(r)
             \/ Complete(r) \/ Fail(r) \/ ProposeChange(r)
      PROVE  NoneStarted
  <2>1. \/ worker' = worker
        \/ /\ worker[r] # "none"
           /\ \E w \in WorkerState \ {"none"} : worker' = [worker EXCEPT ![r] = w]
    BY <1>3 DEF MoveFlow, FallbackFlow, ExecutorReturns, TimesOut, Complete, Fail, SubmitIntent,
                ProposeChange, WorkerState, workerVars
  <2> QED BY <1>t, <2>1 DEF NoneStarted, WorkersOK
<1>4. CASE \/ RestFlow \/ (\E c \in Clients : UserFlow(c)) \/ (\E t \in Tasks : CreateTask(t))
  BY <1>4 DEF RestFlow, UserFlow, CreateTask, NoneStarted, localVars, workerVars
<1>5. CASE Restart
  BY <1>5 DEF Restart, NoneStarted
<1> QED BY <1>1, <1>2, <1>3, <1>4, <1>5 DEF FlowStep

LEMMA FlowKeepsClaimed ==
  ASSUME TInv, FlowStep, \A d \in Dispatchers, t \in Tasks : ~ClaimFlow(d, t)
  PROVE  ClaimedKept
<1>t. disp \in [Dispatchers -> DispatchState]
  BY DEF TInv, TypeOK
<1>1. ASSUME NEW d \in Dispatchers, Spawn(d)
      PROVE  ClaimedKept
  BY <1>1, <1>t DEF Spawn, ClaimedKept, DispatchState
<1>2. CASE Restart
  BY <1>2 DEF Restart, ClaimedKept, IdleDispatch
<1>3. CASE \/ RestFlow \/ (\E t \in Tasks, r \in Runs, oc \in TaskRunOutcome \union {"none"},
                                target \in TaskStatus : EndFlow(t, r, oc, target))
           \/ (\E r \in Runs : MoveFlow(r) \/ FallbackFlow(r))
  BY <1>3 DEF RestFlow, EndFlow, MoveFlow, FallbackFlow
<1>4. CASE \/ (\E r \in Runs : \/ ExecutorReturns(r) \/ TimesOut(r)
                               \/ Complete(r) \/ Fail(r) \/ ProposeChange(r))
           \/ (\E c \in Clients : UserFlow(c)) \/ (\E t \in Tasks : CreateTask(t))
  BY <1>4 DEF ExecutorReturns, TimesOut, Complete, Fail, SubmitIntent, ProposeChange, UserFlow,
              CreateTask, ClaimedKept
<1> QED BY <1>1, <1>2, <1>3, <1>4 DEF FlowStep

\* What a claim does to the variables of the flow.
LEMMA ClaimFlowEffect ==
  ASSUME TInv, NEW d \in Dispatchers, NEW t \in Tasks, ClaimFlow(d, t)
  PROVE  /\ next_run \in Runs /\ next_run # NoRun
         /\ run_task[next_run] = NoTask /\ worker[next_run] = "none"
         /\ run_status[next_run] = "absent"
         /\ status[t] = "queued"
         /\ disp[d].claimed = NoRun
         /\ disp'[d].claimed = next_run
         /\ \A e \in Dispatchers : e # d => disp'[e] = disp[e]
         /\ seen_failures' = [seen_failures EXCEPT ![next_run] = failures[t]]
         /\ run_task' = [run_task EXCEPT ![next_run] = t]
         /\ run_status' = [run_status EXCEPT ![next_run] = "running"]
         /\ claim' = [claim EXCEPT ![t] = next_run]
         /\ status' = [status EXCEPT ![t] = "running"]
         /\ next_run' = next_run + 1
         /\ UNCHANGED <<eventVars, worker, outcome, failures>>
<1>t. disp \in [Dispatchers -> DispatchState] /\ RowsOK
  BY DEF TInv, TypeOK
<1>1. next_run \in Runs /\ next_run # NoRun
  BY RunsAreNotNoRun DEF ClaimFlow, ClaimNext, ClaimTask
<1>2. ~(next_run < next_run)
  BY <1>t DEF RowsOK
<1>3. /\ disp[d].claimed = NoRun
      /\ disp' = [disp EXCEPT ![d].queue = @ \ {t}, ![d].claimed = next_run]
  BY DEF ClaimFlow, ClaimNext
<1>4. disp'[d].claimed = next_run /\ \A e \in Dispatchers : e # d => disp'[e] = disp[e]
  BY <1>3, <1>t DEF DispatchState
<1>5. run_task[next_run] = NoTask /\ worker[next_run] = "none" /\ run_status[next_run] = "absent"
  BY <1>1, <1>2 DEF TInv, RunsKnown
<1> QED BY <1>1, <1>3, <1>4, <1>5 DEF ClaimFlow, ClaimNext, ClaimTask, Claimable

LEMMA SpawnEffect ==
  ASSUME TInv, NEW d \in Dispatchers, Spawn(d)
  PROVE  /\ disp[d].claimed \in Runs /\ disp[d].claimed # NoRun
         /\ disp'[d].claimed = NoRun
         /\ \A e \in Dispatchers : e # d => disp'[e] = disp[e]
         /\ worker' = [worker EXCEPT ![disp[d].claimed] = "executing"]
         /\ UNCHANGED <<tableVars, eventVars, outcome, seen_failures>>
<1>t. disp \in [Dispatchers -> DispatchState]
  BY DEF TInv, TypeOK
<1>1. disp[d].claimed \in Runs
  BY <1>t DEF Spawn, DispatchState
<1>2. disp'[d].claimed = NoRun /\ \A e \in Dispatchers : e # d => disp'[e] = disp[e]
  BY <1>t DEF Spawn, DispatchState
<1> QED BY <1>1, <1>2 DEF Spawn, taskVars, runVars, tableVars

LEMMA FlowKeepsUnspawned ==
  ASSUME TInv, Unspawned, FlowStep
  PROVE  Unspawned'
<1>t. /\ disp \in [Dispatchers -> DispatchState] /\ WorkersOK
      /\ \A d \in Dispatchers : disp[d].claimed \in Runs \union {NoRun}
  BY DEF TInv, TypeOK, DispatchState
<1>1. CASE NoneStarted /\ ClaimedKept
  BY <1>1, <1>t DEF Unspawned, NoneStarted, ClaimedKept
<1>2. ASSUME NEW d \in Dispatchers, NEW t \in Tasks, ClaimFlow(d, t)
      PROVE  Unspawned'
  <2>1. \A e \in Dispatchers : disp[e].claimed # NoRun => disp[e].claimed # next_run
    <3>1. next_run \in Nat
      BY DEF TInv, TypeOK, RowsOK
    <3>2. ASSUME NEW e \in Dispatchers, disp[e].claimed # NoRun
          PROVE  disp[e].claimed < next_run
      BY <3>2 DEF TInv, ClaimHasSlot
    <3> QED BY <3>1, <3>2
  <2> QED BY <1>2, <2>1, ClaimFlowEffect DEF Unspawned
<1>3. ASSUME NEW d \in Dispatchers, Spawn(d)
      PROVE  Unspawned'
  <2> SUFFICES ASSUME NEW e \in Dispatchers, disp'[e].claimed # NoRun
               PROVE  /\ worker'[disp'[e].claimed] = "none"
                      /\ \A f \in Dispatchers : disp'[f].claimed = disp'[e].claimed => f = e
    BY DEF Unspawned
  <2>1. e # d /\ disp'[e] = disp[e]
    BY <1>3, SpawnEffect
  <2>2. worker[disp[e].claimed] = "none" /\ disp[e].claimed # disp[d].claimed
    BY <1>3, <2>1, SpawnEffect DEF Unspawned
  <2>3. worker'[disp[e].claimed] = "none"
    BY <1>3, <1>t, <2>1, <2>2, SpawnEffect DEF WorkersOK
  <2>4. ASSUME NEW f \in Dispatchers, disp'[f].claimed = disp[e].claimed
        PROVE  f = e
    <3>1. f # d
      BY <1>3, <2>1, <2>4, SpawnEffect
    <3> QED BY <1>3, <2>1, <2>4, <3>1, SpawnEffect DEF Unspawned
  <2> QED BY <2>1, <2>3, <2>4
<1> QED BY <1>1, <1>2, <1>3, FlowStarts, FlowKeepsClaimed

\* Only a claim makes a run held.
LEMMA HeldBefore ==
  ASSUME TInv, FlowStep, NEW r \in Runs, Held(r)',
         \A d \in Dispatchers, t \in Tasks : ~ClaimFlow(d, t)
  PROVE  Held(r)
<1>t. WorkersOK
  BY DEF TInv, TypeOK
<1> DEFINE Busy == {"executing", "proposing", "ended"}
<1>1. CASE \E d \in Dispatchers : disp'[d].claimed = r
  <2>1. ClaimedKept
    BY FlowKeepsClaimed
  <2> QED BY <1>1, <2>1, RunsAreNotNoRun DEF ClaimedKept, Held
<1>2. CASE worker'[r] \in Busy
  <2>0. SUFFICES worker[r] \in Busy \/ \E d \in Dispatchers : disp[d].claimed = r
    BY DEF Held
  <2>1. ASSUME NEW d \in Dispatchers, Spawn(d)
        PROVE  worker[r] \in Busy \/ \E e \in Dispatchers : disp[e].claimed = r
    BY <1>2, <1>t, <2>1, SpawnEffect DEF WorkersOK
  <2>2. ASSUME NEW t \in Tasks, NEW q \in Runs, NEW oc, NEW target, EndFlow(t, q, oc, target)
        PROVE  worker[r] \in Busy
    <3>1. \/ worker' = worker
          \/ worker[q] = "proposing" /\ worker' = [worker EXCEPT ![q] = "executing"]
          \/ worker' = [worker EXCEPT ![q] = "closing"]
      BY <2>2 DEF EndFlow, localVars
    <3> QED BY <1>2, <1>t, <3>1 DEF WorkersOK
  <2>3. ASSUME NEW q \in Runs,
               \/ MoveFlow(q) \/ FallbackFlow(q) \/ ExecutorReturns(q) \/ TimesOut(q)
               \/ Complete(q) \/ Fail(q) \/ ProposeChange(q)
        PROVE  worker[r] \in Busy
    <3>1. \/ worker' = worker
          \/ \E w : worker[q] \in Busy /\ worker' = [worker EXCEPT ![q] = w]
          \/ \E w \in {"closing", "gone"} : worker' = [worker EXCEPT ![q] = w]
      BY <2>3 DEF MoveFlow, FallbackFlow, ExecutorReturns, TimesOut, Complete, Fail, SubmitIntent,
                  ProposeChange, workerVars
    <3> QED BY <1>2, <1>t, <3>1 DEF WorkersOK
  <2>4. CASE \/ RestFlow \/ (\E c \in Clients : UserFlow(c)) \/ (\E t \in Tasks : CreateTask(t))
    BY <1>2, <2>4 DEF RestFlow, UserFlow, CreateTask, localVars, workerVars
  <2>5. CASE Restart
    BY <1>2, <2>5 DEF Restart
  <2> QED BY <2>1, <2>2, <2>3, <2>4, <2>5 DEF FlowStep
<1> QED BY <1>1, <1>2 DEF Held

\* A held run was claimed.
LEMMA HeldIsKnown ==
  ASSUME TInv, NEW r \in Runs, Held(r)
  PROVE  r < next_run /\ run_task[r] \in Tasks
<1>1. r < next_run
  <2>1. CASE worker[r] \in {"executing", "proposing", "ended"}
    BY <2>1 DEF TInv, RunsKnown
  <2>2. CASE \E d \in Dispatchers : disp[d].claimed = r
    BY <2>2, RunsAreNotNoRun DEF TInv, ClaimHasSlot
  <2> QED BY <2>1, <2>2 DEF Held
<1> QED BY <1>1 DEF TInv, RunsKnown

\* Only a claim gives a task a run; only the end of the owner counts failures.
LEMMA ClaimBefore ==
  ASSUME TInv, FlowStep, \A d \in Dispatchers, t \in Tasks : ~ClaimFlow(d, t)
  PROVE  /\ run_task' = run_task /\ next_run' = next_run
         /\ \A t \in Tasks : claim'[t] # NoRun =>
              claim'[t] = claim[t] /\ failures'[t] = failures[t]
<1>t. RowsOK
  BY DEF TInv, TypeOK
<1>1. ASSUME NEW d \in Dispatchers, Spawn(d)
      PROVE  UNCHANGED tableVars
  BY <1>1, SpawnEffect
<1>2. ASSUME NEW t \in Tasks, NEW q \in Runs, NEW oc, NEW target, EndFlow(t, q, oc, target)
      PROVE  /\ run_task' = run_task /\ next_run' = next_run
             /\ \A u \in Tasks : claim'[u] # NoRun =>
                  claim'[u] = claim[u] /\ failures'[u] = failures[u]
  BY <1>2, <1>t DEF EndFlow, Finalize, RowsOK
<1>3. ASSUME NEW c \in Clients, UserFlow(c)
      PROVE  /\ run_task' = run_task /\ next_run' = next_run
             /\ \A u \in Tasks : claim'[u] # NoRun =>
                  claim'[u] = claim[u] /\ failures'[u] = failures[u]
  BY <1>3, <1>t DEF UserFlow, RowsOK
<1>4. CASE \/ RestFlow \/ Restart \/ (\E t \in Tasks : CreateTask(t))
           \/ (\E r \in Runs : \/ MoveFlow(r) \/ FallbackFlow(r) \/ ExecutorReturns(r) \/ TimesOut(r)
                               \/ Complete(r) \/ Fail(r) \/ ProposeChange(r))
  <2>1. UNCHANGED <<claim, failures, run_task, next_run>>
    BY <1>4 DEF RestFlow, Restart, CreateTask, MoveFlow, FallbackFlow, ExecutorReturns, TimesOut,
                Complete, Fail, SubmitIntent, ProposeChange, taskVars, runVars, tableVars
  <2> QED BY <2>1
<1> QED BY <1>1, <1>2, <1>3, <1>4 DEF FlowStep, tableVars

\* The locals of a held run are its own.
LEMMA HeldLocals ==
  ASSUME TInv, Unspawned, FlowStep, NEW r \in Runs, Held(r)',
         \A d \in Dispatchers, t \in Tasks : ~ClaimFlow(d, t)
  PROVE  seen_failures'[r] = seen_failures[r]
<1>t. WorkersOK
  BY DEF TInv, TypeOK
<1>0. UNCHANGED seen_failures => seen_failures'[r] = seen_failures[r]
  OBVIOUS
<1>h. \A w \in {"closing", "gone"} : worker' = [worker EXCEPT ![r] = w] => worker[r] = "none"
  <2> SUFFICES ASSUME NEW w \in {"closing", "gone"}, worker' = [worker EXCEPT ![r] = w]
               PROVE  worker[r] = "none"
    OBVIOUS
  <2>1. worker'[r] = w
    BY <1>t DEF WorkersOK
  <2>2. \A d \in Dispatchers : ~Spawn(d)
    <3> SUFFICES ASSUME NEW d \in Dispatchers, Spawn(d) PROVE FALSE
      OBVIOUS
    <3>1. worker' = [worker EXCEPT ![disp[d].claimed] = "executing"] /\ disp[d].claimed \in Runs
      BY SpawnEffect
    <3>2. worker'[disp[d].claimed] = "executing" /\ worker[disp[d].claimed] = "none"
      BY <1>t, <3>1, SpawnEffect DEF WorkersOK, Unspawned
    <3> QED BY <1>t, <2>1, <3>1, <3>2 DEF WorkersOK
  <2>3. PICK d \in Dispatchers : disp'[d].claimed = r
    BY <2>1 DEF Held
  <2>4. disp[d].claimed = r
    BY <2>3, FlowKeepsClaimed, RunsAreNotNoRun DEF ClaimedKept
  <2> QED BY <2>4, RunsAreNotNoRun DEF Unspawned
<1>f. ASSUME NEW q \in Runs, WorkerForgets(q),
             worker[q] # "none",
             \E w \in {"closing", "gone"} : worker' = [worker EXCEPT ![q] = w]
      PROVE  seen_failures'[r] = seen_failures[r]
  <2>1. q # r
    BY <1>f, <1>h
  <2> QED BY <1>f, <1>t, <2>1 DEF WorkerForgets, WorkersOK
<1>1. ASSUME NEW d \in Dispatchers, Spawn(d)
      PROVE  seen_failures' = seen_failures
  BY <1>1, SpawnEffect
<1>2. ASSUME NEW t \in Tasks, NEW q \in Runs, NEW oc, NEW target, EndFlow(t, q, oc, target)
      PROVE  seen_failures'[r] = seen_failures[r]
  <2>1. \/ UNCHANGED seen_failures
        \/ worker[q] # "none" /\ worker' = [worker EXCEPT ![q] = "closing"] /\ WorkerForgets(q)
    BY <1>2 DEF EndFlow, localVars
  <2> QED BY <1>0, <1>f, <2>1
<1>3. ASSUME NEW q \in Runs, MoveFlow(q)
      PROVE  seen_failures'[r] = seen_failures[r]
  <2>1. \/ UNCHANGED seen_failures
        \/ /\ worker[q] # "none" /\ WorkerForgets(q)
           /\ \E w \in {"closing", "gone"} : worker' = [worker EXCEPT ![q] = w]
    BY <1>3 DEF MoveFlow
  <2> QED BY <1>0, <1>f, <2>1
<1>4. CASE \/ RestFlow \/ (\E t \in Tasks : CreateTask(t)) \/ (\E c \in Clients : UserFlow(c))
           \/ (\E q \in Runs : \/ FallbackFlow(q) \/ ExecutorReturns(q) \/ TimesOut(q)
                               \/ Complete(q) \/ Fail(q) \/ ProposeChange(q))
  <2>1. UNCHANGED seen_failures
    BY <1>4 DEF RestFlow, CreateTask, UserFlow, FallbackFlow, ExecutorReturns, TimesOut,
                Complete, Fail, SubmitIntent, ProposeChange, workerVars, localVars
  <2> QED BY <1>0, <2>1
<1>5. CASE Restart
  <2>1. worker'[r] \notin {"executing", "proposing", "ended"}
    BY <1>5 DEF Restart
  <2>2. PICK d \in Dispatchers : disp'[d].claimed = r
    BY <2>1 DEF Held
  <2>3. disp'[d].claimed = NoRun
    BY <1>5 DEF Restart, IdleDispatch
  <2> QED BY <2>2, <2>3, RunsAreNotNoRun
<1> QED BY <1>0, <1>1, <1>2, <1>3, <1>4, <1>5 DEF FlowStep

LEMMA FlowKeepsSeen ==
  ASSUME TInv, Unspawned, SeenIsCurrent, FlowStep
  PROVE  SeenIsCurrent'
<1>t. RowsOK /\ WorkersOK
  BY DEF TInv, TypeOK
<1> SUFFICES ASSUME NEW r \in Runs, Held(r)', claim'[run_task'[r]] = r
             PROVE  seen_failures'[r] = failures'[run_task'[r]]
  BY DEF SeenIsCurrent
<1>1. CASE \A d \in Dispatchers, t \in Tasks : ~ClaimFlow(d, t)
  <2>1. Held(r) /\ run_task[r] \in Tasks
    BY <1>1, HeldBefore, HeldIsKnown
  <2>2. run_task' = run_task /\ claim[run_task[r]] = r /\ failures'[run_task[r]] = failures[run_task[r]]
    BY <1>1, <2>1, ClaimBefore, RunsAreNotNoRun
  <2>3. seen_failures'[r] = seen_failures[r]
    BY <1>1, HeldLocals
  <2> QED BY <2>1, <2>2, <2>3 DEF SeenIsCurrent
<1>2. ASSUME NEW d \in Dispatchers, NEW t \in Tasks, ClaimFlow(d, t)
      PROVE  seen_failures'[r] = failures'[run_task'[r]]
  <2> USE ClaimFlowEffect, <1>2
  <2>1. CASE r = next_run
    BY <1>t, <2>1 DEF RowsOK, WorkersOK
  <2>2. CASE r # next_run
    <3>1. /\ run_task'[r] = run_task[r]
          /\ seen_failures'[r] = seen_failures[r]
          /\ failures' = failures
      BY <1>t, <2>2 DEF RowsOK, WorkersOK
    <3>2. Held(r)
      BY <2>2 DEF Held
    <3>3. run_task[r] \in Tasks
      BY <3>2, HeldIsKnown
    <3>4. claim[run_task[r]] = r
      BY <1>t, <2>2, <3>1, <3>3 DEF RowsOK
    <3> QED BY <3>1, <3>2, <3>4 DEF SeenIsCurrent
  <2> QED BY <2>1, <2>2
<1> QED BY <1>1, <1>2

\* The steps that write no event.
EventsKept == UNCHANGED <<intent, proposed, resolved, foreign>>

LEMMA FlowEvents ==
  ASSUME TInv, FlowStep,
         \A r \in Runs : ~(Complete(r) \/ Fail(r) \/ ProposeChange(r)),
         \A c \in Clients : ~UserFlow(c)
  PROVE  EventsKept
<1>1. ASSUME NEW d \in Dispatchers, Spawn(d) \/ \E t \in Tasks : ClaimFlow(d, t)
      PROVE  EventsKept
  BY <1>1, SpawnEffect, ClaimFlowEffect DEF EventsKept, eventVars
<1>2. CASE \/ RestFlow \/ Restart \/ (\E t \in Tasks : CreateTask(t))
           \/ (\E t \in Tasks, r \in Runs, oc \in TaskRunOutcome \union {"none"},
                                target \in TaskStatus : EndFlow(t, r, oc, target))
           \/ (\E r \in Runs : \/ MoveFlow(r) \/ FallbackFlow(r) \/ ExecutorReturns(r) \/ TimesOut(r))
  BY <1>2 DEF RestFlow, Restart, CreateTask, EndFlow, MoveFlow, FallbackFlow, ExecutorReturns,
              TimesOut, EventsKept, eventVars
<1> QED BY <1>1, <1>2 DEF FlowStep

\* A worker begins to propose with its event, and ends with an outcome.
LEMMA FlowWorkers ==
  ASSUME TInv, Unspawned, FlowStep, NEW r \in Runs
  PROVE  /\ worker'[r] = "proposing" => worker[r] = "proposing" \/ ProposeChange(r)
         /\ worker'[r] = "ended" =>
              \/ worker[r] = "ended" /\ outcome'[r] = outcome[r]
              \/ ExecutorReturns(r) \/ TimesOut(r)
<1>t. WorkersOK
  BY DEF TInv, TypeOK
<1> DEFINE Goal == /\ worker'[r] = "proposing" => worker[r] = "proposing" \/ ProposeChange(r)
                   /\ worker'[r] = "ended" =>
                        \/ worker[r] = "ended" /\ outcome'[r] = outcome[r]
                        \/ ExecutorReturns(r) \/ TimesOut(r)
<1>u. ASSUME NEW q \in Runs, q # r \/ worker'[r] \in {"executing", "closing", "gone"},
             \E w : worker' = [worker EXCEPT ![q] = w],
             \/ UNCHANGED outcome
             \/ \E o : outcome' = [outcome EXCEPT ![q] = o]
      PROVE  Goal
  BY <1>t, <1>u DEF WorkersOK
<1>v. ASSUME UNCHANGED <<worker, outcome>> PROVE Goal
  BY <1>v
<1>1. ASSUME NEW d \in Dispatchers, Spawn(d)
      PROVE  Goal
  <2>1. PICK q \in Runs : q = disp[d].claimed
    BY <1>1, SpawnEffect
  <2>2. worker' = [worker EXCEPT ![q] = "executing"] /\ UNCHANGED outcome
    BY <1>1, <2>1, SpawnEffect
  <2>3. q # r \/ worker'[r] = "executing"
    BY <1>t, <2>2 DEF WorkersOK
  <2> QED BY <1>u, <2>2, <2>3
<1>2. ASSUME NEW d \in Dispatchers, NEW t \in Tasks, ClaimFlow(d, t)
      PROVE  Goal
  BY <1>2, <1>v, ClaimFlowEffect
<1>3. ASSUME NEW t \in Tasks, NEW q \in Runs, NEW oc, NEW target, EndFlow(t, q, oc, target)
      PROVE  Goal
  <2>1. \/ UNCHANGED <<worker, outcome>>
        \/ /\ \E w \in {"executing", "closing"} : worker' = [worker EXCEPT ![q] = w]
           /\ \/ UNCHANGED outcome
              \/ \E o : outcome' = [outcome EXCEPT ![q] = o]
    BY <1>3 DEF EndFlow, WorkerForgets, localVars
  <2>2. CASE UNCHANGED <<worker, outcome>>
    BY <1>v, <2>2
  <2>3. CASE ~UNCHANGED <<worker, outcome>>
    <3>1. q # r \/ worker'[r] \in {"executing", "closing", "gone"}
      BY <1>t, <2>1, <2>3 DEF WorkersOK
    <3> QED BY <1>u, <2>1, <2>3, <3>1
  <2> QED BY <2>2, <2>3
<1>4. ASSUME NEW q \in Runs, MoveFlow(q) \/ FallbackFlow(q)
      PROVE  Goal
  <2>1. /\ \E w \in {"executing", "closing", "gone"} : worker' = [worker EXCEPT ![q] = w]
        /\ \/ UNCHANGED outcome
           \/ \E o : outcome' = [outcome EXCEPT ![q] = o]
    BY <1>4 DEF MoveFlow, FallbackFlow, WorkerForgets
  <2>2. q # r \/ worker'[r] \in {"executing", "closing", "gone"}
    BY <1>t, <2>1 DEF WorkersOK
  <2> QED BY <1>u, <2>1, <2>2
<1>5. ASSUME NEW q \in Runs, ExecutorReturns(q) \/ TimesOut(q) \/ ProposeChange(q)
      PROVE  Goal
  <2>1. CASE q # r
    BY <1>5, <1>u, <2>1 DEF ExecutorReturns, TimesOut, ProposeChange
  <2>2. CASE q = r
    BY <1>5, <1>t, <2>2 DEF ExecutorReturns, TimesOut, ProposeChange, WorkersOK
  <2> QED BY <2>1, <2>2
<1>6. CASE \/ RestFlow \/ (\E c \in Clients : UserFlow(c)) \/ (\E t \in Tasks : CreateTask(t))
           \/ (\E q \in Runs : Complete(q) \/ Fail(q))
  BY <1>6, <1>v DEF RestFlow, UserFlow, CreateTask, Complete, Fail, SubmitIntent, localVars, workerVars
<1>7. CASE Restart
  BY <1>7 DEF Restart
<1> QED BY <1>1, <1>2, <1>3, <1>4, <1>5, <1>6, <1>7 DEF FlowStep

\* An intent is stamped on the run that owns the task.
LEMMA SubmitEffect ==
  ASSUME TInv, NEW r \in Runs, Complete(r) \/ Fail(r)
  PROVE  \E q \in Runs, k \in {"complete", "fail"}, t \in Tasks :
           /\ worker[r] = "executing" /\ claim[t] = q
           /\ intent' = [intent EXCEPT ![q] = k]
           /\ foreign' = IF q = r THEN foreign \ {r} ELSE foreign \union {q}
           /\ UNCHANGED <<tableVars, proposed, resolved, localVars, disp>>
<1>1. PICK k \in {"complete", "fail"} : SubmitIntent(r, k)
  BY DEF Complete, Fail
<1>2. PICK t \in Tasks : t = run_task[r]
  BY <1>1 DEF SubmitIntent, TInv, RunsKnown
<1>3. PICK q \in Runs : q = claim[t]
  BY <1>1, <1>2 DEF SubmitIntent, TInv, TypeOK, RowsOK
<1> QED BY <1>1, <1>2, <1>3 DEF SubmitIntent, taskVars, runVars, workerVars, tableVars, localVars

LEMMA FlowKeepsProposals ==
  ASSUME TInv, Unspawned, ProposalsKnown, FlowStep
  PROVE  ProposalsKnown'
<1>t. EventsOK /\ RowsOK
  BY DEF TInv, TypeOK
<1>n. next_run \in Nat /\ next_run' \in Nat /\ next_run <= next_run'
  <2>1. CASE \A d \in Dispatchers, t \in Tasks : ~ClaimFlow(d, t)
    BY <1>t, <2>1, ClaimBefore DEF RowsOK
  <2>2. ASSUME NEW d \in Dispatchers, NEW t \in Tasks, ClaimFlow(d, t)
        PROVE  next_run' = next_run + 1
    BY <2>2, ClaimFlowEffect
  <2> QED BY <1>t, <2>1, <2>2 DEF RowsOK
<1>w. \A r \in Runs : worker'[r] = "proposing" => worker[r] = "proposing" \/ ProposeChange(r)
  BY FlowWorkers
<1>r. \A r \in proposed : r \in Runs /\ r \in Nat /\ r < next_run
  BY <1>t DEF ProposalsKnown, EventsOK, Runs
<1>1. CASE EventsKept /\ \A r \in Runs : ~ProposeChange(r)
  BY <1>1, <1>n, <1>w, <1>r DEF EventsKept, ProposalsKnown
<1>2. ASSUME NEW r \in Runs, ProposeChange(r)
      PROVE  ProposalsKnown'
  <2>1. r < next_run /\ r \in Nat
    BY <1>2 DEF ProposeChange, TInv, RunsKnown, Runs
  <2>2. /\ proposed' = proposed \union {r}
        /\ resolved' = resolved
        /\ \A q \in Runs : q # r => intent'[q] = intent[q] /\ worker'[q] = worker[q]
    BY <1>2, <1>t DEF ProposeChange, EventsOK
  <2>3. \A q \in proposed' : q < next_run'
    BY <1>n, <1>r, <2>1, <2>2
  <2> QED BY <2>2, <2>3 DEF ProposalsKnown
<1>3. ASSUME NEW r \in Runs, Complete(r) \/ Fail(r)
      PROVE  ProposalsKnown'
  <2>1. PICK q \in Runs, k \in {"complete", "fail"} :
               /\ intent' = [intent EXCEPT ![q] = k]
               /\ UNCHANGED <<tableVars, proposed, resolved, localVars>>
    BY <1>3, SubmitEffect
  <2>2. \A p \in Runs : intent'[p] = "propose" => intent[p] = "propose"
    BY <1>t, <2>1 DEF EventsOK
  <2> QED BY <2>1, <2>2 DEF ProposalsKnown, tableVars, localVars
<1>4. ASSUME NEW c \in Clients, UserFlow(c)
      PROVE  ProposalsKnown'
  <2>1. resolved' \subseteq proposed
    <3>1. resolved' = resolved \/ \E r \in Pending(client[c].task) : resolved' = resolved \union {r}
      BY <1>4 DEF UserFlow
    <3> QED BY <3>1 DEF ProposalsKnown, Pending
  <2>2. UNCHANGED <<intent, proposed, worker, next_run>>
    BY <1>4 DEF UserFlow, localVars
  <2> QED BY <2>1, <2>2 DEF ProposalsKnown
<1> QED BY <1>1, <1>2, <1>3, <1>4, FlowEvents

LEMMA FlowKeepsJustified ==
  ASSUME TInv, Unspawned, ProposalsKnown, OutcomeJustified, FlowStep
  PROVE  OutcomeJustified'
<1>t. EventsOK /\ WorkersOK
  BY DEF TInv, TypeOK
<1> SUFFICES ASSUME NEW r \in Runs, worker'[r] = "ended"
             PROVE  /\ outcome'[r] # "none"
                    /\ outcome'[r] = "completed" => intent'[r] = "complete" \/ r \in foreign'
                    /\ outcome'[r] = "waiting_approval" => r \in proposed'
  BY DEF OutcomeJustified
<1>1. CASE ExecutorReturns(r) \/ TimesOut(r)
  <2>1. EventsKept
    BY <1>1 DEF ExecutorReturns, TimesOut, EventsKept, eventVars
  <2>2. outcome'[r] \in {OutcomeOf(intent[r]), "failed", "crashed", "terminated", "timed_out"}
    BY <1>1, <1>t DEF ExecutorReturns, TimesOut, WorkersOK
  <2>3. /\ outcome'[r] # "none"
        /\ outcome'[r] = "completed" => intent[r] = "complete"
        /\ outcome'[r] = "waiting_approval" => intent[r] = "propose"
    BY <2>2 DEF OutcomeOf
  <2> QED BY <2>1, <2>3 DEF EventsKept, ProposalsKnown
<1>2. CASE worker[r] = "ended" /\ outcome'[r] = outcome[r]
  <2>1. /\ outcome[r] # "none"
        /\ outcome[r] = "completed" => intent[r] = "complete" \/ r \in foreign
        /\ outcome[r] = "waiting_approval" => r \in proposed
    BY <1>2 DEF OutcomeJustified
  <2>2. CASE EventsKept
    BY <1>2, <2>1, <2>2 DEF EventsKept
  <2>3. ASSUME NEW q \in Runs, ProposeChange(q)
        PROVE  /\ intent'[r] = intent[r]
               /\ r \in proposed => r \in proposed'
               /\ r \in foreign => r \in foreign'
    <3>1. q # r
      BY <1>2, <2>3 DEF ProposeChange
    <3> QED BY <2>3, <1>t, <3>1 DEF ProposeChange, EventsOK
  <2>4. ASSUME NEW q \in Runs, Complete(q) \/ Fail(q)
        PROVE  /\ proposed' = proposed
               /\ r \in foreign' \/ (intent'[r] = intent[r] /\ r \notin foreign)
    <3>1. PICK p \in Runs, k \in {"complete", "fail"} :
                 /\ worker[q] = "executing"
                 /\ intent' = [intent EXCEPT ![p] = k]
                 /\ foreign' = IF p = q THEN foreign \ {q} ELSE foreign \union {p}
                 /\ proposed' = proposed
      BY <2>4, SubmitEffect
    <3>2. q # r
      BY <1>2, <3>1
    <3> QED BY <1>t, <3>1, <3>2 DEF EventsOK
  <2>5. ASSUME NEW c \in Clients, UserFlow(c)
        PROVE  UNCHANGED <<intent, proposed, foreign>>
    BY <2>5 DEF UserFlow
  <2>6. CASE \E c \in Clients : UserFlow(c)
    BY <1>2, <2>1, <2>5, <2>6
  <2>7. CASE \E q \in Runs : Complete(q) \/ Fail(q) \/ ProposeChange(q)
    BY <1>2, <2>1, <2>3, <2>4, <2>7
  <2> QED BY <2>2, <2>6, <2>7, FlowEvents
<1> QED BY <1>1, <1>2, FlowWorkers

LEMMA FlowKeepsLatest ==
  ASSUME OInv, ClaimIsLive, ProposalsKnown, ClaimIsLatest, FlowStep
  PROVE  ClaimIsLatest'
<1>t. TInv /\ EventsOK /\ RowsOK
  BY DEF OInv, TInv, TypeOK
<1> SUFFICES ASSUME NEW t \in Tasks, claim'[t] # NoRun
             PROVE  /\ \A q \in Runs : run_task'[q] = t => q <= claim'[t]
                    /\ ~StoreFaults => claim'[t] \notin resolved'
  BY DEF ClaimIsLatest
<1>1. ASSUME NEW d \in Dispatchers, NEW u \in Tasks, ClaimFlow(d, u)
      PROVE  /\ \A q \in Runs : run_task'[q] = t => q <= claim'[t]
             /\ ~StoreFaults => claim'[t] \notin resolved'
  <2>1. resolved' = resolved /\ next_run \notin resolved
    BY <1>1, <1>t, ClaimFlowEffect DEF ProposalsKnown, eventVars, RowsOK
  <2>2. CASE t = u
    <3>1. claim'[t] = next_run
      BY <1>1, <1>t, <2>2, ClaimFlowEffect DEF RowsOK
    <3>2. ASSUME NEW q \in Runs, run_task'[q] = t
          PROVE  q <= next_run
      <4>1. CASE q = next_run
        BY <1>t, <4>1 DEF RowsOK
      <4>2. CASE q # next_run
        <5>1. run_task[q] = t
          BY <1>1, <1>t, <3>2, <4>2, ClaimFlowEffect DEF RowsOK
        <5>2. q < next_run
          BY <1>t, <5>1, ConstantsAssumption DEF TInv, RunsKnown
        <5> QED BY <1>t, <5>2 DEF RowsOK, Runs
      <4> QED BY <4>1, <4>2
    <3> QED BY <2>1, <3>1, <3>2
  <2>3. CASE t # u
    <3>1. claim'[t] = claim[t]
      BY <1>1, <1>t, <2>3, ClaimFlowEffect DEF RowsOK
    <3>2. \A q \in Runs : run_task'[q] = t => run_task[q] = t
      BY <1>1, <1>t, <2>3, ClaimFlowEffect DEF RowsOK
    <3> QED BY <2>1, <3>1, <3>2 DEF ClaimIsLatest
  <2> QED BY <2>2, <2>3
<1>2. CASE \A d \in Dispatchers, u \in Tasks : ~ClaimFlow(d, u)
  <2>1. run_task' = run_task /\ claim'[t] = claim[t] /\ claim[t] \in Runs
    BY <1>t, <1>2, ClaimBefore DEF RowsOK
  <2>2. \A q \in Runs : run_task'[q] = t => q <= claim'[t]
    BY <2>1 DEF ClaimIsLatest
  <2>3. ASSUME ~StoreFaults, NEW c \in Clients, UserFlow(c)
        PROVE  claim[t] \notin resolved'
    <3>0. claim[t] \notin resolved
      BY <2>1, <2>3 DEF ClaimIsLatest
    <3>1. CASE resolved' = resolved
      BY <3>0, <3>1
    <3>2. CASE resolved' # resolved
      <4>1. PICK u \in Tasks : u = client[c].task
        BY <2>3 DEF UserFlow
      <4>2. PICK r \in Pending(u) : resolved' = resolved \union {r}
        BY <2>3, <3>2, <4>1 DEF UserFlow
      <4>3. client[c].op = "resolve" /\ client[c].fresh
        BY <2>3, <3>2 DEF UserFlow
      <4>4. status[u] = "waiting_approval"
        BY <4>1, <4>3 DEF OInv, FreshClient, Permitted
      <4>5. claim[u] = NoRun
        BY <2>3, <4>4 DEF OInv, OneOwner
      <4>6. run_task[r] = u
        BY <4>2 DEF Pending
      <4>7. run_task[claim[t]] = t
        BY <2>1, RunsAreNotNoRun DEF ClaimIsLive
      <4> QED BY <2>1, <3>0, <4>2, <4>5, <4>6, <4>7, RunsAreNotNoRun
    <3> QED BY <3>1, <3>2
  <2>4. ASSUME \A c \in Clients : ~UserFlow(c)
        PROVE  resolved' = resolved
    <3>1. ASSUME NEW r \in Runs, Complete(r) \/ Fail(r) \/ ProposeChange(r)
          PROVE  resolved' = resolved
      BY <3>1 DEF Complete, Fail, SubmitIntent, ProposeChange
    <3> QED BY <1>t, <2>4, <3>1, FlowEvents DEF EventsKept
  <2>5. ~StoreFaults => claim'[t] \notin resolved'
    BY <2>1, <2>3, <2>4, RunsAreNotNoRun DEF ClaimIsLatest
  <2> QED BY <2>2, <2>5
<1> QED BY <1>1, <1>2

LEMMA FInvInductive ==
  /\ Init => ClaimIsLive /\ FInv
  /\ OInv /\ ClaimIsLive /\ FInv /\ [Next]_vars => ClaimIsLive' /\ FInv'
<1>1. ASSUME Init PROVE ClaimIsLive /\ FInv
  <2>1. ClaimIsLive /\ ClaimIsLatest
    BY <1>1 DEF Init, ClaimIsLive, ClaimIsLatest
  <2>2. Unspawned
    BY <1>1 DEF Init, Unspawned, IdleDispatch
  <2>3. SeenIsCurrent
    <3>1. \A r \in Runs : ~Held(r)
      BY <1>1, RunsAreNotNoRun DEF Init, Held, IdleDispatch
    <3> QED BY <3>1 DEF SeenIsCurrent
  <2>4. OutcomeJustified /\ ProposalsKnown
    BY <1>1 DEF Init, OutcomeJustified, ProposalsKnown
  <2> QED BY <2>1, <2>2, <2>3, <2>4 DEF FInv
<1>2. ASSUME OInv, ClaimIsLive, FInv, [Next]_vars
      PROVE  ClaimIsLive' /\ FInv'
  <2>1. TInv /\ TableStep /\ FlowStep
    BY <1>2, NextShape, NextFlow DEF OInv
  <2> QED BY <1>2, <2>1, TableKeepsClaimLive, FlowKeepsUnspawned, FlowKeepsSeen,
             FlowKeepsJustified, FlowKeepsProposals, FlowKeepsLatest DEF FInv
<1> QED BY <1>1, <1>2

-----------------------------------------------------------------------------
(* The circuit breaker                                                        *)

\* A finish that queues the task again is a failure below the limit.
LEMMA QueuedAgain ==
  ASSUME NEW f \in Nat, NEW oc \in TaskRunOutcome, TargetStatus(f, oc) = "queued"
  PROVE  oc \in {"failed", "spawn_failed"} /\ f + 1 <= MaxRetries
  BY ConstantsAssumption DEF TargetStatus, TaskRunOutcome

\* The automatic retry stops at the circuit breaker: the count a worker decides
\* by was read at its claim, and nobody counts behind its back, so a finish that
\* queues a running task again leaves at most max_retries failures.
THEOREM BreakerIsRespected == Spec => BreakerHolds
<1> DEFINE Brake == \A t \in Tasks : status[t] = "running" /\ status'[t] = "queued" =>
                      failures'[t] <= MaxRetries /\ failures'[t] = failures[t] + 1
<1>1. OInv /\ ClaimIsLive /\ FInv /\ [Next]_vars => Brake
  <2> SUFFICES ASSUME OInv, ClaimIsLive, FInv, FlowStep,
                      NEW t \in Tasks, status[t] = "running", status'[t] = "queued"
               PROVE  failures'[t] <= MaxRetries /\ failures'[t] = failures[t] + 1
    BY NextFlow DEF OInv
  <2>t. TInv /\ RowsOK /\ WorkersOK
    BY DEF OInv, TInv, TypeOK
  <2>1. ASSUME NEW u \in Tasks, NEW r \in Runs, NEW oc \in TaskRunOutcome \union {"none"},
               NEW target \in TaskStatus, EndFlow(u, r, oc, target)
        PROVE  failures'[t] <= MaxRetries /\ failures'[t] = failures[t] + 1
    <3>1. /\ claim[u] = r /\ run_task[r] = u
          /\ status' = [status EXCEPT ![u] = target]
          /\ failures' = [failures EXCEPT ![u] = CountFailure(u, oc)]
      BY <2>1 DEF EndFlow, OwnsClaim, Finalize
    <3>2. t = u /\ target = "queued"
      BY <2>t, <3>1 DEF RowsOK
    <3>3. /\ target = TargetStatus(seen_failures[r], oc)
          /\ \/ (\E d \in Dispatchers : disp[d].claimed = r) /\ oc = "spawn_failed"
             \/ worker[r] = "ended" /\ oc = outcome[r]
      BY <2>1, <3>2 DEF EndFlow
    <3>4. Held(r) /\ oc # "none"
      BY <3>3 DEF Held, FInv, OutcomeJustified
    <3>5. seen_failures[r] = failures[t] /\ failures[t] \in Nat
      BY <2>t, <3>1, <3>2, <3>4 DEF FInv, SeenIsCurrent, RowsOK
    <3>6. oc \in {"failed", "spawn_failed"} /\ failures[t] + 1 <= MaxRetries
      BY <3>2, <3>3, <3>4, <3>5, QueuedAgain
    <3>7. failures'[t] = failures[t] + 1
      BY <2>t, <3>1, <3>2, <3>6 DEF CountFailure, RowsOK
    <3> QED BY <3>6, <3>7
  <2>2. ASSUME NEW c \in Clients, UserFlow(c)
        PROVE  FALSE
    <3>1. PICK u \in Tasks : u = client[c].task
      BY <2>2 DEF UserFlow
    <3>2. t = u /\ client[c].op \in {"retry", "resolve"} /\ client[c].fresh
      BY <2>2, <2>t, <3>1 DEF UserFlow, RowsOK
    <3>3. status[u] \in Permitted(client[c].op)
      BY <3>1, <3>2 DEF OInv, FreshClient
    <3> QED BY <3>2, <3>3 DEF Permitted
  <2>3. ASSUME NEW d \in Dispatchers, NEW u \in Tasks, ClaimFlow(d, u)
        PROVE  FALSE
    BY <2>3, <2>t, ClaimFlowEffect DEF RowsOK
  <2>4. ASSUME NEW d \in Dispatchers, Spawn(d)
        PROVE  FALSE
    BY <2>4, <2>t, SpawnEffect DEF tableVars
  <2>5. CASE \/ RestFlow \/ Restart \/ (\E u \in Tasks : CreateTask(u))
             \/ (\E r \in Runs : \/ MoveFlow(r) \/ FallbackFlow(r) \/ ExecutorReturns(r) \/ TimesOut(r)
                                 \/ Complete(r) \/ Fail(r) \/ ProposeChange(r))
    <3>1. \/ status' = status
          \/ \E u : status' = [status EXCEPT ![u] = "waiting_approval"]
          \/ \E u \in Tasks : status[u] = "absent" /\ status' = [status EXCEPT ![u] = "queued"]
      BY <2>5 DEF RestFlow, Restart, CreateTask, MoveFlow, FallbackFlow, ExecutorReturns, TimesOut,
                  Complete, Fail, SubmitIntent, ProposeChange, taskVars, tableVars
    <3> QED BY <2>t, <3>1 DEF RowsOK
  <2> QED BY <2>1, <2>2, <2>3, <2>4, <2>5 DEF FlowStep
<1> QED BY <1>1, OInvInductive, FInvInductive, PTL DEF Spec, BreakerHolds

-----------------------------------------------------------------------------
(* Success was requested                                                      *)

\* A run that ended keeps its row, its task and its intent: intents are stamped
\* on claims, and a claim is running.
LEMMA CompletedStays ==
  ASSUME TInv, ClaimIsLive, FlowStep, NEW r \in Runs, run_status[r] = "completed",
         run_task[r] \in Tasks
  PROVE  /\ run_task'[r] = run_task[r]
         /\ run_status'[r] = "completed" \/ status'[run_task[r]] = "deleted"
         /\ intent'[r] = intent[r] /\ (r \in foreign => r \in foreign')
<1>t. RowsOK /\ EventsOK
  BY DEF TInv, TypeOK
<1>n. \A u \in Tasks : claim[u] # r
  BY RunsAreNotNoRun DEF ClaimIsLive
<1>1. run_task'[r] = run_task[r]
  <2>1. ASSUME NEW d \in Dispatchers, NEW t \in Tasks, ClaimFlow(d, t)
        PROVE  run_task'[r] = run_task[r]
    BY <2>1, <1>t, ClaimFlowEffect DEF RowsOK
  <2> QED BY <2>1, ClaimBefore
<1>2. run_status'[r] = "completed" \/ status'[run_task[r]] = "deleted"
  <2>1. ASSUME NEW d \in Dispatchers, Spawn(d) \/ \E t \in Tasks : ClaimFlow(d, t)
        PROVE  run_status'[r] = "completed"
    BY <2>1, <1>t, ClaimFlowEffect, SpawnEffect DEF RowsOK, tableVars
  <2>2. ASSUME NEW t \in Tasks, NEW q \in Runs, NEW oc, NEW target, EndFlow(t, q, oc, target)
        PROVE  run_status'[r] = "completed"
    BY <2>2, <1>t DEF EndFlow, OwnsClaim, Finalize, RowsOK
  <2>3. ASSUME NEW c \in Clients, UserFlow(c)
        PROVE  run_status'[r] = "completed" \/ status'[run_task[r]] = "deleted"
    BY <2>3, <1>t DEF UserFlow, RowsOK
  <2>4. CASE \/ RestFlow \/ Restart \/ (\E u \in Tasks : CreateTask(u))
             \/ (\E q \in Runs : \/ MoveFlow(q) \/ FallbackFlow(q) \/ ExecutorReturns(q) \/ TimesOut(q)
                                 \/ Complete(q) \/ Fail(q) \/ ProposeChange(q))
    BY <2>4 DEF RestFlow, Restart, CreateTask, MoveFlow, FallbackFlow, ExecutorReturns, TimesOut,
                Complete, Fail, SubmitIntent, ProposeChange, runVars, tableVars
  <2> QED BY <2>1, <2>2, <2>3, <2>4 DEF FlowStep
<1>3. intent'[r] = intent[r] /\ (r \in foreign => r \in foreign')
  <2>1. ASSUME NEW q \in Runs, ProposeChange(q)
        PROVE  intent'[r] = intent[r] /\ (r \in foreign => r \in foreign')
    <3>1. q # r
      BY <2>1, <1>n DEF ProposeChange, MayPropose
    <3> QED BY <2>1, <1>t, <3>1 DEF ProposeChange, EventsOK
  <2>2. ASSUME NEW q \in Runs, Complete(q) \/ Fail(q)
        PROVE  intent'[r] = intent[r] /\ (r \in foreign => r \in foreign')
    BY <2>2, <1>t, <1>n, SubmitEffect DEF EventsOK
  <2>3. ASSUME NEW c \in Clients, UserFlow(c)
        PROVE  intent'[r] = intent[r] /\ (r \in foreign => r \in foreign')
    BY <2>3 DEF UserFlow
  <2>4. CASE EventsKept
    BY <2>4 DEF EventsKept
  <2> QED BY <2>1, <2>2, <2>3, <2>4, FlowEvents
<1> QED BY <1>1, <1>2, <1>3

\* The steps that bring a task to a state no request and no claim leads to.
LEMMA EndsOnly ==
  ASSUME TInv, FlowStep, NEW t \in Tasks, NEW s \in {"succeeded", "waiting_approval"},
         status'[t] = s, status[t] # s, s = "waiting_approval" => ~StoreFaults
  PROVE  \E r \in Runs, oc \in TaskRunOutcome \union {"none"} : EndFlow(t, r, oc, s)
<1>t. RowsOK
  BY DEF TInv, TypeOK
<1>1. ASSUME NEW u \in Tasks, NEW r \in Runs, NEW oc \in TaskRunOutcome \union {"none"},
             NEW target \in TaskStatus, EndFlow(u, r, oc, target)
      PROVE  EndFlow(t, r, oc, s)
  <2>1. status' = [status EXCEPT ![u] = target]
    BY <1>1 DEF EndFlow, Finalize
  <2>2. u = t /\ target = s
    BY <1>t, <2>1 DEF RowsOK
  <2> QED BY <1>1, <2>2
<1>2. CASE ~\E u \in Tasks, r \in Runs, oc \in TaskRunOutcome \union {"none"}, target \in TaskStatus :
              EndFlow(u, r, oc, target)
  <2> DEFINE Other == status' = status \/ \E u, x : status' = [status EXCEPT ![u] = x] /\ x # s
  <2>1. Other
    <3>1. ASSUME NEW d \in Dispatchers, NEW u \in Tasks, ClaimFlow(d, u)
          PROVE  Other
      <4>1. status' = [status EXCEPT ![u] = "running"] /\ "running" # s
        BY <3>1, ClaimFlowEffect
      <4> QED BY <4>1
    <3>2. ASSUME NEW c \in Clients, UserFlow(c)
          PROVE  Other
      <4>1. PICK u \in Tasks : u = client[c].task
        BY <3>2 DEF UserFlow
      <4>2. \E x \in {"cancelled", "queued", "deleted"} : status' = [status EXCEPT ![u] = x]
        BY <3>2, <4>1 DEF UserFlow
      <4> QED BY <4>2
    <3>3. CASE \/ RestFlow \/ Restart
               \/ (\E q \in Runs : \/ MoveFlow(q) \/ ExecutorReturns(q) \/ TimesOut(q)
                                   \/ Complete(q) \/ Fail(q) \/ ProposeChange(q))
      <4>1. status' = status
        BY <3>3 DEF RestFlow, Restart, MoveFlow, ExecutorReturns, TimesOut,
                    Complete, Fail, SubmitIntent, ProposeChange, taskVars, tableVars
      <4> QED BY <4>1
    <3>4. ASSUME NEW q \in Runs, FallbackFlow(q)
          PROVE  Other
      <4>1. status' = [status EXCEPT ![run_task[q]] = "waiting_approval"] /\ "waiting_approval" # s
        BY <3>4 DEF FallbackFlow
      <4> QED BY <4>1
    <3>5. ASSUME NEW u \in Tasks, CreateTask(u)
          PROVE  Other
      <4>1. status' = [status EXCEPT ![u] = "queued"] /\ "queued" # s
        BY <3>5 DEF CreateTask
      <4> QED BY <4>1
    <3>6. ASSUME NEW d \in Dispatchers, Spawn(d)
          PROVE  Other
      BY <3>6, SpawnEffect DEF tableVars
    <3> HIDE DEF Other
    <3> QED BY <1>2, <3>1, <3>2, <3>3, <3>4, <3>5, <3>6 DEF FlowStep
  <2> QED BY <1>t, <2>1 DEF RowsOK
<1> QED BY <1>1, <1>2

\* A finish to succeeded or to waiting_approval has that outcome.
LEMMA TargetOutcome ==
  ASSUME NEW f, NEW oc
  PROVE  /\ TargetStatus(f, oc) = "succeeded" => oc = "completed"
         /\ TargetStatus(f, oc) = "waiting_approval" => oc = "waiting_approval"
  BY DEF TargetStatus

\* No claim of a task that is not queued: its runs stay the same.
LEMMA SameRuns ==
  ASSUME TInv, FlowStep, NEW t \in Tasks, status[t] \in {"succeeded", "waiting_approval"}
  PROVE  \A q \in Runs : run_task'[q] = t <=> run_task[q] = t
<1>t. RowsOK
  BY DEF TInv, TypeOK
<1>1. ASSUME NEW d \in Dispatchers, NEW u \in Tasks, ClaimFlow(d, u)
      PROVE  \A q \in Runs : run_task'[q] = t <=> run_task[q] = t
  <2>1. u # t
    BY <1>1, <1>t, ClaimFlowEffect
  <2>2. run_task[next_run] # t
    BY <1>1, <1>t, ClaimFlowEffect, ConstantsAssumption
  <2> QED BY <1>t, <1>1, <2>1, <2>2, ClaimFlowEffect DEF RowsOK
<1> QED BY <1>t, <1>1, ClaimBefore

LEMMA FlowKeepsSuccess ==
  ASSUME TInv, ClaimIsLive, FInv, SuccessWasRequested, FlowStep
  PROVE  SuccessWasRequested'
<1>t. RowsOK
  BY DEF TInv, TypeOK
<1> SUFFICES ASSUME NEW t \in Tasks, status'[t] = "succeeded"
             PROVE  \E r \in Runs : /\ run_task'[r] = t
                                    /\ \A q \in Runs : run_task'[q] = t => q <= r
                                    /\ run_status'[r] = "completed"
                                    /\ intent'[r] = "complete" \/ r \in foreign'
  BY DEF SuccessWasRequested
<1>1. CASE status[t] = "succeeded"
  <2>1. PICK r \in Runs : /\ run_task[r] = t
                          /\ \A q \in Runs : run_task[q] = t => q <= r
                          /\ run_status[r] = "completed"
                          /\ intent[r] = "complete" \/ r \in foreign
    BY <1>1 DEF SuccessWasRequested
  <2>2. \A q \in Runs : run_task'[q] = t <=> run_task[q] = t
    BY <1>1, SameRuns
  <2>3. /\ run_task'[r] = t /\ run_status'[r] = "completed"
        /\ intent'[r] = "complete" \/ r \in foreign'
    BY <2>1, CompletedStays
  <2> QED BY <2>1, <2>2, <2>3
<1>2. CASE status[t] # "succeeded"
  <2>1. PICK r \in Runs, oc \in TaskRunOutcome \union {"none"} : EndFlow(t, r, oc, "succeeded")
    BY <1>2, EndsOnly
  <2>2. /\ run_task[r] = t /\ run_task' = run_task /\ claim[t] = r
        /\ run_status' = [run_status EXCEPT ![r] = RunStatusOf(oc)]
        /\ UNCHANGED eventVars
    BY <2>1 DEF EndFlow, OwnsClaim, Finalize
  <2>3. /\ "succeeded" = TargetStatus(seen_failures[r], oc)
        /\ oc = "spawn_failed" \/ (worker[r] = "ended" /\ oc = outcome[r])
    BY <2>1 DEF EndFlow
  <2>4. oc = "completed" /\ worker[r] = "ended" /\ oc = outcome[r]
    BY <2>3, TargetOutcome
  <2>5. intent[r] = "complete" \/ r \in foreign
    BY <2>4 DEF FInv, OutcomeJustified
  <2>6. run_status'[r] = "completed"
    BY <1>t, <2>2, <2>4 DEF RunStatusOf, RowsOK
  <2>7. \A q \in Runs : run_task[q] = t => q <= r
    BY <2>2, RunsAreNotNoRun DEF FInv, ClaimIsLatest
  <2> QED BY <2>2, <2>5, <2>6, <2>7 DEF eventVars
<1> QED BY <1>1, <1>2

\* A task succeeds only through its latest run, which ended completed with a
\* completion intent, or one another worker stamped: no recovery, timeout, spawn
\* failure or lost reply makes a task succeed, with or without storage faults.
THEOREM SuccessIsEarned == Spec => []SuccessWasRequested
<1>1. Init => SuccessWasRequested
  BY DEF Init, SuccessWasRequested
<1>2. OInv /\ ClaimIsLive /\ FInv /\ SuccessWasRequested /\ [Next]_vars => SuccessWasRequested'
  BY NextFlow, FlowKeepsSuccess DEF OInv
<1> QED BY <1>1, <1>2, OInvInductive, FInvInductive, PTL DEF Spec

-----------------------------------------------------------------------------
(* A task that waits for approval can be decided                              *)

LEMMA FlowKeepsResolvable ==
  ASSUME OInv, ClaimIsLive, FInv, WaitingIsResolvable, FlowStep
  PROVE  WaitingIsResolvable'
<1>t. TInv /\ RowsOK /\ EventsOK
  BY DEF OInv, TInv, TypeOK
<1> SUFFICES ASSUME ~StoreFaults, NEW t \in Tasks, status'[t] = "waiting_approval"
             PROVE  \E r \in Runs : /\ r \in proposed' /\ r \notin resolved' /\ run_task'[r] = t
                                    /\ \A q \in Runs : run_task'[q] = t => q <= r
  BY DEF WaitingIsResolvable, Pending
<1>1. CASE status[t] = "waiting_approval"
  <2>1. PICK r \in Runs : /\ r \in proposed /\ r \notin resolved /\ run_task[r] = t
                          /\ \A q \in Runs : run_task[q] = t => q <= r
    BY <1>1, <1>t DEF WaitingIsResolvable, Pending, EventsOK
  <2>2. \A q \in Runs : run_task'[q] = t <=> run_task[q] = t
    BY <1>1, <1>t, SameRuns
  <2>3. r \in proposed' /\ r \notin resolved'
    <3>1. ASSUME NEW q \in Runs, Complete(q) \/ Fail(q) \/ ProposeChange(q)
          PROVE  r \in proposed' /\ r \notin resolved'
      BY <2>1, <3>1 DEF Complete, Fail, SubmitIntent, ProposeChange
    <3>2. ASSUME NEW c \in Clients, UserFlow(c)
          PROVE  r \in proposed' /\ r \notin resolved'
      <4>1. proposed' = proposed
        BY <3>2 DEF UserFlow
      <4>2. CASE resolved' = resolved
        BY <2>1, <4>1, <4>2
      <4>3. CASE resolved' # resolved
        <5>1. PICK u \in Tasks : u = client[c].task
          BY <3>2 DEF UserFlow
        <5>2. PICK q \in Pending(u) : resolved' = resolved \union {q}
          BY <3>2, <4>3, <5>1 DEF UserFlow
        <5>3. status' = [status EXCEPT ![u] = "queued"]
          BY <3>2, <4>3, <5>1 DEF UserFlow
        <5>4. u # t
          BY <1>t, <5>3 DEF RowsOK
        <5> QED BY <2>1, <4>1, <5>2, <5>4 DEF Pending
      <4> QED BY <4>2, <4>3
    <3>3. CASE EventsKept
      BY <2>1, <3>3 DEF EventsKept
    <3> QED BY <1>t, <3>1, <3>2, <3>3, FlowEvents
  <2> QED BY <2>1, <2>2, <2>3
<1>2. CASE status[t] # "waiting_approval"
  <2>1. PICK r \in Runs, oc \in TaskRunOutcome \union {"none"} : EndFlow(t, r, oc, "waiting_approval")
    BY <1>2, <1>t, EndsOnly
  <2>2. /\ run_task[r] = t /\ run_task' = run_task /\ claim[t] = r
        /\ UNCHANGED eventVars
    BY <2>1 DEF EndFlow, OwnsClaim, Finalize
  <2>3. \/ worker[r] = "proposing"
        \/ worker[r] = "ended" /\ outcome[r] = "waiting_approval"
    BY <2>1, TargetOutcome DEF EndFlow
  <2>4. r \in proposed
    BY <2>3 DEF FInv, ProposalsKnown, OutcomeJustified
  <2>5. r \notin resolved /\ \A q \in Runs : run_task[q] = t => q <= r
    BY <2>2, RunsAreNotNoRun DEF FInv, ClaimIsLatest
  <2> QED BY <2>2, <2>4, <2>5 DEF eventVars
<1> QED BY <1>1, <1>2

\* While the registry's calls succeed, a task that waits for approval waits on
\* an unresolved proposal of its latest run: it is never stuck in the state, and
\* the decision is about what the last worker asked.
THEOREM WaitingCanBeResolved == Spec => []WaitingIsResolvable
<1>1. Init => WaitingIsResolvable
  BY DEF Init, WaitingIsResolvable
<1>2. OInv /\ ClaimIsLive /\ FInv /\ WaitingIsResolvable /\ [Next]_vars => WaitingIsResolvable'
  BY NextFlow, FlowKeepsResolvable DEF OInv
<1> QED BY <1>1, <1>2, OInvInductive, FInvInductive, PTL DEF Spec

-----------------------------------------------------------------------------
(* task_max_concurrency, for one dispatch loop                                *)

\* The slots a pass still has are free, though workers end while it runs.
SlotsFit ==
  \A d \in Dispatchers :
    disp[d].pc = "queued" => Cardinality(ActiveWorkers) + disp[d].slots <= MaxConcurrency

\* Slots are counted by the listing and used up by spawns.
SlotsKept ==
  \A d \in Dispatchers :
    disp'[d].pc = "queued" => disp[d].pc = "queued" /\ disp'[d].slots = disp[d].slots

LEMMA PassSlots ==
  ASSUME TInv, [Next]_vars, \A d \in Dispatchers : ~(Spawn(d) \/ ListQueued(d))
  PROVE  SlotsKept
<1>t. disp \in [Dispatchers -> DispatchState]
  BY DEF TInv, TypeOK
<1>u. UNCHANGED disp => SlotsKept
  BY DEF SlotsKept
<1>x. ASSUME NEW d \in Dispatchers, NEW x, disp' = [disp EXCEPT ![d] = x], x.pc # "queued"
      PROVE  SlotsKept
  BY <1>t, <1>x DEF SlotsKept
<1>1. ASSUME NEW d \in Dispatchers, DispatchStep(d) \/ TickRaises(d) \/ SpawnFailureLost(d)
      PROVE  SlotsKept
  <2>1. CASE TickStart(d)
    <3> DEFINE y == [IdleDispatch EXCEPT !.pc = "crashed", !.crashed = crashed]
    <3>1. y.pc # "queued"
      BY DEF IdleDispatch
    <3> QED BY <1>x, <2>1, <3>1 DEF TickStart
  <2>2. CASE TickEnd(d) \/ TickRaises(d)
    <3>1. IdleDispatch.pc # "queued"
      BY DEF IdleDispatch
    <3> QED BY <1>x, <2>2, <3>1 DEF TickEnd, TickRaises
  <2>3. ASSUME NEW r \in Runs, ReadCrashed(d, r)
        PROVE  SlotsKept
    BY <1>t, <2>3 DEF ReadCrashed, SlotsKept, DispatchState
  <2>4. CASE RecoverRun(d)
    BY <1>t, <2>4 DEF RecoverRun, SlotsKept, DispatchState
  <2>5. CASE ListRunning(d)
    BY <1>t, <2>5 DEF ListRunning, SlotsKept, DispatchState
  <2>6. ASSUME NEW e \in disp[d].snapshot, JudgeStale(d, e)
        PROVE  SlotsKept
    BY <1>t, <2>6 DEF JudgeStale, SlotsKept, DispatchState
  <2>7. ASSUME NEW t \in Tasks, ClaimNext(d, t)
        PROVE  SlotsKept
    <3>1. \/ disp' = [disp EXCEPT ![d].queue = @ \ {t}, ![d].claimed = next_run]
          \/ disp' = [disp EXCEPT ![d].queue = @ \ {t}]
      BY <2>7 DEF ClaimNext
    <3> QED BY <1>t, <3>1 DEF SlotsKept, DispatchState
  <2>8. CASE SpawnFails(d) \/ SpawnFailureLost(d)
    <3>1. disp' = [disp EXCEPT ![d].claimed = NoRun]
      BY <2>8 DEF SpawnFails, SpawnFailureLost
    <3> QED BY <1>t, <3>1 DEF SlotsKept, DispatchState
  <2> QED BY <1>1, <2>1, <2>2, <2>3, <2>4, <2>5, <2>6, <2>7, <2>8 DEF DispatchStep
<1>2. ASSUME NEW r \in Runs, WorkerStep(r)
      PROVE  UNCHANGED disp
  BY <1>2 DEF WorkerStep, Complete, Fail, SubmitIntent, Heartbeat, ProposeChange, FinalizePropose,
              ProposeFallback, ExecutorReturns, TimesOut, WorkerFinish, WorkerCloses, WorkerRaises
<1>3. ASSUME NEW c \in Clients, ClientStep(c)
      PROVE  UNCHANGED disp
  BY <1>3 DEF ClientStep, ClientRead, CancelWrite, TerminateRunning, CancelFallback, RetryWrite,
              DeleteWrite, ArchiveWrite, UpdateWrite, ResolveWrite
<1>4. ASSUME NEW t \in Tasks,
             CreateTask(t) \/ HeartbeatGoesStale(t) \/ LeaseExpires(t) \/ ScheduleDue(t)
      PROVE  UNCHANGED disp
  BY <1>4 DEF CreateTask, HeartbeatGoesStale, LeaseExpires, ScheduleDue
<1>5. CASE Restart
  BY <1>5 DEF Restart, SlotsKept, IdleDispatch
<1>6. CASE UNCHANGED vars
  BY <1>6, <1>u DEF vars
<1> QED BY <1>u, <1>1, <1>2, <1>3, <1>4, <1>5, <1>6 DEF Next

\* Only a spawn adds a worker.
LEMMA WorkersShrink ==
  ASSUME TInv, FlowStep, \A d \in Dispatchers : ~Spawn(d)
  PROVE  ActiveWorkers' \subseteq ActiveWorkers
<1>t. WorkersOK
  BY DEF TInv, TypeOK
<1> DEFINE Busy == {"executing", "proposing", "ended", "closing"}
<1> SUFFICES ASSUME NEW r \in Runs, worker'[r] \in Busy
             PROVE  worker[r] \in Busy
  BY DEF ActiveWorkers, HasActiveWorker
<1>1. ASSUME NEW q \in Runs, worker[q] \in Busy, \E w : worker' = [worker EXCEPT ![q] = w]
      PROVE  worker[r] \in Busy
  BY <1>t, <1>1 DEF WorkersOK
<1>2. ASSUME NEW d \in Dispatchers, NEW t \in Tasks, ClaimFlow(d, t)
      PROVE  worker' = worker
  BY <1>2, ClaimFlowEffect
<1>3. ASSUME NEW t \in Tasks, NEW q \in Runs, NEW oc, NEW target, EndFlow(t, q, oc, target)
      PROVE  worker[r] \in Busy
  <2>1. worker' = worker \/ (worker[q] \in Busy /\ \E w : worker' = [worker EXCEPT ![q] = w])
    BY <1>3 DEF EndFlow, localVars
  <2> QED BY <1>1, <2>1
<1>4. ASSUME NEW q \in Runs,
             \/ FallbackFlow(q) \/ ExecutorReturns(q) \/ TimesOut(q)
             \/ Complete(q) \/ Fail(q) \/ ProposeChange(q)
      PROVE  worker[r] \in Busy
  <2>1. worker' = worker \/ (worker[q] \in Busy /\ \E w : worker' = [worker EXCEPT ![q] = w])
    BY <1>4 DEF FallbackFlow, ExecutorReturns, TimesOut, Complete, Fail, SubmitIntent,
                ProposeChange, workerVars
  <2> QED BY <1>1, <2>1
<1>5. ASSUME NEW q \in Runs, MoveFlow(q)
      PROVE  worker[r] \in Busy
  <2>1. \/ worker[q] \in Busy /\ \E w : worker' = [worker EXCEPT ![q] = w]
        \/ worker' = [worker EXCEPT ![q] = "gone"]
    BY <1>5 DEF MoveFlow
  <2>2. CASE worker' = [worker EXCEPT ![q] = "gone"]
    BY <1>t, <2>2 DEF WorkersOK
  <2> QED BY <1>1, <2>1, <2>2
<1>6. CASE \/ RestFlow \/ (\E c \in Clients : UserFlow(c)) \/ (\E t \in Tasks : CreateTask(t))
  BY <1>6 DEF RestFlow, UserFlow, CreateTask, localVars, workerVars
<1>7. CASE Restart
  BY <1>7 DEF Restart
<1> QED BY <1>2, <1>3, <1>4, <1>5, <1>6, <1>7 DEF FlowStep

\* One dispatch loop never runs more workers than task_max_concurrency, although
\* it counts the free slots once per pass and workers end, crash and are recovered
\* while it spends them.
THEOREM OneLoopIsBounded ==
  ASSUME \A d, e \in Dispatchers : d = e
  PROVE  Spec => []ConcurrencyBound
<1>f. IsFiniteSet(ActiveWorkers) /\ IsFiniteSet(ActiveWorkers')
  <2>1. IsFiniteSet(Runs)
    BY FS_Interval, ConstantsAssumption DEF Runs
  <2>2. ActiveWorkers \subseteq Runs /\ ActiveWorkers' \subseteq Runs
    BY DEF ActiveWorkers
  <2> QED BY <2>1, <2>2, FS_Subset
<1>1. ASSUME Init PROVE ConcurrencyBound /\ SlotsFit
  <2>1. ActiveWorkers = {}
    BY <1>1 DEF Init, ActiveWorkers, HasActiveWorker
  <2>2. ConcurrencyBound
    BY <2>1, FS_EmptySet, ConstantsAssumption DEF ConcurrencyBound
  <2>3. SlotsFit
    BY <1>1 DEF Init, SlotsFit, IdleDispatch
  <2> QED BY <2>2, <2>3
<1>2. ASSUME OInv, FInv, ConcurrencyBound, SlotsFit, [Next]_vars
      PROVE  ConcurrencyBound' /\ SlotsFit'
  <2> DEFINE n == Cardinality(ActiveWorkers)
             m == Cardinality(ActiveWorkers')
  <2>t. TInv /\ FlowStep /\ disp \in [Dispatchers -> DispatchState] /\ WorkersOK
    BY <1>2, NextFlow DEF OInv, TInv, TypeOK
  <2>s. \A d \in Dispatchers : disp[d].slots \in Nat
    BY <2>t DEF DispatchState
  <2>n. n \in Nat /\ m \in Nat /\ MaxConcurrency \in Nat
    BY <1>f, FS_CardinalityType, ConstantsAssumption
  <2>b. n <= MaxConcurrency
    BY <1>2 DEF ConcurrencyBound
  <2>f. \A d \in Dispatchers : disp[d].pc = "queued" => n + disp[d].slots <= MaxConcurrency
    BY <1>2 DEF SlotsFit
  <2>g. SUFFICES /\ m <= MaxConcurrency
                 /\ \A d \in Dispatchers : disp'[d].pc = "queued" => m + disp'[d].slots <= MaxConcurrency
    BY DEF ConcurrencyBound, SlotsFit
  <2>1. ASSUME NEW d \in Dispatchers, Spawn(d)
        PROVE  /\ m <= MaxConcurrency
               /\ \A e \in Dispatchers : disp'[e].pc = "queued" => m + disp'[e].slots <= MaxConcurrency
    <3>1. PICK r \in Runs : r = disp[d].claimed
      BY <2>1, <2>t, SpawnEffect
    <3>2. worker[r] = "none" /\ worker' = [worker EXCEPT ![r] = "executing"]
      BY <1>2, <2>1, <2>t, <3>1, SpawnEffect DEF FInv, Unspawned
    <3>3. ActiveWorkers' = ActiveWorkers \union {r} /\ r \notin ActiveWorkers
      BY <2>t, <3>2 DEF ActiveWorkers, HasActiveWorker, WorkersOK
    <3>4. m = n + 1
      BY <1>f, <3>3, FS_AddElement
    <3>5. disp[d].pc = "queued" /\ disp[d].slots > 0
      BY <2>1, <2>t, SpawnEffect DEF TInv, ClaimHasSlot
    <3>6. disp'[d].slots = disp[d].slots - 1
      BY <2>1, <2>t DEF Spawn, DispatchState
    <3>7. n + disp[d].slots <= MaxConcurrency /\ disp[d].slots \in Nat
      BY <2>f, <2>s, <3>5
    <3> HIDE DEF n, m
    <3>8. \A x, y, z \in Nat : y > 0 /\ x + y <= z => x + 1 <= z /\ (x + 1) + (y - 1) <= z
      OBVIOUS
    <3>9. n + 1 <= MaxConcurrency /\ (n + 1) + (disp[d].slots - 1) <= MaxConcurrency
      BY <2>n, <3>5, <3>7, <3>8
    <3> QED BY <3>4, <3>6, <3>9
  <2>2. ASSUME \A d \in Dispatchers : ~Spawn(d)
        PROVE  m <= n
    BY <1>f, <2>2, <2>t, WorkersShrink, FS_Subset
  <2>3. ASSUME NEW d \in Dispatchers, ListQueued(d)
        PROVE  /\ m <= MaxConcurrency
               /\ \A e \in Dispatchers : disp'[e].pc = "queued" => m + disp'[e].slots <= MaxConcurrency
    <3>1. m = n
      BY <2>3 DEF ListQueued, ActiveWorkers, HasActiveWorker, workerVars
    <3>2. disp'[d].slots = FreeSlots
      BY <2>3, <2>t DEF ListQueued, DispatchState
    <3>3. n + FreeSlots <= MaxConcurrency
      <4>1. FreeSlots = IF n < MaxConcurrency THEN MaxConcurrency - n ELSE 0
        BY DEF FreeSlots
      <4> HIDE DEF n
      <4> QED BY <2>n, <2>b, <4>1
    <3> HIDE DEF n, m
    <3> QED BY <2>b, <3>1, <3>2, <3>3
  <2>4. ASSUME \A d \in Dispatchers : ~(Spawn(d) \/ ListQueued(d))
        PROVE  /\ m <= MaxConcurrency
               /\ \A e \in Dispatchers : disp'[e].pc = "queued" => m + disp'[e].slots <= MaxConcurrency
    <3>1. m <= n
      BY <2>2, <2>4
    <3>2. SlotsKept
      BY <1>2, <2>t, <2>4, PassSlots
    <3> HIDE DEF n, m
    <3>3. m <= MaxConcurrency
      BY <2>n, <2>b, <3>1
    <3>4. ASSUME NEW e \in Dispatchers, disp'[e].pc = "queued"
          PROVE  m + disp'[e].slots <= MaxConcurrency
      <4>1. disp'[e].slots = disp[e].slots /\ n + disp[e].slots <= MaxConcurrency
        BY <2>f, <3>2, <3>4 DEF SlotsKept
      <4>2. \A x, y, z, k \in Nat : x <= y /\ y + k <= z => x + k <= z
        OBVIOUS
      <4>3. m + disp[e].slots <= MaxConcurrency
        BY <2>n, <2>s, <3>1, <4>1, <4>2
      <4> QED BY <4>1, <4>3
    <3> QED BY <3>3, <3>4
  <2> QED BY <2>1, <2>3, <2>4
<1>3. OInv /\ ClaimIsLive /\ FInv /\ ConcurrencyBound /\ SlotsFit /\ [Next]_vars
        => ConcurrencyBound' /\ SlotsFit'
  BY <1>2
<1> QED BY <1>1, <1>3, OInvInductive, FInvInductive, PTL DEF Spec

-----------------------------------------------------------------------------
(***************************************************************************)
(* TaskRuns implements TaskLifecycle: with the claim as owner and the ids   *)
(* already handed out as the used runs, every step of the registry, the     *)
(* dispatch passes, the workers and the requests is a step of the abstract  *)
(* lifecycle or changes nothing it can see.                                 *)
(***************************************************************************)

\* A request in progress is about a row that has been inserted.
RequestedExists ==
  \A c \in Clients : client[c].op # "idle" => status[client[c].task] # "absent"

LEMMA TableKeepsExists ==
  ASSUME TInv, RequestedExists, TableStep
  PROVE  RequestedExists'
<1>t. RowsOK /\ client \in [Clients -> ClientState] /\ ClientHasTask
  BY DEF TInv, TypeOK
<1>1. \A t \in Tasks : status[t] # "absent" => status'[t] # "absent"
  BY <1>t DEF TableStep, QuietStep, CreateStep, ClaimStep, ClaimTask, FallbackStep, FinishStep,
              Finalize, MoveStep, RetryStep, DeleteStep, RowsOK, TaskStatus
<1> SUFFICES ASSUME NEW c \in Clients, client'[c].op # "idle"
             PROVE  status'[client'[c].task] # "absent"
  BY DEF RequestedExists
<1>2. ASSUME client'[c].op = client[c].op, client'[c].task = client[c].task
      PROVE  status'[client'[c].task] # "absent"
  BY <1>1, <1>2, <1>t DEF RequestedExists, ClientHasTask
<1>3. \A t : Bumped(t)[c].op = client[c].op /\ Bumped(t)[c].task = client[c].task
  BY <1>t DEF Bumped, ClientState
<1>4. client'[c] # IdleClient
  BY DEF IdleClient
<1>5. CASE QuietStep /\ QuietClients
  <2>1. CASE client'[c] = client[c] \/ client'[c] = [client[c] EXCEPT !.fresh = FALSE]
    <3>1. client'[c].op = client[c].op /\ client'[c].task = client[c].task
      BY <2>1, <1>t DEF ClientState
    <3> QED BY <1>2, <3>1
  <2>2. ASSUME NEW op \in Requests, NEW t \in Tasks, status[t] \in Permitted(op),
               client'[c] = [op |-> op, task |-> t, running |-> status[t] = "running", fresh |-> TRUE]
        PROVE  status'[client'[c].task] # "absent"
    <3>1. status[t] # "absent"
      BY <2>2, PermittedStates DEF TaskStatus
    <3>2. client'[c].task = t
      BY <2>2
    <3> QED BY <1>1, <3>1, <3>2
  <2> QED BY <1>4, <1>5, <2>1, <2>2 DEF QuietClients
<1>6. ASSUME NEW t \in Tasks, CreateStep(t)
      PROVE  status'[client'[c].task] # "absent"
  BY <1>2, <1>6 DEF CreateStep
<1>7. ASSUME NEW t \in Tasks,
             \/ ClaimStep(t) \/ FallbackStep(t)
             \/ \E r \in Runs : FinishStep(t, r)
      PROVE  status'[client'[c].task] # "absent"
  <2>1. client' = Bumped(t)
    BY <1>7 DEF ClaimStep, ClaimTask, FallbackStep, FinishStep
  <2> QED BY <1>2, <1>3, <2>1
<1>8. ASSUME NEW e \in Clients, NEW t \in Tasks,
             MoveStep(e, t) \/ RetryStep(e, t) \/ DeleteStep(e, t)
      PROVE  status'[client'[c].task] # "absent"
  <2>1. client'[c] = Bumped(t)[c]
    BY <1>4, <1>8, <1>t, BumpedType DEF MoveStep, RetryStep, DeleteStep, ClientWrote
  <2> QED BY <1>2, <1>3, <2>1
<1> QED BY <1>5, <1>6, <1>7, <1>8 DEF TableStep

RInv == OInv /\ RequestedExists

LEMMA RInvInductive ==
  /\ Init => RInv
  /\ RInv /\ [Next]_vars => RInv'
<1>1. Init => RequestedExists
  BY DEF Init, RequestedExists, IdleClient
<1> QED BY <1>1, OInvInductive, NextShape, TableKeepsExists DEF RInv, OInv

LEMMA RefinesInit == Init => Lifecycle!Init
<1> SUFFICES ASSUME Init PROVE Lifecycle!Init
  OBVIOUS
<1>1. {r \in Runs : r < next_run} = {}
  BY ConstantsAssumption DEF Init, Runs
<1> QED BY <1>1 DEF Init, Lifecycle!Init

LEMMA RefinesNext ==
  ASSUME ~StoreFaults, RInv, TableStep
  PROVE  [Lifecycle!Next]_(Lifecycle!vars)
<1> DEFINE used == {r \in Runs : r < next_run}
<1>t. RowsOK
  BY DEF RInv, OInv, TInv, TypeOK
<1>o. \A t \in Tasks : claim[t] # NoRun <=> status[t] = "running"
  BY DEF RInv, OInv, OneOwner
<1>1. CASE QuietStep
  BY <1>1 DEF QuietStep, Lifecycle!vars
<1>2. ASSUME NEW t \in Tasks, CreateStep(t)
      PROVE  Lifecycle!Create(t)
  BY <1>2 DEF CreateStep, Lifecycle!Create
<1>3. ASSUME NEW t \in Tasks, ClaimStep(t)
      PROVE  \E r \in Runs : Lifecycle!Claim(t, r)
  <2>1. PICK r \in Runs : r = next_run /\ r \in Nat /\ next_run' = r + 1
    BY <1>3 DEF ClaimStep, ClaimTask, Runs
  <2>2. r \notin used
    BY <2>1
  <2>3. used' = used \union {r}
    BY <2>1 DEF Runs
  <2>4. Lifecycle!Claim(t, r)
    BY <1>3, <2>1, <2>2, <2>3 DEF ClaimStep, ClaimTask, Claimable, Lifecycle!Claim
  <2> QED BY <2>4
<1>4. ASSUME NEW t \in Tasks, NEW r \in Runs, FinishStep(t, r)
      PROVE  \E s \in TaskStatus : Lifecycle!Release(t, s)
  <2>1. status[t] = "running"
    BY <1>4, <1>o, RunsAreNotNoRun DEF FinishStep, OwnsClaim
  <2>2. PICK oc \in TaskRunOutcome \union {"none"}, s \in TaskStatus \ {"running"} :
               Finalize(t, r, oc, s)
    BY <1>4 DEF FinishStep
  <2>3. s \in Lifecycle!TransitionTable["running"]
    BY DEF TaskStatus, Lifecycle!TransitionTable, Lifecycle!TaskStatus
  <2>4. Lifecycle!Release(t, s)
    BY <2>1, <2>2, <2>3 DEF Finalize, Lifecycle!Release
  <2> QED BY <2>4
<1>5. ASSUME NEW c \in Clients, NEW t \in Tasks, MoveStep(c, t)
      PROVE  \E s \in TaskStatus : Lifecycle!Move(t, s)
  <2> DEFINE s == IF client[c].op = "cancel" THEN "cancelled" ELSE "queued"
  <2>1. status[t] \in Permitted(client[c].op) /\ (client[c].running <=> status[t] = "running")
    BY <1>5 DEF MoveStep, RInv, OInv, FreshClient
  <2>2. \/ client[c].op = "cancel" /\ status[t] \in {"queued", "waiting_approval", "failed"}
        \/ client[c].op = "resolve" /\ status[t] = "waiting_approval"
    BY <1>5, <2>1 DEF MoveStep, Permitted
  <2>3. /\ s \in TaskStatus
        /\ status[t] \in Lifecycle!TaskStatus \ {"running"}
        /\ s \in Lifecycle!TransitionTable[status[t]] \ {"running"}
    BY <2>2 DEF TaskStatus, Lifecycle!TransitionTable, Lifecycle!TaskStatus
  <2>4. Lifecycle!Move(t, s)
    BY <1>5, <2>3 DEF MoveStep, Lifecycle!Move
  <2> QED BY <2>3, <2>4
<1>6. ASSUME NEW c \in Clients, NEW t \in Tasks, RetryStep(c, t)
      PROVE  \E s \in TaskStatus : Lifecycle!Move(t, s)
  <2>1. status[t] \in {"failed", "expired"}
    BY <1>6 DEF RetryStep, RInv, OInv, FreshClient, Permitted
  <2>2. claim' = claim
    BY <1>6, <1>o, <1>t, <2>1 DEF RetryStep, RowsOK
  <2>3. /\ status[t] \in Lifecycle!TaskStatus \ {"running"}
        /\ "queued" \in Lifecycle!TransitionTable[status[t]] \ {"running"}
    BY <2>1 DEF Lifecycle!TransitionTable, Lifecycle!TaskStatus
  <2>4. Lifecycle!Move(t, "queued")
    BY <1>6, <2>2, <2>3 DEF RetryStep, Lifecycle!Move
  <2> QED BY <2>4 DEF TaskStatus
<1>7. ASSUME NEW c \in Clients, NEW t \in Tasks, DeleteStep(c, t)
      PROVE  Lifecycle!Delete(t) \/ UNCHANGED Lifecycle!vars
  <2>1. status[t] \in TaskStatus \union {"deleted"}
    BY <1>7, <1>t DEF DeleteStep, RInv, RequestedExists, RowsOK, RowStatus
  <2>2. CASE status[t] \in TaskStatus
    BY <1>7, <2>2 DEF DeleteStep, TaskStatus, Lifecycle!Delete, Lifecycle!TaskStatus
  <2>3. CASE status[t] = "deleted"
    <3>1. status' = status /\ claim' = claim
      BY <1>7, <1>t, <1>o, <2>3 DEF DeleteStep, RowsOK
    <3> QED BY <1>7, <3>1 DEF DeleteStep, Lifecycle!vars
  <2> QED BY <2>1, <2>2, <2>3
<1>8. TaskStatus = Lifecycle!TaskStatus
  BY DEF TaskStatus, Lifecycle!TaskStatus
<1>9. ASSUME NEW t \in Tasks,
             \/ Lifecycle!Create(t) \/ Lifecycle!Delete(t)
             \/ \E r \in Runs : Lifecycle!Claim(t, r)
             \/ \E s \in TaskStatus : Lifecycle!Release(t, s) \/ Lifecycle!Move(t, s)
      PROVE  Lifecycle!Next
  BY <1>8, <1>9 DEF Lifecycle!Next
<1>10. CASE \E t \in Tasks : CreateStep(t) \/ ClaimStep(t)
  <2>1. PICK t \in Tasks : CreateStep(t) \/ ClaimStep(t)
    BY <1>10
  <2>2. CASE CreateStep(t)
    <3>1. Lifecycle!Create(t)
      BY <1>2, <2>2
    <3> QED BY <1>9, <3>1
  <2>3. CASE ClaimStep(t)
    <3>1. \E r \in Runs : Lifecycle!Claim(t, r)
      BY <1>3, <2>3
    <3> QED BY <1>9, <3>1
  <2> QED BY <2>1, <2>2, <2>3
<1>11. CASE \E t \in Tasks, r \in Runs : FinishStep(t, r)
  BY <1>4, <1>9, <1>11
<1>12. CASE \E c \in Clients, t \in Tasks : MoveStep(c, t) \/ RetryStep(c, t) \/ DeleteStep(c, t)
  <2>1. PICK c \in Clients, t \in Tasks : MoveStep(c, t) \/ RetryStep(c, t) \/ DeleteStep(c, t)
    BY <1>12
  <2>2. CASE MoveStep(c, t) \/ RetryStep(c, t)
    <3>1. \E s \in TaskStatus : Lifecycle!Move(t, s)
      BY <1>5, <1>6, <2>2
    <3> QED BY <1>9, <3>1
  <2>3. CASE DeleteStep(c, t)
    <3>1. Lifecycle!Delete(t) \/ UNCHANGED Lifecycle!vars
      BY <1>7, <2>3
    <3>2. Lifecycle!Delete(t) => Lifecycle!Next
      BY <1>9
    <3> QED BY <3>1, <3>2
  <2> QED BY <2>1, <2>2, <2>3
<1> QED BY <1>1, <1>10, <1>11, <1>12 DEF TableStep, FallbackStep

\* While the registry's calls succeed, the subsystem implements the abstract
\* lifecycle: every change of a task is an edge of TASK_TRANSITION_TABLE, taken by
\* a fresh run, by the run that owns the task, or by a user while nobody does.
THEOREM ImplementsLifecycle ==
  ASSUME ~StoreFaults
  PROVE  Spec => RefinesLifecycle
<1>1. RInv /\ [Next]_vars => [Lifecycle!Next]_(Lifecycle!vars)
  BY NextShape, RefinesNext DEF RInv, OInv
<1> QED BY <1>1, RefinesInit, RInvInductive, PTL DEF Spec, RefinesLifecycle, Lifecycle!Spec

=============================================================================

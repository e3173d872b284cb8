--------------------------- MODULE TaskRunsProofs ---------------------------
(***************************************************************************)
(* Proofs about TaskRuns, for any number of tasks, dispatchers, clients,    *)
(* runs and restarts.                                                       *)
(***************************************************************************)
EXTENDS TaskRuns, FiniteSetTheorems, TLAPS

(* Facts about the operators *)

LEMMA RunsAreNotNoRun == NoRun \notin Runs
  BY ConstantsAssumption DEF NoRun, Runs

\* The status a run row gets is a run status, and a terminal one.
LEMMA RunStatusIsTerminal ==
  ASSUME NEW oc
  PROVE  RunStatusOf(oc) \in TerminalRunStatus
  BY DEF RunStatusOf, TerminalRunStatus, TaskRunStatus

\* No outcome keeps a task running.
LEMMA TargetIsNotRunning ==
  ASSUME NEW f, NEW oc
  PROVE  TargetStatus(f, oc) \in TaskStatus \ {"running"}
  BY DEF TargetStatus, TaskStatus

LEMMA OutcomeOfType ==
  ASSUME NEW i
  PROVE  OutcomeOf(i) \in TaskRunOutcome
  BY DEF OutcomeOf, TaskRunOutcome

\* The token in the row is never one the runner knows: no cancellation, by a
\* user or by a proposal, reaches an executing worker.
LEMMA CancelNeverFinds ==
  ASSUME NEW r \in Runs
  PROVE  ~CancelFinds(r)
  BY DEF CancelFinds, RunnerToken, RegistryToken

LEMMA FreeSlotsType == WorkersOK => FreeSlots \in Nat
<1> SUFFICES ASSUME WorkersOK PROVE FreeSlots \in Nat
  OBVIOUS
<1>1. IsFiniteSet(Runs)
  BY FS_Interval, ConstantsAssumption DEF Runs
<1>2. IsFiniteSet(ActiveWorkers)
  BY <1>1, FS_Subset DEF ActiveWorkers
<1>3. Cardinality(ActiveWorkers) \in Nat
  BY <1>2, FS_CardinalityType
<1> QED
  BY <1>3, ConstantsAssumption DEF FreeSlots

LEMMA BumpedType ==
  ASSUME client \in [Clients -> ClientState], NEW t
  PROVE  Bumped(t) \in [Clients -> ClientState]
  BY DEF Bumped, ClientState

LEMMA IdleClientType == IdleClient \in ClientState
  BY DEF IdleClient, ClientState

LEMMA IdleDispatchType == IdleDispatch \in DispatchState
  BY DEF IdleDispatch, DispatchState

LEMMA FinishType ==
  ASSUME RowsOK, NEW t, NEW r \in Runs, NEW oc, NEW target \in RowStatus,
         FinishRun(t, r, oc, target)
  PROVE  RowsOK'
<1>1. CASE OwnsClaim(t, r)
  <2>1. Finalize(t, r, oc, target)
    BY <1>1 DEF FinishRun
  <2>2. run_status' \in [Runs -> TaskRunStatus \union {"absent", "deleted"}]
    BY <2>1, RunStatusIsTerminal DEF Finalize, RowsOK, TerminalRunStatus
  <2>3. failures' \in [Tasks -> Nat]
    <3>1. \A u \in Tasks : CountFailure(u, oc) \in Nat
      BY DEF CountFailure, RowsOK
    <3> QED BY <2>1, <3>1 DEF Finalize, RowsOK
  <2>4. /\ status' \in [Tasks -> RowStatus]
        /\ claim' \in [Tasks -> Runs \union {NoRun}]
        /\ lease' \in [Tasks -> LeaseState]
    BY <2>1 DEF Finalize, RowsOK, LeaseState
  <2> QED BY <2>1, <2>2, <2>3, <2>4 DEF Finalize, RowsOK
<1>2. CASE ~OwnsClaim(t, r)
  BY <1>2 DEF FinishRun, RowsOK, taskVars, runVars
<1> QED BY <1>1, <1>2

LEMMA AfterFinishType ==
  ASSUME client \in [Clients -> ClientState], NEW t, NEW r
  PROVE  AfterFinish(t, r) \in [Clients -> ClientState]
  BY BumpedType DEF AfterFinish

\* A conflicting or successful finish leaves alone the runs nobody has claimed.
LEMMA FinishKeepsRuns ==
  ASSUME NEW t, NEW r \in Runs, NEW oc, NEW target, RowsOK, FinishRun(t, r, oc, target)
  PROVE  /\ next_run' = next_run
         /\ run_task' = run_task
         /\ \A q \in Runs : run_status[q] = "absent" => run_status'[q] = "absent"
<1>1. CASE OwnsClaim(t, r)
  BY <1>1 DEF FinishRun, OwnsClaim, Finalize, RowsOK
<1>2. CASE ~OwnsClaim(t, r)
  BY <1>2 DEF FinishRun, taskVars, runVars
<1> QED BY <1>1, <1>2

-----------------------------------------------------------------------------
(* The bookkeeping invariant: types, and what ties the tables to the          *)
(* coroutines.  Types alone are not inductive: a worker whose run belongs to  *)
(* no task, a request about no task, or a pass that holds a claimed run but   *)
(* has no slot left for it, could leave them.                                 *)

\* AUTOINCREMENT ids below next_run belong to a task; the others are unused.
RunsKnown ==
  \A r \in Runs :
    /\ r < next_run => run_task[r] \in Tasks
    /\ ~(r < next_run) => run_task[r] = NoTask /\ run_status[r] = "absent" /\ worker[r] = "none"

\* A pass holding a claimed run has a slot for it, and the run exists.
ClaimHasSlot ==
  \A d \in Dispatchers :
    disp[d].claimed # NoRun =>
      disp[d].pc = "queued" /\ disp[d].slots > 0 /\ disp[d].claimed < next_run

\* A request in progress is about a task.
ClientHasTask == \A c \in Clients : client[c].op # "idle" => client[c].task \in Tasks

TInv == TypeOK /\ RunsKnown /\ ClaimHasSlot /\ ClientHasTask

\* Bumping and ending requests changes no task a request is about.
LEMMA BumpedHasTask ==
  ASSUME client \in [Clients -> ClientState], ClientHasTask, NEW t
  PROVE  \A c \in Clients : Bumped(t)[c].op # "idle" => Bumped(t)[c].task \in Tasks
  BY DEF Bumped, ClientState, ClientHasTask

LEMMA AfterFinishHasTask ==
  ASSUME client \in [Clients -> ClientState], ClientHasTask, NEW t, NEW r
  PROVE  \A c \in Clients : AfterFinish(t, r)[c].op # "idle" => AfterFinish(t, r)[c].task \in Tasks
  BY BumpedHasTask DEF AfterFinish, ClientHasTask

LEMMA ClientWroteType ==
  ASSUME client \in [Clients -> ClientState], ClientHasTask,
         NEW c \in Clients, NEW t, ClientWrote(c, t)
  PROVE  client' \in [Clients -> ClientState] /\ ClientHasTask'
<1>1. Bumped(t) \in [Clients -> ClientState]
  BY BumpedType
<1>2. client' \in [Clients -> ClientState]
  BY <1>1, IdleClientType DEF ClientWrote
<1>3. ClientHasTask'
  BY <1>1, BumpedHasTask DEF ClientWrote, ClientHasTask, IdleClient
<1> QED BY <1>2, <1>3

LEMMA ClientIdles ==
  ASSUME client \in [Clients -> ClientState], ClientHasTask, NEW c \in Clients,
         client' = [client EXCEPT ![c] = IdleClient]
  PROVE  client' \in [Clients -> ClientState] /\ ClientHasTask'
  BY IdleClientType DEF ClientHasTask, IdleClient

LEMMA InitTInv == Init => TInv
<1> SUFFICES ASSUME Init PROVE TInv
  OBVIOUS
<1>1. RowsOK /\ EventsOK /\ WorkersOK
  BY ConstantsAssumption
  DEF Init, RowsOK, EventsOK, WorkersOK, RowStatus, LeaseState, NoRun, Intents, WorkerState
<1>2. disp \in [Dispatchers -> DispatchState] /\ client \in [Clients -> ClientState]
  BY IdleDispatchType, IdleClientType DEF Init
<1>3. restarts \in 0..MaxRestarts
  BY ConstantsAssumption DEF Init
<1>4. RunsKnown
  BY ConstantsAssumption DEF Init, RunsKnown, Runs
<1>5. ClaimHasSlot /\ ClientHasTask
  BY DEF Init, ClaimHasSlot, ClientHasTask, IdleDispatch, IdleClient
<1> QED BY <1>1, <1>2, <1>3, <1>4, <1>5 DEF TInv, TypeOK

LEMMA DispatchTInv ==
  ASSUME TInv, NEW d \in Dispatchers,
         DispatchStep(d) \/ TickRaises(d) \/ SpawnFailureLost(d)
  PROVE  TInv'
<1> USE DEF TInv, TypeOK
<1>t. disp[d] \in DispatchState
  OBVIOUS
<1>u. ASSUME UNCHANGED <<taskVars, runVars, eventVars, workerVars, client, restarts>>,
             disp' \in [Dispatchers -> DispatchState], ClaimHasSlot'
      PROVE  TInv'
  BY <1>u DEF RowsOK, EventsOK, WorkersOK, RunsKnown, ClientHasTask,
              taskVars, runVars, eventVars, workerVars
<1>1. CASE TickStart(d)
  <2>1. WorkersOK'
    BY <1>1 DEF TickStart, WorkersOK
  <2>2. [IdleDispatch EXCEPT !.pc = "crashed", !.crashed = crashed] \in DispatchState
    BY DEF IdleDispatch, DispatchState, WorkersOK
  <2>3. disp' \in [Dispatchers -> DispatchState]
    BY <1>1, <2>2 DEF TickStart
  <2>4. ClaimHasSlot'
    BY <1>1 DEF TickStart, ClaimHasSlot, IdleDispatch, runVars
  <2> QED BY <1>1, <2>1, <2>3, <2>4
      DEF TickStart, RowsOK, EventsOK, RunsKnown, ClientHasTask, taskVars, runVars, eventVars
<1>2. ASSUME NEW r \in Runs, ReadCrashed(d, r)
      PROVE  TInv'
  <2> DEFINE doomed == status[run_task[r]] = "running" /\ claim[run_task[r]] = r
             v == IF doomed THEN r ELSE NoRun
             w == IF doomed THEN "crashed" ELSE "expired"
  <2>1. v \in Runs \union {NoRun} /\ w \in {"crashed", "expired"}
    OBVIOUS
  <2>2. disp' = [disp EXCEPT ![d].crashed = @ \ {r}, ![d].victim = v, ![d].verdict = w]
    BY <1>2 DEF ReadCrashed
  <2> HIDE DEF v, w
  <2>3. disp' \in [Dispatchers -> DispatchState]
    BY <2>1, <2>2, <1>t, ZenonT(60) DEF DispatchState
  <2>4. ClaimHasSlot'
    BY <1>2, <2>2, <1>t DEF ReadCrashed, ClaimHasSlot, DispatchState, runVars
  <2> QED BY <1>2, <1>u, <2>3, <2>4 DEF ReadCrashed
<1>3. CASE RecoverRun(d)
  <2> DEFINE r == disp[d].victim
  <2>1. r \in Runs
    BY <1>3, <1>t DEF RecoverRun, DispatchState
  <2>2. RowsOK'
    BY <1>3, <2>1, FinishType DEF RecoverRun, RowStatus, TaskStatus
  <2>3. client' \in [Clients -> ClientState] /\ ClientHasTask'
    BY <1>3, AfterFinishType, AfterFinishHasTask DEF RecoverRun, ClientHasTask
  <2>4. /\ next_run' = next_run
        /\ run_task' = run_task
        /\ \A q \in Runs : run_status[q] = "absent" => run_status'[q] = "absent"
    BY <1>3, <2>1, FinishKeepsRuns DEF RecoverRun
  <2>5. RunsKnown'
    BY <1>3, <2>4 DEF RecoverRun, RunsKnown, workerVars
  <2>6. disp' \in [Dispatchers -> DispatchState] /\ ClaimHasSlot'
    BY <1>3, <1>t, <2>4 DEF RecoverRun, DispatchState, ClaimHasSlot
  <2> QED BY <1>3, <2>2, <2>3, <2>5, <2>6
      DEF RecoverRun, EventsOK, WorkersOK, eventVars, workerVars
<1>4. CASE ListRunning(d)
  <2>1. {[run |-> claim[t], lease |-> lease[t]] :
           t \in {u \in Tasks : status[u] = "running" /\ claim[u] # NoRun}}
        \in SUBSET [run : Runs, lease : LeaseState]
    BY DEF RowsOK
  <2>2. disp' \in [Dispatchers -> DispatchState] /\ ClaimHasSlot'
    BY <1>4, <1>t, <2>1 DEF ListRunning, DispatchState, ClaimHasSlot, runVars
  <2> QED BY <1>4, <1>u, <2>2 DEF ListRunning
<1>5. ASSUME NEW e \in disp[d].snapshot, JudgeStale(d, e)
      PROVE  TInv'
  <2>1. e.run \in Runs
    BY <1>5, <1>t DEF DispatchState
  <2>2. disp' \in [Dispatchers -> DispatchState] /\ ClaimHasSlot'
    BY <1>5, <1>t, <2>1, ZenonT(60) DEF JudgeStale, DispatchState, ClaimHasSlot, runVars
  <2> QED BY <1>5, <1>u, <2>2 DEF JudgeStale
<1>6. CASE ListQueued(d)
  <2>1. disp' \in [Dispatchers -> DispatchState] /\ ClaimHasSlot'
    BY <1>6, <1>t, FreeSlotsType DEF ListQueued, DispatchState, ClaimHasSlot, runVars
  <2> QED BY <1>6, <1>u, <2>1 DEF ListQueued
<1>7. ASSUME NEW t \in Tasks, ClaimNext(d, t)
      PROVE  TInv'
  <2>1. CASE Claimable(t) /\ next_run <= MaxRuns
    <3>1. next_run \in Runs /\ ClaimTask(t)
      BY <1>7, <2>1, ConstantsAssumption DEF ClaimNext, RowsOK, Runs
    <3>2. RowsOK'
      BY <3>1, ConstantsAssumption
      DEF ClaimTask, RowsOK, RowStatus, TaskStatus, TaskRunStatus, LeaseState, Runs
    <3>3. client' \in [Clients -> ClientState] /\ ClientHasTask'
      BY <3>1, BumpedType, BumpedHasTask DEF ClaimTask, ClientHasTask
    <3>4. WorkersOK'
      BY <1>7, <2>1, <3>1 DEF ClaimNext, WorkersOK, RowsOK
    <3>5. disp' \in [Dispatchers -> DispatchState]
      BY <1>7, <1>t, <2>1, <3>1 DEF ClaimNext, DispatchState
    <3>6. next_run \in Nat /\ next_run' = next_run + 1
      BY <3>1 DEF ClaimTask, Runs
    <3>7. ClaimHasSlot'
      BY <1>7, <1>t, <2>1, <3>1, <3>6 DEF ClaimNext, DispatchState, ClaimHasSlot, Runs, NoRun
    <3>8. RunsKnown'
      BY <1>7, <3>1, <3>6 DEF ClaimNext, ClaimTask, RunsKnown, Runs, RowsOK
    <3> QED BY <1>7, <3>2, <3>3, <3>4, <3>5, <3>7, <3>8 DEF ClaimNext, EventsOK, eventVars
  <2>2. CASE ~(Claimable(t) /\ next_run <= MaxRuns)
    <3>1. disp' \in [Dispatchers -> DispatchState] /\ ClaimHasSlot'
      BY <1>7, <1>t, <2>2 DEF ClaimNext, DispatchState, ClaimHasSlot, runVars
    <3> QED BY <1>7, <1>u, <2>2, <3>1 DEF ClaimNext, workerVars
  <2> QED BY <2>1, <2>2
<1>8. CASE Spawn(d)
  <2>1. /\ disp[d].slots \in Nat /\ disp[d].slots > 0
        /\ disp[d].claimed \in Runs /\ disp[d].claimed < next_run
    BY <1>8, <1>t DEF Spawn, ClaimHasSlot, DispatchState
  <2>2. disp' \in [Dispatchers -> DispatchState] /\ ClaimHasSlot'
    BY <1>8, <1>t, <2>1 DEF Spawn, DispatchState, ClaimHasSlot, runVars
  <2>3. WorkersOK' /\ RunsKnown'
    BY <1>8, <2>1 DEF Spawn, WorkersOK, WorkerState, RunsKnown, runVars
  <2> QED BY <1>8, <2>2, <2>3
      DEF Spawn, RowsOK, EventsOK, ClientHasTask, taskVars, runVars, eventVars
<1>9. CASE SpawnFails(d)
  <2> DEFINE r == disp[d].claimed
  <2>1. r \in Runs
    BY <1>9, <1>t DEF SpawnFails, DispatchState
  <2>2. RowsOK'
    BY <1>9, <2>1, FinishType, TargetIsNotRunning DEF SpawnFails, RowStatus
  <2>3. client' \in [Clients -> ClientState] /\ ClientHasTask'
    BY <1>9, AfterFinishType, AfterFinishHasTask DEF SpawnFails, ClientHasTask
  <2>4. /\ next_run' = next_run
        /\ run_task' = run_task
        /\ \A q \in Runs : run_status[q] = "absent" => run_status'[q] = "absent"
    BY <1>9, <2>1, FinishKeepsRuns DEF SpawnFails
  <2>5. RunsKnown'
    BY <1>9, <2>4 DEF SpawnFails, RunsKnown, workerVars
  <2>6. disp' \in [Dispatchers -> DispatchState] /\ ClaimHasSlot'
    BY <1>9, <1>t, <2>4 DEF SpawnFails, DispatchState, ClaimHasSlot
  <2> QED BY <1>9, <2>2, <2>3, <2>5, <2>6
      DEF SpawnFails, EventsOK, WorkersOK, eventVars, workerVars
<1>10. CASE TickEnd(d) \/ TickRaises(d)
  <2>1. disp' = [disp EXCEPT ![d] = IdleDispatch] /\ UNCHANGED runVars
    BY <1>10 DEF TickEnd, TickRaises
  <2>2. disp' \in [Dispatchers -> DispatchState]
    BY <2>1, IdleDispatchType
  <2>3. ClaimHasSlot'
    BY <2>1 DEF ClaimHasSlot, IdleDispatch, runVars
  <2> QED BY <1>10, <1>u, <2>2, <2>3 DEF TickEnd, TickRaises
<1>11. CASE SpawnFailureLost(d)
  <2>1. disp' \in [Dispatchers -> DispatchState] /\ ClaimHasSlot'
    BY <1>11, <1>t DEF SpawnFailureLost, DispatchState, ClaimHasSlot, runVars
  <2> QED BY <1>11, <1>u, <2>1 DEF SpawnFailureLost
<1> QED BY <1>1, <1>2, <1>3, <1>4, <1>5, <1>6, <1>7, <1>8, <1>9, <1>10, <1>11 DEF DispatchStep

LEMMA WorkerTInv ==
  ASSUME TInv, NEW r \in Runs, WorkerStep(r)
  PROVE  TInv'
<1> USE DEF TInv, TypeOK
<1>t. worker[r] # "none" => run_task[r] \in Tasks
  BY DEF RunsKnown
<1>u. ASSUME worker[r] # "none", WorkersOK', RowsOK', UNCHANGED <<run_task, next_run, disp>>,
             \A q \in Runs : run_status[q] = "absent" => run_status'[q] = "absent",
             \A q \in Runs : q # r => worker'[q] = worker[q]
      PROVE  RunsKnown' /\ ClaimHasSlot'
  BY <1>u DEF RunsKnown, ClaimHasSlot
<1>1. ASSUME NEW kind \in {"complete", "fail"}, SubmitIntent(r, kind)
      PROVE  TInv'
  <2>1. claim[run_task[r]] \in Runs
    BY <1>1, <1>t DEF SubmitIntent, RowsOK
  <2>2. EventsOK'
    BY <1>1, <2>1 DEF SubmitIntent, EventsOK, Intents
  <2> QED BY <1>1, <2>2
      DEF SubmitIntent, RowsOK, WorkersOK, RunsKnown, ClaimHasSlot, ClientHasTask,
          taskVars, runVars, workerVars
<1>2. CASE Heartbeat(r)
  <2>1. RowsOK'
    BY <1>2 DEF Heartbeat, RecordHeartbeat, RowsOK, LeaseState, runVars
  <2>2. client' \in [Clients -> ClientState] /\ ClientHasTask'
    BY <1>2, BumpedType, BumpedHasTask DEF Heartbeat, RecordHeartbeat, ClientHasTask
  <2> QED BY <1>2, <2>1, <2>2
      DEF Heartbeat, RecordHeartbeat, EventsOK, WorkersOK, RunsKnown, ClaimHasSlot, runVars, eventVars, workerVars
<1>3. CASE ProposeChange(r)
  <2>1. EventsOK' /\ WorkersOK' /\ RowsOK'
    BY <1>3 DEF ProposeChange, EventsOK, WorkersOK, RowsOK, Intents, WorkerState, taskVars, runVars
  <2>2. RunsKnown' /\ ClaimHasSlot'
    BY <1>3, <1>u, <2>1 DEF ProposeChange, WorkersOK, runVars
  <2> QED BY <1>3, <2>1, <2>2 DEF ProposeChange, ClientHasTask
<1>4. CASE FinalizePropose(r)
  <2>1. RowsOK'
    BY <1>4, FinishType DEF FinalizePropose, RowStatus, TaskStatus
  <2>2. client' \in [Clients -> ClientState] /\ ClientHasTask'
    BY <1>4, AfterFinishType, AfterFinishHasTask DEF FinalizePropose, ClientHasTask
  <2>3. WorkersOK'
    BY <1>4 DEF FinalizePropose, WorkersOK, WorkerState
  <2>4. /\ next_run' = next_run
        /\ run_task' = run_task
        /\ \A q \in Runs : run_status[q] = "absent" => run_status'[q] = "absent"
    BY <1>4, FinishKeepsRuns DEF FinalizePropose
  <2>5. RunsKnown' /\ ClaimHasSlot'
    BY <1>4, <1>u, <2>1, <2>3, <2>4 DEF FinalizePropose, WorkersOK
  <2> QED BY <1>4, <2>1, <2>2, <2>3, <2>5 DEF FinalizePropose, EventsOK, eventVars
<1>5. CASE ProposeFallback(r)
  <2>1. RowsOK'
    BY <1>5 DEF ProposeFallback, RowsOK, RowStatus, TaskStatus, runVars
  <2>2. client' \in [Clients -> ClientState] /\ ClientHasTask'
    BY <1>5, BumpedType, BumpedHasTask DEF ProposeFallback, ClientHasTask
  <2>3. WorkersOK'
    BY <1>5 DEF ProposeFallback, WorkersOK, WorkerState
  <2>4. RunsKnown' /\ ClaimHasSlot'
    BY <1>5, <1>u, <2>1, <2>3 DEF ProposeFallback, WorkersOK, runVars
  <2> QED BY <1>5, <2>1, <2>2, <2>3, <2>4 DEF ProposeFallback, EventsOK, eventVars
<1>6. CASE ExecutorReturns(r)
  <2>1. WorkersOK'
    <3>1. PICK oc \in {OutcomeOf(intent[r]), "failed", "crashed", "terminated"} :
                 outcome' = [outcome EXCEPT ![r] = oc]
      BY <1>6 DEF ExecutorReturns
    <3>2. oc \in TaskRunOutcome
      BY <3>1, OutcomeOfType DEF TaskRunOutcome
    <3> QED BY <1>6, <3>1, <3>2 DEF ExecutorReturns, WorkersOK, WorkerState
  <2>2. RowsOK'
    BY <1>6 DEF ExecutorReturns, RowsOK, taskVars, runVars
  <2>3. RunsKnown' /\ ClaimHasSlot'
    BY <1>6, <1>u, <2>1, <2>2 DEF ExecutorReturns, WorkersOK, runVars
  <2> QED BY <1>6, <2>1, <2>2, <2>3 DEF ExecutorReturns, EventsOK, ClientHasTask, eventVars
<1>7. CASE TimesOut(r)
  <2>1. WorkersOK' /\ RowsOK'
    BY <1>7 DEF TimesOut, WorkersOK, RowsOK, WorkerState, TaskRunOutcome, taskVars, runVars
  <2>2. RunsKnown' /\ ClaimHasSlot'
    BY <1>7, <1>u, <2>1 DEF TimesOut, WorkersOK, runVars
  <2> QED BY <1>7, <2>1, <2>2 DEF TimesOut, EventsOK, ClientHasTask, eventVars
<1>8. CASE WorkerFinish(r)
  <2>1. RowsOK'
    BY <1>8, FinishType, TargetIsNotRunning DEF WorkerFinish, RowStatus
  <2>2. client' \in [Clients -> ClientState] /\ ClientHasTask'
    BY <1>8, AfterFinishType, AfterFinishHasTask DEF WorkerFinish, ClientHasTask
  <2>3. WorkersOK'
    BY <1>8 DEF WorkerFinish, WorkerForgets, WorkersOK, WorkerState
  <2>4. /\ next_run' = next_run
        /\ run_task' = run_task
        /\ \A q \in Runs : run_status[q] = "absent" => run_status'[q] = "absent"
    BY <1>8, FinishKeepsRuns DEF WorkerFinish
  <2>5. RunsKnown' /\ ClaimHasSlot'
    BY <1>8, <1>u, <2>1, <2>3, <2>4 DEF WorkerFinish, WorkersOK
  <2> QED BY <1>8, <2>1, <2>2, <2>3, <2>5 DEF WorkerFinish, EventsOK, eventVars
<1>9. CASE WorkerCloses(r)
  <2>1. WorkersOK' /\ RowsOK'
    BY <1>9 DEF WorkerCloses, WorkersOK, RowsOK, WorkerState, taskVars, runVars
  <2>2. RunsKnown' /\ ClaimHasSlot'
    BY <1>9, <1>u, <2>1 DEF WorkerCloses, WorkersOK, runVars
  <2> QED BY <1>9, <2>1, <2>2 DEF WorkerCloses, EventsOK, ClientHasTask, eventVars
<1>10. CASE WorkerRaises(r)
  <2>1. WorkersOK' /\ RowsOK'
    BY <1>10 DEF WorkerRaises, WorkerForgets, WorkersOK, RowsOK, WorkerState, taskVars, runVars
  <2>2. RunsKnown' /\ ClaimHasSlot'
    BY <1>10, <1>u, <2>1 DEF WorkerRaises, WorkersOK, runVars
  <2> QED BY <1>10, <2>1, <2>2 DEF WorkerRaises, EventsOK, ClientHasTask, eventVars
<1> QED BY <1>1, <1>2, <1>3, <1>4, <1>5, <1>6, <1>7, <1>8, <1>9, <1>10
    DEF WorkerStep, Complete, Fail

LEMMA ClientTInv ==
  ASSUME TInv, NEW c \in Clients, ClientStep(c)
  PROVE  TInv'
<1> USE DEF TInv, TypeOK
<1> DEFINE t == client[c].task
<1>u. ASSUME RowsOK', client' \in [Clients -> ClientState], ClientHasTask',
             UNCHANGED <<runVars, eventVars, workerVars, disp, restarts>>
      PROVE  TInv'
  BY <1>u DEF EventsOK, WorkersOK, RunsKnown, ClaimHasSlot, runVars, eventVars, workerVars
<1>v. ASSUME ClientGivesUp(c), UNCHANGED <<runVars, eventVars, workerVars, disp, restarts>>
      PROVE  TInv'
  <2>1. RowsOK'
    BY <1>v DEF ClientGivesUp, RowsOK, taskVars, runVars
  <2> QED BY <1>u, <1>v, <2>1, ClientIdles DEF ClientGivesUp
<1>w. ASSUME ClientWrote(c, t), RowsOK',
             UNCHANGED <<runVars, eventVars, workerVars, disp, restarts>>
      PROVE  TInv'
  BY <1>u, <1>w, ClientWroteType
<1>1. ASSUME NEW op \in Requests, NEW u \in Tasks, ClientRead(c, op, u)
      PROVE  TInv'
  <2>1. client' \in [Clients -> ClientState] /\ ClientHasTask'
    BY <1>1 DEF ClientRead, ClientState, ClientHasTask
  <2>2. RowsOK'
    BY <1>1 DEF ClientRead, RowsOK, taskVars, runVars
  <2> QED BY <1>1, <1>u, <2>1, <2>2 DEF ClientRead
<1>2. CASE CancelWrite(c) \/ CancelFallback(c)
  <2>1. CASE VersionCurrent(c)
    <3>1. RowsOK'
      BY <1>2, <2>1 DEF CancelWrite, CancelFallback, RowsOK, RowStatus, TaskStatus, runVars
    <3> QED BY <1>2, <1>w, <2>1, <3>1 DEF CancelWrite, CancelFallback
  <2>2. CASE ~VersionCurrent(c)
    BY <1>2, <1>v, <2>2 DEF CancelWrite, CancelFallback
  <2> QED BY <2>1, <2>2
<1>3. CASE TerminateRunning(c)
  <2> DEFINE r == claim[t]
             live == status[t] = "running" /\ r # NoRun /\ HasActiveWorker(r)
  <2>1. ~CancelFinds(r)
    BY DEF CancelFinds, RunnerToken, RegistryToken
  <2>2. client' = [client EXCEPT ![c] = IdleClient] /\ UNCHANGED <<taskVars, runVars, worker>>
    BY <1>3, <2>1 DEF TerminateRunning
  <2>3. client' \in [Clients -> ClientState] /\ ClientHasTask'
    BY <2>2, ClientIdles
  <2> QED BY <1>3, <2>2, <2>3
      DEF TerminateRunning, RowsOK, EventsOK, WorkersOK, RunsKnown, ClaimHasSlot,
          taskVars, runVars, eventVars
<1>4. CASE RetryWrite(c)
  <2>1. CASE VersionCurrent(c)
    <3>1. RowsOK'
      BY <1>4, <2>1 DEF RetryWrite, RowsOK, RowStatus, TaskStatus, LeaseState, runVars
    <3> QED BY <1>4, <1>w, <2>1, <3>1 DEF RetryWrite
  <2>2. CASE ~VersionCurrent(c)
    BY <1>4, <1>v, <2>2 DEF RetryWrite
  <2> QED BY <2>1, <2>2
<1>5. CASE DeleteWrite(c)
  <2>1. t \in Tasks /\ t # NoTask
    BY <1>5, ConstantsAssumption DEF DeleteWrite, ClientHasTask
  <2>2. RowsOK'
    BY <1>5 DEF DeleteWrite, RowsOK, RowStatus, LeaseState
  <2>3. client' \in [Clients -> ClientState] /\ ClientHasTask'
    BY <1>5, ClientWroteType DEF DeleteWrite
  <2>4. RunsKnown'
    BY <1>5, <2>1 DEF DeleteWrite, RunsKnown, workerVars
  <2> QED BY <1>5, <2>2, <2>3, <2>4
      DEF DeleteWrite, EventsOK, WorkersOK, ClaimHasSlot, eventVars, workerVars
<1>6. CASE ArchiveWrite(c)
  <2>1. CASE VersionCurrent(c)
    <3>1. is_archived' = [is_archived EXCEPT ![t] = ~is_archived[t]]
      BY <1>6, <2>1 DEF ArchiveWrite
    <3>2. is_archived' \in [Tasks -> BOOLEAN]
      BY <3>1, Zenon DEF RowsOK
    <3>3. RowsOK'
      BY <1>6, <2>1, <3>2 DEF ArchiveWrite, RowsOK, runVars
    <3> QED BY <1>6, <1>w, <2>1, <3>3 DEF ArchiveWrite
  <2>2. CASE ~VersionCurrent(c)
    BY <1>6, <1>v, <2>2 DEF ArchiveWrite
  <2> QED BY <2>1, <2>2
<1>7. CASE UpdateWrite(c)
  <2>1. CASE VersionCurrent(c)
    <3>1. RowsOK'
      BY <1>7, <2>1 DEF UpdateWrite, RowsOK, taskVars, runVars
    <3> QED BY <1>7, <1>w, <2>1, <3>1 DEF UpdateWrite
  <2>2. CASE ~VersionCurrent(c)
    BY <1>7, <1>v, <2>2 DEF UpdateWrite
  <2> QED BY <2>1, <2>2
<1>8. CASE ResolveWrite(c)
  <2>1. CASE VersionCurrent(c) /\ ~is_archived[t] /\ Pending(t) # {}
    <3>1. RowsOK'
      BY <1>8, <2>1 DEF ResolveWrite, RowsOK, RowStatus, TaskStatus, runVars
    <3>2. client' \in [Clients -> ClientState] /\ ClientHasTask'
      BY <1>8, <2>1, ClientWroteType DEF ResolveWrite
    <3>3. EventsOK'
      BY <1>8, <2>1 DEF ResolveWrite, EventsOK, Pending
    <3> QED BY <1>8, <2>1, <3>1, <3>2, <3>3
        DEF ResolveWrite, WorkersOK, RunsKnown, ClaimHasSlot, runVars, workerVars
  <2>2. CASE ~(VersionCurrent(c) /\ ~is_archived[t] /\ Pending(t) # {})
    BY <1>8, <1>v, <2>2 DEF ResolveWrite, eventVars
  <2> QED BY <2>1, <2>2
<1> QED BY <1>1, <1>2, <1>3, <1>4, <1>5, <1>6, <1>7, <1>8 DEF ClientStep

LEMMA TimeTInv ==
  ASSUME TInv, NEW t \in Tasks,
         CreateTask(t) \/ HeartbeatGoesStale(t) \/ LeaseExpires(t) \/ ScheduleDue(t)
  PROVE  TInv'
<1> USE DEF TInv, TypeOK
<1>1. RowsOK'
  BY DEF CreateTask, HeartbeatGoesStale, LeaseExpires, ScheduleDue,
         RowsOK, RowStatus, TaskStatus, LeaseState, runVars
<1> QED
  BY <1>1 DEF CreateTask, HeartbeatGoesStale, LeaseExpires, ScheduleDue,
              EventsOK, WorkersOK, RunsKnown, ClaimHasSlot, ClientHasTask,
              runVars, eventVars, workerVars

LEMMA RestartTInv ==
  ASSUME TInv, Restart
  PROVE  TInv'
<1> USE DEF TInv, TypeOK
<1>1. WorkersOK'
  BY DEF Restart, WorkersOK, WorkerState
<1>2. disp' \in [Dispatchers -> DispatchState] /\ client' \in [Clients -> ClientState]
  BY IdleDispatchType, IdleClientType DEF Restart
<1>3. ClaimHasSlot' /\ ClientHasTask'
  BY DEF Restart, ClaimHasSlot, ClientHasTask, IdleDispatch, IdleClient
<1>4. restarts' \in 0..MaxRestarts
  BY ConstantsAssumption DEF Restart
<1>5. RunsKnown'
  BY DEF Restart, RunsKnown, runVars
<1> QED
  BY <1>1, <1>2, <1>3, <1>4, <1>5 DEF Restart, RowsOK, EventsOK, taskVars, runVars, eventVars

LEMMA NextTInv == TInv /\ [Next]_vars => TInv'
<1> SUFFICES ASSUME TInv, [Next]_vars PROVE TInv'
  OBVIOUS
<1>1. CASE Next
  BY <1>1, DispatchTInv, WorkerTInv, ClientTInv, TimeTInv, RestartTInv DEF Next
<1>2. CASE UNCHANGED vars
  BY <1>2 DEF TInv, TypeOK, RowsOK, EventsOK, WorkersOK, RunsKnown, ClaimHasSlot, ClientHasTask,
              vars, taskVars, runVars, eventVars, workerVars
<1> QED BY <1>1, <1>2

\* Whatever the tasks, passes, requests, faults and restarts, every column and
\* every local variable of the task subsystem keeps its type.
THEOREM TypeCorrect == Spec => []TypeOK
<1>1. TInv => TypeOK
  BY DEF TInv
<1> QED BY InitTInv, NextTInv, <1>1, PTL DEF Spec

=============================================================================

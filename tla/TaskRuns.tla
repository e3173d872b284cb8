------------------------------ MODULE TaskRuns ------------------------------
(***************************************************************************)
(* The task subsystem of N-Agent: the SQLite task registry, the user-facing *)
(* TaskService, the TaskRunService that dispatches and finalizes runs, the  *)
(* in-process TaskRunner and the workers it spawns.                         *)
(*                                                                         *)
(* Each registry call is one BEGIN IMMEDIATE transaction executed in a      *)
(* thread, so it is atomic here; a service method that awaits several       *)
(* registry calls is split between them, and whatever it read is kept in    *)
(* the local state of the actor that read it.                               *)
(*                                                                         *)
(* claim_lock and current_run_id are drawn afresh by every claim and are    *)
(* only ever written together, so one column "claim" stands for both: its   *)
(* value is the run that holds the task.                                    *)
(***************************************************************************)
EXTENDS Naturals, FiniteSets

CONSTANTS
  Tasks,           \* task ids that may be created
  NoTask,          \* what an idle client refers to
  Dispatchers,     \* callers of dispatch_once: the runner's loop, the HTTP route
  Clients,         \* callers of the TaskService user operations
  Requests,        \* the user operations they call
  MaxRuns,         \* bound: claims in a behaviour
  MaxRetries,      \* max_retries of every task
  MaxConcurrency,  \* task_max_concurrency
  MaxRestarts,     \* bound: process restarts in a behaviour
  StoreFaults      \* may a registry call raise (database locked, disk error)?

ASSUME ConstantsAssumption ==
  /\ NoTask \notin Tasks
  /\ Requests \subseteq {"cancel", "retry", "delete", "archive", "update", "resolve"}
  /\ MaxRuns \in Nat
  /\ MaxRetries \in Nat
  /\ MaxConcurrency \in Nat
  /\ MaxRestarts \in Nat
  /\ StoreFaults \in BOOLEAN

Runs == 1..MaxRuns
NoRun == 0

VARIABLES
  \* columns of the tasks table
  status,       \* lifecycle state, "absent" before the insert, "deleted" after
  is_archived,  \* soft-delete flag
  scheduled,    \* scheduled_at lies in the future
  claim,        \* claim_lock + current_run_id: the run holding the task
  lease,        \* last_heartbeat_at and claim_expires against the clock
  failures,     \* consecutive_failures
  \* the task_runs and task_events tables
  run_status,   \* state of each run row
  run_task,     \* the task each run belongs to
  next_run,     \* AUTOINCREMENT
  intent,       \* latest intent event stamped with each run
  proposed,     \* runs with a change_proposed event
  resolved,     \* those of them a resolution marker refers to
  \* the process: TaskRunner, its workers, the dispatch passes, the requests
  worker,       \* control state of the worker of each run
  outcome,      \* the outcome a worker is about to report
  seen_failures,\* consecutive_failures in the Task a worker was given
  crashed,      \* TaskRunner._crashed
  disp,         \* the dispatch passes
  client,       \* the requests in progress
  restarts,
  \* history
  foreign       \* runs whose latest intent was written by another run's worker

taskVars   == <<status, is_archived, scheduled, claim, lease, failures>>
runVars    == <<run_status, run_task, next_run>>
eventVars  == <<intent, proposed, resolved, foreign>>
workerVars == <<worker, outcome, seen_failures, crashed>>
vars == <<taskVars, runVars, eventVars, workerVars, disp, client, restarts>>

-----------------------------------------------------------------------------
(* Domain values *)

TaskStatus == {"queued", "running", "waiting_approval", "succeeded",
               "failed", "cancelled", "expired"}
RowStatus == TaskStatus \union {"absent", "deleted"}
TaskRunStatus == {"running", "completed", "failed", "crashed", "timed_out", "terminated"}
TerminalRunStatus == TaskRunStatus \ {"running"}
TaskRunOutcome == {"completed", "waiting_approval", "failed", "crashed", "timed_out",
                   "spawn_failed", "expired", "terminated", "aborted"}
\* Claim and heartbeat write last_heartbeat_at = now and claim_expires = now +
\* lease together, and the configuration requires heartbeat timeout < lease: a
\* row ages from fresh over a stale heartbeat to an expired lease.
LeaseState == {"none", "fresh", "stale", "expired"}
Intents == {"none", "complete", "propose", "fail"}
WorkerState == {"none", "executing", "proposing", "ended", "closing", "gone"}

IdleClient == [op |-> "idle", task |-> NoTask, running |-> FALSE, fresh |-> TRUE]
IdleDispatch == [pc |-> "idle", crashed |-> {}, snapshot |-> {}, victim |-> NoRun,
                 verdict |-> "expired", queue |-> {}, slots |-> 0, claimed |-> NoRun]

DispatchState ==
  [pc : {"idle", "crashed", "stale", "queued"},
   crashed : SUBSET Runs,                             \* entries taken from _crashed
   snapshot : SUBSET [run : Runs, lease : LeaseState], \* rows of list_running
   victim : Runs \union {NoRun},                      \* the run about to be recovered
   verdict : {"crashed", "expired"},
   queue : SUBSET Tasks,                              \* rows of list_queued_due
   slots : Nat,                                       \* workers the pass may still add
   claimed : Runs \union {NoRun}]                     \* claimed and not yet spawned
ClientState ==
  [op : Requests \union {"idle"},
   task : Tasks \union {NoTask},
   running : BOOLEAN,                                 \* the status it read
   fresh : BOOLEAN]                                   \* the version it read is current

RowsOK ==
  /\ status \in [Tasks -> RowStatus]
  /\ is_archived \in [Tasks -> BOOLEAN]
  /\ scheduled \in [Tasks -> BOOLEAN]
  /\ claim \in [Tasks -> Runs \union {NoRun}]
  /\ lease \in [Tasks -> LeaseState]
  /\ failures \in [Tasks -> Nat]
  /\ run_status \in [Runs -> TaskRunStatus \union {"absent", "deleted"}]
  /\ run_task \in [Runs -> Tasks \union {NoTask}]
  /\ next_run \in 1..(MaxRuns + 1)

EventsOK ==
  /\ intent \in [Runs -> Intents]
  /\ proposed \in SUBSET Runs
  /\ resolved \in SUBSET Runs
  /\ foreign \in SUBSET Runs

WorkersOK ==
  /\ worker \in [Runs -> WorkerState]
  /\ outcome \in [Runs -> TaskRunOutcome \union {"none"}]
  /\ seen_failures \in [Runs -> Nat]
  /\ crashed \in SUBSET Runs

\* Every column, table and local variable of a coroutine keeps its type: no
\* outcome, decision or row state outside the domain's enumerations is written.
TypeOK ==
  /\ RowsOK
  /\ EventsOK
  /\ WorkersOK
  /\ disp \in [Dispatchers -> DispatchState]
  /\ client \in [Clients -> ClientState]
  /\ restarts \in 0..MaxRestarts

Init ==
  /\ status = [t \in Tasks |-> "absent"]
  /\ is_archived = [t \in Tasks |-> FALSE]
  /\ scheduled = [t \in Tasks |-> FALSE]
  /\ claim = [t \in Tasks |-> NoRun]
  /\ lease = [t \in Tasks |-> "none"]
  /\ failures = [t \in Tasks |-> 0]
  /\ run_status = [r \in Runs |-> "absent"]
  /\ run_task = [r \in Runs |-> NoTask]
  /\ next_run = 1
  /\ intent = [r \in Runs |-> "none"]
  /\ proposed = {}
  /\ resolved = {}
  /\ foreign = {}
  /\ worker = [r \in Runs |-> "none"]
  /\ outcome = [r \in Runs |-> "none"]
  /\ seen_failures = [r \in Runs |-> 0]
  /\ crashed = {}
  /\ disp = [d \in Dispatchers |-> IdleDispatch]
  /\ client = [c \in Clients |-> IdleClient]
  /\ restarts = 0

-----------------------------------------------------------------------------
(* Registry transactions.  A row's version is represented where it is used: *)
(* a request remembers whether the row was written since it read it.        *)

\* Every write of t's row increments its version.
Bumped(t) ==
  [c \in Clients |-> IF client[c].task = t THEN [client[c] EXCEPT !.fresh = FALSE]
                                           ELSE client[c]]

Claimable_IgnoresClaim(t) ==
  status[t] \in {"queued", "running"} /\ ~is_archived[t] /\ ~scheduled[t]

\* The WHERE clause of _claim_task_sync.
Claimable(t) ==
  /\ status[t] = "queued"
  /\ ~is_archived[t]
  /\ ~scheduled[t]
  /\ lease[t] \in {"none", "expired"}

\* The transaction of _claim_task_sync on a claimable row.
ClaimTask(t) ==
  LET r == next_run IN
  /\ r \in Runs
  /\ next_run' = r + 1
  /\ run_status' = [run_status EXCEPT ![r] = "running"]
  /\ run_task' = [run_task EXCEPT ![r] = t]
  /\ status' = [status EXCEPT ![t] = "running"]
  /\ claim' = [claim EXCEPT ![t] = r]
  /\ lease' = [lease EXCEPT ![t] = "fresh"]
  /\ client' = Bumped(t)
  /\ UNCHANGED <<is_archived, scheduled, failures>>

OwnsClaim_RunOnly(t, r) ==
  run_task[r] = t /\ run_status[r] \in TaskRunStatus /\ status[t] = "running"

\* The checks of _finalize_run: the run row is still running, and the task row
\* still carries its claim.  The task's status and version are not consulted.
OwnsClaim(t, r) ==
  /\ run_task[r] = t
  /\ run_status[r] = "running"
  /\ claim[t] = r

RunStatusOf_Verbatim(oc) == oc

\* _outcome_to_run_status
RunStatusOf(oc) ==
  CASE oc \in {"completed", "waiting_approval"} -> "completed"
    [] oc = "crashed"                           -> "crashed"
    [] oc \in {"timed_out", "expired"}          -> "timed_out"
    [] oc = "terminated"                        -> "terminated"
    [] OTHER                                    -> "failed"

\* consecutive_failures after a run of t ended with oc.
CountFailure(t, oc) ==
  CASE oc = "completed"                  -> 0
    [] oc \in {"failed", "spawn_failed"} -> failures[t] + 1
    [] OTHER                             -> failures[t]

Finalize_KeepsClaim(t, r, oc, target) ==
  /\ run_status' = [run_status EXCEPT ![r] = RunStatusOf(oc)]
  /\ status' = [status EXCEPT ![t] = target]
  /\ failures' = [failures EXCEPT ![t] = CountFailure(t, oc)]
  /\ UNCHANGED <<claim, lease, is_archived, scheduled, run_task, next_run>>

\* The writes of _finalize_run once its checks passed.
Finalize(t, r, oc, target) ==
  /\ run_status' = [run_status EXCEPT ![r] = RunStatusOf(oc)]
  /\ status' = [status EXCEPT ![t] = target]
  /\ claim' = [claim EXCEPT ![t] = NoRun]
  /\ lease' = [lease EXCEPT ![t] = "none"]
  /\ failures' = [failures EXCEPT ![t] = CountFailure(t, oc)]
  /\ UNCHANGED <<is_archived, scheduled, run_task, next_run>>

\* finish_run and recover_run: a claim that is no longer held is a conflict,
\* which the callers log and swallow.
FinishRun(t, r, oc, target) ==
  IF OwnsClaim(t, r)
  THEN Finalize(t, r, oc, target)
  ELSE UNCHANGED <<taskVars, runVars>>

\* The requests a finish_run invalidates.
AfterFinish(t, r) == IF OwnsClaim(t, r) THEN Bumped(t) ELSE client

-----------------------------------------------------------------------------
(* TaskRunService: decisions *)

TargetStatus_OffByOne(f, oc) ==
  CASE oc = "completed"                           -> "succeeded"
    [] oc = "waiting_approval"                    -> "waiting_approval"
    [] oc = "terminated"                          -> "cancelled"
    [] oc = "aborted"                             -> "failed"
    [] oc \in {"expired", "crashed", "timed_out"} -> "expired"
    [] f > MaxRetries                             -> "failed"
    [] OTHER                                      -> "queued"

\* _decide_target_status, with f the failures of the Task the caller holds:
\* the circuit breaker denies the automatic retry past max_retries.
TargetStatus(f, oc) ==
  CASE oc = "completed"                           -> "succeeded"
    [] oc = "waiting_approval"                    -> "waiting_approval"
    [] oc = "terminated"                          -> "cancelled"
    [] oc = "aborted"                             -> "failed"
    [] oc \in {"expired", "crashed", "timed_out"} -> "expired"
    [] f + 1 > MaxRetries                         -> "failed"
    [] OTHER                                      -> "queued"

HasActiveWorker_NeverForgotten(r) == worker[r] # "none"

\* TaskRunner._run_meta: a worker is listed from spawn until its finally block.
HasActiveWorker(r) == worker[r] \in {"executing", "proposing", "ended", "closing"}

ActiveWorkers == {r \in Runs : HasActiveWorker(r)}

\* The token _claim_task_sync stores in the row, and the one TaskRunner.spawn
\* registers the worker under.
RegistryToken(r) == <<"uuid", r>>
RunnerToken(r) == <<"wt", r>>

\* _cancel_worker_if_active: dispatcher.cancel looks the row's token up among
\* the runner's.
CancelFinds(r) ==
  HasActiveWorker(r) /\ \E w \in ActiveWorkers : RunnerToken(w) = RegistryToken(r)

Recoverable_WorkerOnly(e) == HasActiveWorker(e.run) /\ e.lease \in {"stale", "expired"}

\* The test _recover_stale_executions applies to one row of its snapshot.
Recoverable(e) ==
  e.lease \in IF HasActiveWorker(e.run) THEN {"stale", "expired"} ELSE {"none", "expired"}

-----------------------------------------------------------------------------
(* One pass of dispatch_once *)

\* get_crashed_workers returns and clears the queue.
TickStart(d) ==
  /\ disp[d].pc = "idle"
  /\ disp' = [disp EXCEPT ![d] = [IdleDispatch EXCEPT !.pc = "crashed", !.crashed = crashed]]
  /\ crashed' = {}
  /\ UNCHANGED <<taskVars, runVars, eventVars, worker, outcome, seen_failures,
                 client, restarts>>

\* _recover_crashed_workers reads the task of one entry.
ReadCrashed(d, r) ==
  LET doomed == status[run_task[r]] = "running" /\ claim[run_task[r]] = r IN
  /\ disp[d].pc = "crashed"
  /\ disp[d].victim = NoRun
  /\ r \in disp[d].crashed
  /\ disp' = [disp EXCEPT ![d].crashed = @ \ {r},
                          ![d].victim = IF doomed THEN r ELSE NoRun,
                          ![d].verdict = IF doomed THEN "crashed" ELSE "expired"]
  /\ UNCHANGED <<taskVars, runVars, eventVars, workerVars, client, restarts>>

\* recover_run, for a crashed or an expired run.
RecoverRun(d) ==
  LET r == disp[d].victim
      t == run_task[r]
  IN
  /\ r # NoRun
  /\ FinishRun(t, r, disp[d].verdict, "expired")
  /\ client' = AfterFinish(t, r)
  /\ disp' = [disp EXCEPT ![d].victim = NoRun, ![d].verdict = "expired"]
  /\ UNCHANGED <<eventVars, workerVars, restarts>>

\* list_running, once every crashed entry was handled.
ListRunning(d) ==
  /\ disp[d].pc = "crashed"
  /\ disp[d].crashed = {}
  /\ disp[d].victim = NoRun
  /\ disp' = [disp EXCEPT
       ![d].pc = "stale",
       ![d].snapshot = {[run |-> claim[t], lease |-> lease[t]] :
                          t \in {u \in Tasks : status[u] = "running" /\ claim[u] # NoRun}}]
  /\ UNCHANGED <<taskVars, runVars, eventVars, workerVars, client, restarts>>

\* One row of the snapshot: skipped, or picked for recovery.
JudgeStale(d, e) ==
  /\ disp[d].pc = "stale"
  /\ disp[d].victim = NoRun
  /\ e \in disp[d].snapshot
  /\ disp' = [disp EXCEPT ![d].snapshot = @ \ {e},
                          ![d].victim = IF Recoverable(e) THEN e.run ELSE NoRun,
                          ![d].verdict = "expired"]
  /\ UNCHANGED <<taskVars, runVars, eventVars, workerVars, client, restarts>>

FreeSlots_Ignored == MaxConcurrency

\* task_max_concurrency less the active workers, counted once per pass.
FreeSlots ==
  LET n == Cardinality(ActiveWorkers) IN
  IF n < MaxConcurrency THEN MaxConcurrency - n ELSE 0

\* list_queued_due, then the count of active workers.
ListQueued(d) ==
  /\ disp[d].pc = "stale"
  /\ disp[d].snapshot = {}
  /\ disp[d].victim = NoRun
  /\ disp' = [disp EXCEPT
       ![d].pc = "queued",
       ![d].queue = {t \in Tasks : status[t] = "queued" /\ ~is_archived[t] /\ ~scheduled[t]},
       ![d].slots = FreeSlots]
  /\ UNCHANGED <<taskVars, runVars, eventVars, workerVars, client, restarts>>

\* claim_task for one candidate; a row that changed since the listing is skipped.
ClaimNext(d, t) ==
  /\ disp[d].pc = "queued"
  /\ disp[d].claimed = NoRun
  /\ disp[d].slots > 0
  /\ t \in disp[d].queue
  /\ IF Claimable(t) /\ next_run <= MaxRuns
     THEN /\ ClaimTask(t)
          /\ seen_failures' = [seen_failures EXCEPT ![next_run] = failures[t]]
          /\ disp' = [disp EXCEPT ![d].queue = @ \ {t}, ![d].claimed = next_run]
     ELSE /\ disp' = [disp EXCEPT ![d].queue = @ \ {t}]
          /\ UNCHANGED <<taskVars, runVars, seen_failures, client>>
  /\ UNCHANGED <<eventVars, worker, outcome, crashed, restarts>>

\* TaskRunner.spawn
Spawn(d) ==
  LET r == disp[d].claimed IN
  /\ r # NoRun
  /\ worker' = [worker EXCEPT ![r] = "executing"]
  /\ disp' = [disp EXCEPT ![d].claimed = NoRun, ![d].slots = @ - 1]
  /\ UNCHANGED <<taskVars, runVars, eventVars, outcome, seen_failures, crashed,
                 client, restarts>>

\* spawn raised: _handle_spawn_failure.
SpawnFails(d) ==
  LET r == disp[d].claimed
      t == run_task[r]
  IN
  /\ r # NoRun
  /\ FinishRun(t, r, "spawn_failed", TargetStatus(seen_failures[r], "spawn_failed"))
  /\ client' = AfterFinish(t, r)
  /\ disp' = [disp EXCEPT ![d].claimed = NoRun]
  /\ UNCHANGED <<eventVars, workerVars, restarts>>

TickEnd(d) ==
  /\ disp[d].pc = "queued"
  /\ disp[d].claimed = NoRun
  /\ disp[d].queue = {} \/ disp[d].slots = 0
  /\ disp' = [disp EXCEPT ![d] = IdleDispatch]
  /\ UNCHANGED <<taskVars, runVars, eventVars, workerVars, client, restarts>>

\* A registry call of the recovery phases raised: the pass is abandoned, and
\* with it the crashed entries it had taken.
TickRaises(d) ==
  /\ StoreFaults
  /\ disp[d].pc \in {"crashed", "stale"}
  /\ disp' = [disp EXCEPT ![d] = IdleDispatch]
  /\ UNCHANGED <<taskVars, runVars, eventVars, workerVars, client, restarts>>

\* spawn failed and so did finish_run: the candidate is given up, still running.
SpawnFailureLost(d) ==
  /\ StoreFaults
  /\ disp[d].claimed # NoRun
  /\ disp' = [disp EXCEPT ![d].claimed = NoRun]
  /\ UNCHANGED <<taskVars, runVars, eventVars, workerVars, client, restarts>>

DispatchStep(d) ==
  \/ TickStart(d)
  \/ \E r \in Runs : ReadCrashed(d, r)
  \/ RecoverRun(d)
  \/ ListRunning(d)
  \/ \E e \in disp[d].snapshot : JudgeStale(d, e)
  \/ ListQueued(d)
  \/ \E t \in Tasks : ClaimNext(d, t)
  \/ Spawn(d)
  \/ SpawnFails(d)
  \/ TickEnd(d)

-----------------------------------------------------------------------------
(* The worker of run r: TaskRunner._run_worker, run_claim, the executor and *)
(* the task tools it calls.                                                 *)

\* task_complete and task_fail carry only the task id: the event is stamped
\* with whatever run holds the task when TaskService reads the row.
SubmitIntent(r, kind) ==
  LET t == run_task[r]
      q == claim[t]
  IN
  /\ worker[r] = "executing"
  /\ status[t] = "running"
  /\ q # NoRun
  /\ intent' = [intent EXCEPT ![q] = kind]
  /\ foreign' = IF q = r THEN foreign \ {r} ELSE foreign \union {q}
  /\ UNCHANGED <<taskVars, runVars, proposed, resolved, workerVars, disp, client,
                 restarts>>

Complete(r) == SubmitIntent(r, "complete")
Fail(r) == SubmitIntent(r, "fail")

\* The transaction of _record_heartbeat_sync: a new heartbeat and a new lease.
RecordHeartbeat(t) ==
  /\ lease' = [lease EXCEPT ![t] = "fresh"]
  /\ client' = Bumped(t)

\* task_heartbeat renews the lease of the run that holds the task.
Heartbeat(r) ==
  LET t == run_task[r] IN
  /\ worker[r] = "executing"
  /\ status[t] = "running"
  /\ claim[t] # NoRun
  /\ RecordHeartbeat(t)
  /\ UNCHANGED <<status, is_archived, scheduled, claim, failures, runVars, eventVars,
                 workerVars, disp, restarts>>

\* propose_change checks the run id it was given against the row.
MayPropose(r) == status[run_task[r]] = "running" /\ claim[run_task[r]] = r

\* task_propose_change up to the change_proposed event.
ProposeChange(r) ==
  /\ worker[r] = "executing"
  /\ MayPropose(r)
  /\ proposed' = proposed \union {r}
  /\ intent' = [intent EXCEPT ![r] = "propose"]
  /\ foreign' = foreign \ {r}
  /\ worker' = [worker EXCEPT ![r] = "proposing"]
  /\ UNCHANGED <<taskVars, runVars, resolved, outcome, seen_failures, crashed, disp,
                 client, restarts>>

\* finalize_propose; a worker that was not cancelled goes on executing.
FinalizePropose(r) ==
  LET t == run_task[r] IN
  /\ worker[r] = "proposing"
  /\ FinishRun(t, r, "waiting_approval", "waiting_approval")
  /\ client' = AfterFinish(t, r)
  /\ worker' = [worker EXCEPT ![r] = IF CancelFinds(r) THEN "gone" ELSE "executing"]
  /\ UNCHANGED <<eventVars, outcome, seen_failures, crashed, disp, restarts>>

\* finalize_propose raised: propose_change moves the row itself and leaves the
\* claim where it is, or loses the compare-and-set to a write since its read.
ProposeFallback(r) ==
  LET t == run_task[r] IN
  /\ StoreFaults
  /\ worker[r] = "proposing"
  /\ worker' = [worker EXCEPT ![r] = "executing"]
  /\ \/ /\ MayPropose(r)
        /\ status' = [status EXCEPT ![t] = "waiting_approval"]
        /\ client' = Bumped(t)
     \/ UNCHANGED <<status, client>>
  /\ UNCHANGED <<is_archived, scheduled, claim, lease, failures, runVars,
                 eventVars, outcome, seen_failures, crashed, disp, restarts>>

OutcomeOf_NoIntentCompletes(i) ==
  CASE i = "propose" -> "waiting_approval"
    [] i = "fail"    -> "aborted"
    [] OTHER         -> "completed"

OutcomeOf_FailWaits(i) ==
  CASE i = "complete"          -> "completed"
    [] i \in {"propose", "fail"} -> "waiting_approval"
    [] OTHER                   -> "failed"

\* _build_result_from_chat
OutcomeOf(i) ==
  CASE i = "complete" -> "completed"
    [] i = "propose"  -> "waiting_approval"
    [] i = "fail"     -> "aborted"
    [] OTHER          -> "failed"

\* The executor ends: its latest intent decides, unless the chat failed or the
\* goal was not reached (failed), it raised (crashed) or its agent run was
\* cancelled (terminated).
ExecutorReturns(r) ==
  /\ worker[r] = "executing"
  /\ \E oc \in {OutcomeOf(intent[r]), "failed", "crashed", "terminated"} :
       outcome' = [outcome EXCEPT ![r] = oc]
  /\ worker' = [worker EXCEPT ![r] = "ended"]
  /\ UNCHANGED <<taskVars, runVars, eventVars, seen_failures, crashed, disp, client,
                 restarts>>

\* The wait_for around the executor, whose timeout is below the lease.
TimesOut(r) ==
  /\ worker[r] \in {"executing", "proposing"}
  /\ outcome' = [outcome EXCEPT ![r] = "timed_out"]
  /\ worker' = [worker EXCEPT ![r] = "ended"]
  /\ UNCHANGED <<taskVars, runVars, eventVars, seen_failures, crashed, disp, client,
                 restarts>>

\* The locals of the worker's coroutine go out of scope.
WorkerForgets(r) ==
  /\ outcome' = [outcome EXCEPT ![r] = "none"]
  /\ seen_failures' = [seen_failures EXCEPT ![r] = 0]

\* _finalize_run and _finish, called by the worker; a conflict is swallowed.
WorkerFinish(r) ==
  LET t == run_task[r] IN
  /\ worker[r] = "ended"
  /\ FinishRun(t, r, outcome[r], TargetStatus(seen_failures[r], outcome[r]))
  /\ client' = AfterFinish(t, r)
  /\ worker' = [worker EXCEPT ![r] = "closing"]
  /\ WorkerForgets(r)
  /\ UNCHANGED <<eventVars, crashed, disp, restarts>>

\* The notifications are out: the finally block forgets the worker.
WorkerCloses(r) ==
  /\ worker[r] = "closing"
  /\ worker' = [worker EXCEPT ![r] = "gone"]
  /\ UNCHANGED <<taskVars, runVars, eventVars, outcome, seen_failures, crashed, disp,
                 client, restarts>>

\* An exception escaped run_claim.
WorkerRaises(r) ==
  /\ worker[r] \in {"executing", "ended"}
  /\ worker' = [worker EXCEPT ![r] = "gone"]
  /\ crashed' = crashed \union {r}
  /\ WorkerForgets(r)
  /\ UNCHANGED <<taskVars, runVars, eventVars, disp, client,
                 restarts>>

WorkerStep(r) ==
  \/ Complete(r) \/ Fail(r) \/ Heartbeat(r) \/ ProposeChange(r)
  \/ FinalizePropose(r) \/ ProposeFallback(r)
  \/ ExecutorReturns(r) \/ TimesOut(r) \/ WorkerFinish(r) \/ WorkerCloses(r)
  \/ WorkerRaises(r)

-----------------------------------------------------------------------------
(* User operations of TaskService *)

CreateTask(t) ==
  /\ status[t] = "absent"
  /\ status' = [status EXCEPT ![t] = "queued"]
  /\ \E s \in BOOLEAN : scheduled' = [scheduled EXCEPT ![t] = s]
  /\ UNCHANGED <<is_archived, claim, lease, failures, runVars, eventVars,
                 workerVars, disp, client, restarts>>

\* The states in which each operation goes past its first check.
Permitted(op) ==
  CASE op = "cancel"  -> {"queued", "running", "waiting_approval", "failed"}
    [] op = "retry"   -> {"failed", "expired"}
    [] op = "resolve" -> {"waiting_approval"}
    [] OTHER          -> TaskStatus \ {"running"}

\* A request reads the row and passes the check on its status.
ClientRead(c, op, t) ==
  /\ client[c].op = "idle"
  /\ status[t] \in Permitted(op)
  /\ client' = [client EXCEPT ![c] = [op |-> op, task |-> t,
                                      running |-> status[t] = "running", fresh |-> TRUE]]
  /\ UNCHANGED <<taskVars, runVars, eventVars, workerVars, disp, restarts>>

VersionCurrent_Unchecked(c) == status[client[c].task] # "deleted"

\* The compare-and-set of _update_task_sync on expected_version.
VersionCurrent(c) == client[c].fresh

\* A request that ends without a write.
ClientGivesUp(c) ==
  /\ client' = [client EXCEPT ![c] = IdleClient]
  /\ UNCHANGED taskVars

\* A request that wrote the row of t.
ClientWrote(c, t) == client' = [Bumped(t) EXCEPT ![c] = IdleClient]

\* cancel_task on a task that was not running.
CancelWrite(c) ==
  LET t == client[c].task IN
  /\ client[c].op = "cancel"
  /\ ~client[c].running
  /\ IF VersionCurrent(c)
     THEN /\ status' = [status EXCEPT ![t] = "cancelled"]
          /\ ClientWrote(c, t)
          /\ UNCHANGED <<is_archived, scheduled, claim, lease, failures>>
     ELSE ClientGivesUp(c)
  /\ UNCHANGED <<runVars, eventVars, workerVars, disp, restarts>>

\* cancel_task on a running task: terminate, then "cancelled" whatever it said.
TerminateRunning(c) ==
  LET t == client[c].task
      r == claim[t]
      live == status[t] = "running" /\ r # NoRun /\ HasActiveWorker(r)
  IN
  /\ client[c].op = "cancel"
  /\ client[c].running
  /\ IF live /\ CancelFinds(r)
     THEN /\ FinishRun(t, r, "terminated", "cancelled")
          /\ worker' = [worker EXCEPT ![r] = "gone"]
          /\ ClientWrote(c, t)
     ELSE /\ client' = [client EXCEPT ![c] = IdleClient]
          /\ UNCHANGED <<taskVars, runVars, worker>>
  /\ UNCHANGED <<eventVars, outcome, seen_failures, crashed, disp, restarts>>

\* terminate raised: cancel_task falls through to its compare-and-set, which
\* does not touch the claim.
CancelFallback(c) ==
  LET t == client[c].task IN
  /\ StoreFaults
  /\ client[c].op = "cancel"
  /\ client[c].running
  /\ IF VersionCurrent(c)
     THEN /\ status' = [status EXCEPT ![t] = "cancelled"]
          /\ ClientWrote(c, t)
          /\ UNCHANGED <<is_archived, scheduled, claim, lease, failures>>
     ELSE ClientGivesUp(c)
  /\ UNCHANGED <<runVars, eventVars, workerVars, disp, restarts>>

RetryWrite(c) ==
  LET t == client[c].task IN
  /\ client[c].op = "retry"
  /\ IF VersionCurrent(c)
     THEN /\ status' = [status EXCEPT ![t] = "queued"]
          /\ claim' = [claim EXCEPT ![t] = NoRun]
          /\ lease' = [lease EXCEPT ![t] = "none"]
          /\ ClientWrote(c, t)
          /\ UNCHANGED <<is_archived, scheduled, failures>>
     ELSE ClientGivesUp(c)
  /\ UNCHANGED <<runVars, eventVars, workerVars, disp, restarts>>

\* delete_task: the row goes, and its runs with it, whatever became of it since
\* the check.
DeleteWrite(c) ==
  LET t == client[c].task IN
  /\ client[c].op = "delete"
  /\ status' = [status EXCEPT ![t] = "deleted"]
  /\ claim' = [claim EXCEPT ![t] = NoRun]
  /\ lease' = [lease EXCEPT ![t] = "none"]
  /\ run_status' = [r \in Runs |-> IF run_task[r] = t THEN "deleted" ELSE run_status[r]]
  /\ ClientWrote(c, t)
  /\ UNCHANGED <<is_archived, scheduled, failures, run_task, next_run,
                 eventVars, workerVars, disp, restarts>>

\* set_archived
ArchiveWrite(c) ==
  LET t == client[c].task IN
  /\ client[c].op = "archive"
  /\ IF VersionCurrent(c)
     THEN /\ is_archived' = [is_archived EXCEPT ![t] = ~@]
          /\ ClientWrote(c, t)
          /\ UNCHANGED <<status, scheduled, claim, lease, failures>>
     ELSE ClientGivesUp(c)
  /\ UNCHANGED <<runVars, eventVars, workerVars, disp, restarts>>

\* update_task: fields outside the model, but a new version of the row.
UpdateWrite(c) ==
  LET t == client[c].task IN
  /\ client[c].op = "update"
  /\ IF VersionCurrent(c)
     THEN ClientWrote(c, t) /\ UNCHANGED taskVars
     ELSE ClientGivesUp(c)
  /\ UNCHANGED <<runVars, eventVars, workerVars, disp, restarts>>

\* The change_proposed events of t that no marker refers to.
Pending(t) == {r \in proposed \ resolved : run_task[r] = t}

\* approve_change, reject_change and revise_change all end in resolve_proposal,
\* which marks the latest pending proposal and queues the task again.
ResolveWrite(c) ==
  LET t == client[c].task IN
  /\ client[c].op = "resolve"
  /\ IF VersionCurrent(c) /\ ~is_archived[t] /\ Pending(t) # {}
     THEN /\ \E r \in Pending(t) :
               /\ \A q \in Pending(t) : q <= r
               /\ resolved' = resolved \union {r}
          /\ status' = [status EXCEPT ![t] = "queued"]
          /\ ClientWrote(c, t)
          /\ UNCHANGED <<is_archived, scheduled, claim, lease, failures>>
     ELSE ClientGivesUp(c) /\ UNCHANGED resolved
  /\ UNCHANGED <<runVars, intent, proposed, foreign, workerVars, disp, restarts>>

ClientStep(c) ==
  \/ \E op \in Requests, t \in Tasks : ClientRead(c, op, t)
  \/ CancelWrite(c) \/ TerminateRunning(c) \/ CancelFallback(c) \/ RetryWrite(c)
  \/ DeleteWrite(c) \/ ArchiveWrite(c) \/ UpdateWrite(c) \/ ResolveWrite(c)

-----------------------------------------------------------------------------
(* Time and the process *)

HeartbeatGoesStale(t) ==
  /\ lease[t] = "fresh"
  /\ lease' = [lease EXCEPT ![t] = "stale"]
  /\ UNCHANGED <<status, is_archived, scheduled, claim, failures, runVars,
                 eventVars, workerVars, disp, client, restarts>>

LeaseExpires(t) ==
  /\ lease[t] = "stale"
  /\ lease' = [lease EXCEPT ![t] = "expired"]
  /\ UNCHANGED <<status, is_archived, scheduled, claim, failures, runVars,
                 eventVars, workerVars, disp, client, restarts>>

ScheduleDue(t) ==
  /\ scheduled[t]
  /\ scheduled' = [scheduled EXCEPT ![t] = FALSE]
  /\ UNCHANGED <<status, is_archived, claim, lease, failures, runVars,
                 eventVars, workerVars, disp, client, restarts>>

\* The process stops, killed or through TaskRunner.stop, and starts again: the
\* database survives; workers, passes, requests and the crashed queue do not.
Restart ==
  /\ restarts < MaxRestarts
  /\ restarts' = restarts + 1
  /\ worker' = [r \in Runs |-> IF worker[r] = "none" THEN "none" ELSE "gone"]
  /\ crashed' = {}
  /\ disp' = [d \in Dispatchers |-> IdleDispatch]
  /\ client' = [c \in Clients |-> IdleClient]
  /\ outcome' = [r \in Runs |-> "none"]
  /\ seen_failures' = [r \in Runs |-> 0]
  /\ UNCHANGED <<taskVars, runVars, eventVars>>

Next ==
  \/ \E d \in Dispatchers : DispatchStep(d) \/ TickRaises(d) \/ SpawnFailureLost(d)
  \/ \E r \in Runs : WorkerStep(r)
  \/ \E c \in Clients : ClientStep(c)
  \/ \E t \in Tasks : CreateTask(t) \/ HeartbeatGoesStale(t) \/ LeaseExpires(t) \/ ScheduleDue(t)
  \/ Restart

Spec == Init /\ [][Next]_vars

\* The dispatch loop keeps ticking, every wait_for fires, an ended worker runs
\* to its finally block, and time passes.
Fairness ==
  /\ \A d \in Dispatchers : WF_vars(DispatchStep(d))
  /\ \A r \in Runs : /\ WF_vars(TimesOut(r))
                     /\ WF_vars(WorkerFinish(r))
                     /\ WF_vars(WorkerCloses(r))
  /\ \A t \in Tasks : /\ WF_vars(HeartbeatGoesStale(t))
                      /\ WF_vars(LeaseExpires(t))
                      /\ WF_vars(ScheduleDue(t))

FairSpec == Spec /\ Fairness

-----------------------------------------------------------------------------
(* Properties *)

\* The claim a task row carries always belongs to one of its own runs, and that
\* run is still running: no recovery, late finish, retry or reclaim leaves a
\* task pointing at a run that ended or at another task's run.
ClaimIsLive ==
  \A t \in Tasks :
    claim[t] # NoRun => run_task[claim[t]] = t /\ run_status[claim[t]] = "running"

\* A write that propose_change or cancel_task falls back to, when a registry call raised,
\* moved the row of the task and left it the claim of r.
LeftBehind(r) == StoreFaults /\ (r \in proposed \/ status[run_task[r]] = "cancelled")

\* A task has at most one running run, the one its row names, and the row names one
\* exactly while the task is running: two dispatch passes, recoveries and late workers
\* never leave it with two owners or none.  Only those fallbacks leave a claim behind.
SingleOwner ==
  /\ \A r \in Runs : run_status[r] = "running" => claim[run_task[r]] = r \/ LeftBehind(r)
  /\ \A t \in Tasks : status[t] = "running" => claim[t] # NoRun
  /\ \A t \in Tasks : claim[t] # NoRun => status[t] = "running" \/ LeftBehind(claim[t])

\* Without storage faults a task waiting for approval waits on a proposal of its
\* latest run that nobody resolved, so a user decision is possible and is about
\* what the last worker asked.
WaitingIsResolvable ==
  ~StoreFaults =>
    \A t \in Tasks : status[t] = "waiting_approval" =>
      \E r \in Pending(t) : \A q \in Runs : run_task[q] = t => q <= r

\* A task succeeds only if its latest run ended completed and carried a completion
\* intent, unless an older worker has since stamped that run with its own intent.
SuccessWasRequested ==
  \A t \in Tasks : status[t] = "succeeded" =>
    \E r \in Runs :
      /\ run_task[r] = t /\ \A q \in Runs : run_task[q] = t => q <= r
      /\ run_status[r] = "completed"
      /\ intent[r] = "complete" \/ r \in foreign

\* One dispatch loop never has more workers than task_max_concurrency.
ConcurrencyBound == Cardinality(ActiveWorkers) <= MaxConcurrency

\* A run row that ended is never rewritten, whoever reports on it later.
EndedRunsStay ==
  [][\A r \in Runs : run_status[r] \in TerminalRunStatus =>
                       run_status'[r] \in {run_status[r], "deleted"}]_vars

\* The automatic retry stops at the circuit breaker: a finalization that puts a
\* running task back in the queue never leaves more than max_retries failures.
BreakerHolds ==
  [][\A t \in Tasks : status[t] = "running" /\ status'[t] = "queued" =>
                        failures'[t] <= MaxRetries /\ failures'[t] = failures[t] + 1]_vars

\* No running task stays running for ever: its worker ends or times out, and if
\* the worker is gone the lease expires and a dispatch pass recovers the run.
RunningEnds == \A t \in Tasks : status[t] = "running" ~> status[t] # "running"

\* A due task in the queue does not wait for ever, whatever the other tasks do:
\* slots are given back, and every pass lists it again.
QueuedStarts ==
  \A t \in Tasks :
    status[t] = "queued" /\ ~is_archived[t] ~>
      status[t] # "queued" \/ is_archived[t] \/ next_run > MaxRuns

\* The abstract lifecycle, with the claim as owner.
Lifecycle == INSTANCE TaskLifecycle WITH
  state <- status, owner <- claim, used <- {r \in Runs : r < next_run}

\* Without storage faults the subsystem implements the abstract lifecycle.
RefinesLifecycle == Lifecycle!Spec

-----------------------------------------------------------------------------
(* What the repository's comments and messages say, and the code does not do *)


\* "a late-arriving old worker cannot overwrite a newer run": the intent a run
\* is finalized by was written by that run's own worker.
IntentIsOwn == foreign = {}

\* "cannot delete RUNNING task; terminate first".
RunningNotDeleted ==
  [][\A t \in Tasks : status[t] = "running" => status'[t] # "deleted"]_vars

\* "SUCCEEDED / CANCELLED are terminal."
TerminalStatusStays ==
  [][\A t \in Tasks : status[t] \in {"succeeded", "cancelled"} =>
                        status'[t] \in {status[t], "deleted"}]_vars

=============================================================================

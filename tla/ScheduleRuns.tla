---------------------------- MODULE ScheduleRuns ----------------------------
(***************************************************************************)
(* The schedule subsystem of N-Agent: the SQLite schedule registry, the     *)
(* ScheduleRunService that claims due tasks and executes them, the          *)
(* SchedulerRunner's loop, manual runs and the edits of ScheduleService.    *)
(*                                                                         *)
(* The server and every CLI command are processes that share the database;  *)
(* a registry call is one transaction.  Times are kept relative to the      *)
(* clock: a lease counts down to its end, next_run_at counts down to the    *)
(* run and on until the grace period is over.  Calls between two            *)
(* suspensions of a coroutine take no time on the scale of a lease.         *)
(***************************************************************************)
EXTENDS Integers, FiniteSets

CONSTANTS
  Tasks,        \* scheduled tasks that may be created
  OriginTasks,  \* those whose delivery target is the conversation they came from
  SilentTasks,  \* those whose results are not delivered
  NoTask,
  Loop,         \* the SchedulerRunner of the server
  Clients,      \* callers of ScheduleService and run_now
  CliClients,   \* those of them in a process of their own
  Requests,     \* the operations the clients call
  AgentResults, \* what the agent's run of a task comes to
  MaxDue,       \* scheduler_max_due_per_tick
  Lease,        \* scheduler_lease_seconds, in steps of the clock
  Timeout,      \* scheduler_execution_timeout_seconds
  Grace,        \* scheduler_missed_grace_seconds
  Period,       \* longest distance between two times of a cron expression
  MaxClaims,    \* bound: claims of one task
  MaxEnds,      \* bound: processes that end
  StoreFaults   \* may a registry call raise (database locked)?

ASSUME ScheduleAssumption ==
  /\ IsFiniteSet(Tasks)
  /\ NoTask \notin Tasks
  /\ Loop \notin Clients
  /\ OriginTasks \subseteq Tasks
  /\ SilentTasks \subseteq Tasks
  /\ CliClients \subseteq Clients
  /\ Requests \subseteq {"edit", "resume", "pause", "delete", "run_now", "delete_session"}
  /\ AgentResults \subseteq {"succeeded", "failed", "cancelled", "blocked"}
  /\ {MaxDue, Lease, Timeout, Period} \subseteq Nat \ {0}
  /\ {Grace, MaxClaims, MaxEnds} \subseteq Nat
  /\ StoreFaults \in BOOLEAN

VARIABLES
  row,        \* the scheduled_tasks table
  execution,  \* the scheduled_task_executions table, by task and claim
  claims,     \* claim ids drawn for each task
  job,        \* the run_claim coroutine of each claim
  actor,      \* the loop's pass and the clients' requests
  ends,       \* processes that have ended
  \* history
  uncovered   \* tasks with an execution that its lease did not cover

vars == <<row, execution, claims, job, actor, ends, uncovered>>

-----------------------------------------------------------------------------
(* Values *)

Actors == Clients \union {Loop}
Server == (Clients \ CliClients) \union {Loop}
Claims == 1..MaxClaims
NoClaim == 0
NoLease == -1
Missed == -(Grace + 1)   \* next_run_at lies further back than the grace period

ScheduledTaskStatus == {"active", "paused", "session_missing"}
ExecutionResult == {"succeeded", "failed", "cancelled", "blocked", "skipped_missed"}

\* claim_id and lease_owner are drawn and compared together.  enabled is set
\* exactly when the status is active.
Row ==
  [status : ScheduledTaskStatus \union {"absent", "deleted"},
   lease : NoLease..Lease,
   claim : Claims \union {NoClaim},
   next : Missed..Period]

Job ==
  [pc : {"none", "claimed", "executing", "finishing", "delivering", "gone"},
   proc : Actors,             \* who claimed: the loop runs its jobs one by one
   missed : BOOLEAN,          \* SchedulePolicy's decision at the claim
   left : 0..Timeout,         \* until wait_for gives up
   result : ExecutionResult]

Actor ==
  [pc : {"idle", "resting", "dead", "origins", "recover", "claim", "running",
         "write", "activate"},
   op : Requests \union {"none", "tick", "ask"},
   task : Tasks \union {NoTask},
   row : Row,                                         \* the row it read
   missing : SUBSET [task : Tasks, row : Row]]        \* list_recoverable_origin_tasks

NoRow == [status |-> "absent", lease |-> NoLease, claim |-> NoClaim, next |-> Period]
NoJob == [pc |-> "none", proc |-> Loop, missed |-> FALSE, left |-> 0, result |-> "failed"]
Idle(a) == [pc |-> "idle", op |-> IF a = Loop THEN "tick" ELSE "none", task |-> NoTask,
            row |-> NoRow, missing |-> {}]

\* a's call raised.  Nothing in SchedulerRunner.run catches an exception.
Raised(a) == IF a = Loop THEN [Idle(a) EXCEPT !.pc = "dead"] ELSE Idle(a)

\* No column or local variable leaves its type; in particular leases are never
\* longer than granted and results come from the domain's enumeration.
TypeOK ==
  /\ row \in [Tasks -> Row]
  /\ execution \in [Tasks -> [Claims -> ExecutionResult \union
                                        {"absent", "running", "recovered"}]]
  /\ claims \in [Tasks -> 0..MaxClaims]
  /\ job \in [Tasks -> [Claims -> Job]]
  /\ actor \in [Actors -> Actor]
  /\ ends \in 0..MaxEnds
  /\ uncovered \in SUBSET Tasks

Init ==
  /\ row = [t \in Tasks |-> NoRow]
  /\ execution = [t \in Tasks |-> [n \in Claims |-> "absent"]]
  /\ claims = [t \in Tasks |-> 0]
  /\ job = [t \in Tasks |-> [n \in Claims |-> NoJob]]
  /\ actor = [a \in Actors |-> Idle(a)]
  /\ ends = 0
  /\ uncovered = {}

-----------------------------------------------------------------------------
(* Registry transactions *)

Exists(t) == row[t].status \in ScheduledTaskStatus

LeaseFree_Unclaimed(t) == row[t].claim = NoClaim

LeaseFree(t) == row[t].lease \in {NoLease, 0}

\* The WHERE clause of claim_due_tasks.
Due(t) == row[t].status = "active" /\ row[t].next <= 0 /\ LeaseFree(t)

RunNowClaimable_AnyExecution(t) ==
  /\ row[t].status = "active"
  /\ \/ LeaseFree(t)
     \/ /\ row[t].claim # NoClaim
        /\ execution[t][row[t].claim] # "absent"

\* The WHERE clause of claim_task_for_run_now: a lease in force does not count
\* once the execution it was taken for has ended.
RunNowClaimable(t) ==
  /\ row[t].status = "active"
  /\ \/ LeaseFree(t)
     \/ /\ row[t].claim # NoClaim
        /\ execution[t][row[t].claim] \notin {"absent", "running"}

GrantedLease_TooLong == Lease + 1

\* _claim: lease_until = now + lease_seconds.
GrantedLease == Lease

\* CroniterScheduleCalculator.next_after: some later time.
NextAfter == 1..Period

\* The row and the job of t after a claim by actor a.
ClaimedRow(t, next) ==
  [row[t] EXCEPT !.lease = GrantedLease, !.claim = claims[t] + 1, !.next = next]
ClaimedJob(t, a) == [NoJob EXCEPT !.pc = "claimed", !.proc = a, !.missed = row[t].next = Missed]

Stale_LeaseInForce(t, n) ==
  /\ Exists(t)
  /\ row[t].lease # NoLease \/ row[t].claim \notin {NoClaim, n}

Stale_SupersededOnly(t, n) ==
  Exists(t) /\ row[t].claim \notin {NoClaim, n}

\* An execution recover_stale_executions gives up: the lease of its claim has
\* expired or another claim replaced it.  A NULL claim_id compares with none.
Stale(t, n) ==
  /\ Exists(t)
  /\ \/ row[t].claim = n /\ row[t].lease = 0
     \/ row[t].claim \notin {NoClaim, n}

\* recover_stale_executions also clears the expired leases.
RecoverStale ==
  /\ execution' = [t \in Tasks |-> [n \in Claims |->
                     IF execution[t][n] = "running" /\ Stale(t, n)
                     THEN "recovered" ELSE execution[t][n]]]
  /\ row' = [t \in Tasks |-> IF row[t].lease = 0 THEN [row[t] EXCEPT !.lease = NoLease]
                                                 ELSE row[t]]

\* registry.update writes every column of the row the caller holds, and a goes
\* on as next; when the row is gone, nothing is written and the assertion after
\* the update fails.
WriteBack(a, t, r, next) ==
  IF Exists(t)
  THEN /\ row' = [row EXCEPT ![t] = r]
       /\ actor' = [actor EXCEPT ![a] = next]
       /\ uncovered' = IF <<r.lease, r.claim>> # <<row[t].lease, row[t].claim>>
                    THEN uncovered \union {t} ELSE uncovered
  ELSE actor' = [actor EXCEPT ![a] = Raised(a)] /\ UNCHANGED <<row, uncovered>>

\* The rows whose conversation was deleted and can be given a new session.
Missing == {t \in OriginTasks : row[t].status = "session_missing"}

-----------------------------------------------------------------------------
(* The passes: the loop's tick and a client's run_now *)

\* A pass begins with recover_missing_origin_sessions reading the rows.
PassBegins(a, op, t) ==
  actor' = [actor EXCEPT ![a] =
             [Idle(a) EXCEPT !.pc = "origins", !.op = op, !.task = t,
                             !.missing = {[task |-> u, row |-> row[u]] : u \in Missing}]]

TickStart ==
  /\ actor[Loop].pc = "idle"
  /\ PassBegins(Loop, "tick", NoTask)
  /\ UNCHANGED <<row, execution, claims, job, ends, uncovered>>

\* ScheduleService.run_now restores the missing sessions itself first.
RunNowStart(c, t) ==
  /\ "run_now" \in Requests
  /\ actor[c].pc = "idle"
  /\ row[t].status # "absent"
  /\ PassBegins(c, "ask", t)
  /\ UNCHANGED <<row, execution, claims, job, ends, uncovered>>

\* It refuses a task that is not active then, and otherwise calls the run
\* service, whose pass begins the same way.
RunNowChecks(c) ==
  /\ actor[c].pc = "origins"
  /\ actor[c].op = "ask"
  /\ actor[c].missing = {}
  /\ IF row[actor[c].task].status = "active"
     THEN PassBegins(c, "run_now", actor[c].task)
     ELSE actor' = [actor EXCEPT ![c] = Idle(c)]
  /\ UNCHANGED <<row, execution, claims, job, ends, uncovered>>

\* One of those rows is written back, active, with a session of its own.
RestoreOrigin(a, m) ==
  /\ actor[a].pc = "origins"
  /\ m \in actor[a].missing
  /\ WriteBack(a, m.task, [m.row EXCEPT !.status = "active"],
               [actor[a] EXCEPT !.missing = @ \ {m}])
  /\ UNCHANGED <<execution, claims, job, ends>>

OriginsRestored(a) ==
  /\ actor[a].pc = "origins"
  /\ actor[a].op # "ask"
  /\ actor[a].missing = {}
  /\ actor' = [actor EXCEPT ![a].pc = "recover"]
  /\ UNCHANGED <<row, execution, claims, job, ends, uncovered>>

PassRecovers(a) ==
  /\ actor[a].pc = "recover"
  /\ RecoverStale
  /\ actor' = [actor EXCEPT ![a].pc = "claim"]
  /\ UNCHANGED <<claims, job, ends, uncovered>>

\* claim_due_tasks: at most MaxDue rows, the longest overdue first.
ClaimDue ==
  LET eligible == {t \in Tasks : Due(t) /\ claims[t] < MaxClaims} IN
  /\ actor[Loop].pc = "claim"
  /\ \E S \in SUBSET eligible, next \in NextAfter :
       /\ Cardinality(S) <= MaxDue
       /\ Cardinality(S) = MaxDue \/ S = eligible
       /\ \A t \in S, u \in eligible \ S : row[t].next <= row[u].next
       /\ row' = [t \in Tasks |-> IF t \in S THEN ClaimedRow(t, next) ELSE row[t]]
       /\ claims' = [t \in Tasks |-> IF t \in S THEN claims[t] + 1 ELSE claims[t]]
       /\ job' = [t \in Tasks |-> IF t \in S
                    THEN [job[t] EXCEPT ![claims[t] + 1] = ClaimedJob(t, Loop)]
                    ELSE job[t]]
  /\ actor' = [actor EXCEPT ![Loop].pc = "running"]
  /\ UNCHANGED <<execution, ends, uncovered>>

\* claim_task_for_run_now, and the task that executes the claim.
ClaimNow(c) ==
  LET t == actor[c].task IN
  /\ actor[c].pc = "claim"
  /\ actor[c].op = "run_now"
  /\ IF RunNowClaimable(t) /\ claims[t] < MaxClaims
     THEN /\ row' = [row EXCEPT ![t] = ClaimedRow(t, row[t].next)]
          /\ claims' = [claims EXCEPT ![t] = @ + 1]
          /\ job' = [job EXCEPT ![t][claims[t] + 1] = ClaimedJob(t, c)]
     ELSE UNCHANGED <<row, claims, job>>
  /\ actor' = [actor EXCEPT ![c] = Idle(c)]
  /\ UNCHANGED <<execution, ends, uncovered>>

\* A job that has begun and not ended.
Begun(t, n) == job[t][n].pc \in {"executing", "finishing", "delivering"}
Live(t, n) == job[t][n].pc = "claimed" \/ Begun(t, n)

\* run_due_claims returns after the last of its claims; the loop then waits.
LoopRests ==
  /\ actor[Loop].pc = "running"
  /\ \A t \in Tasks, n \in Claims : ~(Live(t, n) /\ job[t][n].proc = Loop)
  /\ actor' = [actor EXCEPT ![Loop].pc = "resting"]
  /\ UNCHANGED <<row, execution, claims, job, ends, uncovered>>

\* A registry call of a pass or request raises; the loop awaits the claims it
\* holds, so they end with it.
CallRaises(a) ==
  /\ StoreFaults
  /\ actor[a].pc \notin {"idle", "resting", "dead"}
  /\ actor' = [actor EXCEPT ![a] = Raised(a)]
  /\ job' = [t \in Tasks |-> [n \in Claims |->
               IF a = Loop /\ Live(t, n) /\ job[t][n].proc = Loop
               THEN [NoJob EXCEPT !.pc = "gone"] ELSE job[t][n]]]
  /\ UNCHANGED <<row, execution, claims, ends, uncovered>>

\* A call of a manual run raises; _run_claim_safe logs it and the run is over.
RunRaises(t, n) ==
  /\ StoreFaults
  /\ Live(t, n)
  /\ job[t][n].proc # Loop
  /\ job' = [job EXCEPT ![t][n] = [NoJob EXCEPT !.pc = "gone"]]
  /\ UNCHANGED <<row, execution, claims, actor, ends, uncovered>>

-----------------------------------------------------------------------------
(* One claim: _execute_claim *)

\* The registry's calls do not suspend their coroutine: between them the other
\* requests, jobs and passes of the same process do not run.  Restoring a
\* session may suspend (hooks), and so may an edit (it checks the delivery).
EventLoopFree(a) ==
  a \in Server =>
    \A b \in Server \ {a} :
      /\ actor[b].pc \notin {"recover", "claim", "activate"}
      /\ actor[b].pc = "write" => actor[b].op = "edit"

\* The loop awaits its claims one after the other.
MayStart(t, n) ==
  /\ job[t][n].pc = "claimed"
  /\ job[t][n].proc = Loop =>
       \A u \in Tasks, m \in Claims : ~(Begun(u, m) /\ job[u][m].proc = Loop)

SkipsMissed(t, n) == job[t][n].missed /\ job[t][n].proc = Loop

\* record_execution_started; a claim past the grace period is not executed.
Start(t, n) ==
  /\ MayStart(t, n)
  /\ execution' = [execution EXCEPT ![t][n] = "running"]
  /\ job' = [job EXCEPT ![t][n] =
       IF SkipsMissed(t, n) THEN [@ EXCEPT !.pc = "finishing", !.result = "skipped_missed"]
                            ELSE [@ EXCEPT !.pc = "executing", !.left = Timeout, !.missed = FALSE]]
  /\ uncovered' = IF row[t].claim = n /\ row[t].lease > Timeout THEN uncovered
                  ELSE uncovered \union {t}
  /\ UNCHANGED <<row, claims, actor, ends>>

\* _run_executor returns: the agent's result, a failure, a cancellation.
ExecutorEnds(t, n) ==
  /\ job[t][n].pc = "executing"
  /\ \E res \in AgentResults :
       job' = [job EXCEPT ![t][n] = [@ EXCEPT !.pc = "finishing", !.left = 0, !.result = res]]
  /\ UNCHANGED <<row, execution, claims, actor, ends, uncovered>>

\* wait_for gives up after the timeout.
TimesOut(t, n) ==
  /\ job[t][n].pc = "executing"
  /\ job[t][n].left = 0
  /\ job' = [job EXCEPT ![t][n] = [@ EXCEPT !.pc = "finishing", !.result = "failed"]]
  /\ UNCHANGED <<row, execution, claims, actor, ends, uncovered>>

\* record_execution_completed: only the claim the row carries may report, but
\* the status of the execution is not consulted.
RecordCompleted(t, n) ==
  IF Exists(t) /\ row[t].claim = n
  THEN /\ execution' = [execution EXCEPT ![t][n] = job[t][n].result]
       /\ row' = [row EXCEPT ![t].lease = NoLease]
  ELSE UNCHANGED <<execution, row>>

Delivers(t, n) ==
  /\ Exists(t) /\ row[t].claim = n
  /\ job[t][n].result \notin {"skipped_missed", "cancelled"}
  /\ t \notin SilentTasks

Finish(t, n) ==
  /\ job[t][n].pc = "finishing"
  /\ RecordCompleted(t, n)
  /\ job' = [job EXCEPT ![t][n] =
       IF Delivers(t, n) THEN [NoJob EXCEPT !.pc = "delivering", !.proc = job[t][n].proc]
                         ELSE [NoJob EXCEPT !.pc = "gone"]]
  /\ UNCHANGED <<claims, actor, ends, uncovered>>

\* The result is sent; delivery_status and unread_count are for display.
Deliver(t, n) ==
  /\ job[t][n].pc = "delivering"
  /\ job' = [job EXCEPT ![t][n] = [NoJob EXCEPT !.pc = "gone"]]
  /\ UNCHANGED <<row, execution, claims, actor, ends, uncovered>>

JobStep(t, n) ==
  /\ EventLoopFree(job[t][n].proc)
  /\ Start(t, n) \/ TimesOut(t, n) \/ Finish(t, n) \/ Deliver(t, n)

-----------------------------------------------------------------------------
(* ScheduleService *)

Create(t) ==
  /\ row[t].status = "absent"
  /\ \E next \in NextAfter :
       row' = [row EXCEPT ![t] = [NoRow EXCEPT !.status = "active", !.next = next]]
  /\ UNCHANGED <<execution, claims, job, actor, ends, uncovered>>

\* update and resume read the row and prepare a copy of it.
EditReads(c, op, t) ==
  /\ op \in {"edit", "resume"} \intersect Requests
  /\ actor[c].pc = "idle"
  /\ Exists(t)
  /\ actor' = [actor EXCEPT ![c] = [Idle(c) EXCEPT !.pc = "write", !.op = op, !.task = t,
                                                   !.row = row[t]]]
  /\ UNCHANGED <<row, execution, claims, job, ends, uncovered>>

\* The copy is written, with a new time for the next run.
EditWrites(c) ==
  /\ actor[c].pc = "write"
  /\ \E next \in NextAfter :
       WriteBack(c, actor[c].task, [actor[c].row EXCEPT !.next = next],
                 IF actor[c].op = "resume" THEN [actor[c] EXCEPT !.pc = "activate", !.row = NoRow]
                                           ELSE Idle(c))
  /\ UNCHANGED <<execution, claims, job, ends>>

\* resume ends with update_status.
ResumeActivates(c) ==
  LET t == actor[c].task IN
  /\ actor[c].pc = "activate"
  /\ row' = IF Exists(t) THEN [row EXCEPT ![t].status = "active"] ELSE row
  /\ actor' = [actor EXCEPT ![c] = Idle(c)]
  /\ UNCHANGED <<execution, claims, job, ends, uncovered>>

Pause(t) ==
  /\ "pause" \in Requests
  /\ Exists(t)
  /\ row' = [row EXCEPT ![t].status = "paused"]
  /\ UNCHANGED <<execution, claims, job, actor, ends, uncovered>>

\* The row goes, the history of its executions stays.
Delete(t) ==
  /\ "delete" \in Requests
  /\ Exists(t)
  /\ row' = [row EXCEPT ![t] = [NoRow EXCEPT !.status = "deleted"]]
  /\ UNCHANGED <<execution, claims, job, actor, ends, uncovered>>

\* handle_session_deleted: the session the task runs in is gone.
MarkSessionMissing(t) ==
  /\ "delete_session" \in Requests
  /\ Exists(t)
  /\ row' = [row EXCEPT ![t].status = "session_missing"]
  /\ UNCHANGED <<execution, claims, job, actor, ends, uncovered>>

-----------------------------------------------------------------------------
(* Time and processes *)

\* Steps that follow at once on the one before.
Prompt ==
  \/ \E a \in Actors : actor[a].pc \in {"origins", "recover", "claim", "write", "activate"}
  \/ \E t \in Tasks, n \in Claims : MayStart(t, n) \/ job[t][n].pc = "finishing"

Aged(r) ==
  [r EXCEPT !.lease = IF @ > 0 THEN @ - 1 ELSE @,
            !.next = IF r.status \in ScheduledTaskStatus /\ @ > Missed THEN @ - 1 ELSE @]

\* The clock advances, never past the timeout of an executor.
TimePasses ==
  /\ ~Prompt
  /\ \A t \in Tasks, n \in Claims : job[t][n].pc = "executing" => job[t][n].left > 0
  /\ row' = [t \in Tasks |-> Aged(row[t])]
  /\ job' = [t \in Tasks |-> [n \in Claims |->
               IF job[t][n].pc = "executing" THEN [job[t][n] EXCEPT !.left = @ - 1]
                                             ELSE job[t][n]]]
  /\ actor' = [actor EXCEPT ![Loop].pc = IF @ = "resting" THEN "idle" ELSE @]
  /\ UNCHANGED <<execution, claims, ends, uncovered>>

\* The actors of one process stop where they are: the server's, which starts
\* again, or a CLI command that exits.  The database stays as it is.
ProcessEnds(P) ==
  /\ ends < MaxEnds
  /\ ends' = ends + 1
  /\ actor' = [a \in Actors |-> IF a \in P THEN Idle(a) ELSE actor[a]]
  /\ job' = [t \in Tasks |-> [n \in Claims |->
               IF Live(t, n) /\ job[t][n].proc \in P THEN [NoJob EXCEPT !.pc = "gone"]
                                                     ELSE job[t][n]]]
  /\ UNCHANGED <<row, execution, claims, uncovered>>

LoopStep ==
  /\ EventLoopFree(Loop)
  /\ \/ TickStart
     \/ \E m \in actor[Loop].missing : RestoreOrigin(Loop, m)
     \/ OriginsRestored(Loop) \/ PassRecovers(Loop)
     \/ ClaimDue \/ LoopRests

\* A request under way, and the calls that begin one.
ClientContinues(c) ==
  /\ EventLoopFree(c)
  /\ \/ \E m \in actor[c].missing : RestoreOrigin(c, m)
     \/ RunNowChecks(c) \/ OriginsRestored(c) \/ PassRecovers(c) \/ ClaimNow(c)
     \/ EditWrites(c) \/ ResumeActivates(c)

ClientBegins(c) ==
  /\ EventLoopFree(c)
  /\ \/ \E t \in Tasks : RunNowStart(c, t)
     \/ \E t \in Tasks, op \in Requests : EditReads(c, op, t)

Next ==
  \/ LoopStep
  \/ \E a \in Actors : CallRaises(a)
  \/ \E t \in Tasks, n \in Claims : JobStep(t, n) \/ ExecutorEnds(t, n) \/ RunRaises(t, n)
  \/ \E c \in Clients : ClientBegins(c) \/ ClientContinues(c)
  \/ \E t \in Tasks : Create(t) \/ Pause(t) \/ Delete(t) \/ MarkSessionMissing(t)
  \/ TimePasses
  \/ ProcessEnds(Server)
  \/ \E c \in CliClients : ProcessEnds({c})

Spec == Init /\ [][Next]_vars

\* The loop keeps going, a coroutine that can continue does, every delivery
\* returns, and time passes whatever the requests do.
Fairness ==
  /\ WF_vars(LoopStep)
  /\ \A t \in Tasks, n \in Claims : WF_vars(JobStep(t, n))
  /\ \A c \in Clients : WF_vars(ClientContinues(c))
  /\ SF_vars(TimePasses)

FairSpec == Spec /\ Fairness

-----------------------------------------------------------------------------
(* Properties *)

AtMostOnce(t) ==
  \A m, n \in Claims : job[t][m].pc = "executing" /\ job[t][n].pc = "executing" => m = n

\* A scheduled task is not executed twice at the same time, by the loop and by manual
\* runs of this and other processes: no claim gets past the lease of one that is being
\* executed.  This holds while leases cover the executions: as long as none starts with
\* less of its lease left than it may take, having waited behind others of its tick
\* (run_due_claims), and no edit, resume or restored session writes an older copy of the
\* row over a claim (registry.update).
Exclusive == \A t \in Tasks \ uncovered : AtMostOnce(t)

\* As long as leases cover the executions, one that was recorded as ended, or given up
\* by the recovery, is never recorded otherwise: no late completion overwrites it.
CoveredEndStays ==
  [][\A t \in Tasks \ uncovered, n \in Claims :
       execution[t][n] \notin {"absent", "running"} => execution'[t][n] = execution[t][n]]_vars

\* A registry call that raised has ended the loop, until the server starts again.
LoopIsDead == actor[Loop].pc = "dead"

\* No execution stays running in the history while the loop lives: it ends, or the
\* recovery of a later pass finds its lease expired or its claim replaced.  Only a row
\* without a claim, deleted or overwritten by a copy from before it, matches none.
ExecutionEnds ==
  \A t \in Tasks, n \in Claims :
    execution[t][n] = "running" ~>
      execution[t][n] # "running" \/ row[t].claim = NoClaim \/ LoopIsDead

\* A due task is not forgotten while the loop lives: it is claimed again and again,
\* past the processes that died holding its lease and the copies written over its row.
DueIsClaimed ==
  \A t \in Tasks :
    row[t].status = "active" /\ row[t].next <= 0 ~>
      row[t].next > 0 \/ row[t].status # "active" \/ claims[t] = MaxClaims \/ LoopIsDead

-----------------------------------------------------------------------------
(* What a docstring says, and the code does not do *)

\* An execution the recovery gave up "can never complete normally"
\* (recover_stale_executions): once recorded as ended it is never recorded otherwise.
EndedStays ==
  [][\A t \in Tasks, n \in Claims :
       execution[t][n] \notin {"absent", "running"} => execution'[t][n] = execution[t][n]]_vars

=============================================================================

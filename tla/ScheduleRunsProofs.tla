------------------------- MODULE ScheduleRunsProofs -------------------------
(***************************************************************************)
(* Proofs about ScheduleRuns for every set of tasks and callers, any leases *)
(* and any number of claims.                                                *)
(*                                                                         *)
(* The types hold without a further assumption.  That executions are        *)
(* exclusive, and that their end is final, is proved twice.                 *)
(*                                                                         *)
(* With manual runs, here and from other processes, it rests on the leases, *)
(* for the tasks whose executions they cover: the row of a task that is     *)
(* being executed carries the claim of that execution, and its lease ends   *)
(* after the executor gives up (XInv).  Without manual runs it rests on the *)
(* loop, which claims and recovers only when its claims are over, whatever  *)
(* the leases (NInv).                                                       *)
(***************************************************************************)
EXTENDS ScheduleRuns, TLAPS

\* A claim between claim and record_execution_completed, and its second part, after
\* record_execution_started.
Busy(t, n) == job[t][n].pc \in {"claimed", "executing", "finishing"}
Started(t, n) == job[t][n].pc \in {"executing", "finishing"}

\* The row carries the claim that is being executed, under a lease that outlasts the
\* executor; only its deletion takes that away.
Covered(t) ==
  \A n \in Claims : Started(t, n) =>
    /\ execution[t][n] = "running"
    /\ Exists(t) => row[t].claim = n /\ job[t][n].left < row[t].lease

Alone(t) == \A m, n \in Claims : Started(t, m) /\ Started(t, n) => m = n

\* Claim ids are drawn in order and a claim is executed once; a row that was never there
\* has none, and one that is not there has no lease.
Fresh(t) ==
  /\ \A n \in Claims : n > claims[t] => execution[t][n] = "absent" /\ job[t][n].pc = "none"
  /\ \A n \in Claims : job[t][n].pc = "claimed" => execution[t][n] = "absent"
  /\ row[t].status = "absent" => claims[t] = 0
  /\ ~Exists(t) => row[t].lease = NoLease

TaskInv(t) == Fresh(t) /\ (t \notin uncovered => Covered(t) /\ Alone(t))

XInv == \A t \in Tasks : TaskInv(t)

-----------------------------------------------------------------------------
(* Types of the values the steps write *)

LEMMA Constants ==
  /\ Lease \in Nat /\ Lease > 0 /\ Timeout \in Nat /\ Timeout > 0 /\ Period \in Nat /\ Period > 0
  /\ Grace \in Nat /\ MaxClaims \in Nat /\ MaxEnds \in Nat
  /\ Loop \in Actors /\ Clients \subseteq Actors /\ \A c \in Clients : c # Loop
BY ScheduleAssumption DEF Actors

LEMMA RowTypes ==
  /\ NoRow \in Row /\ NoRow.lease = NoLease /\ NoRow.claim = NoClaim
  /\ NoRow.status = "absent"
  /\ NextAfter \subseteq Missed..Period
BY Constants DEF NoRow, Row, NoLease, NoClaim, Missed, NextAfter, Claims, ScheduledTaskStatus

LEMMA JobTypes ==
  /\ NoJob \in Job /\ NoJob.pc = "none" /\ NoJob.left = 0
  /\ [NoJob EXCEPT !.pc = "gone"] \in Job /\ [NoJob EXCEPT !.pc = "gone"].pc = "gone"
  /\ \A a \in Actors : /\ [NoJob EXCEPT !.pc = "delivering", !.proc = a] \in Job
                       /\ [NoJob EXCEPT !.pc = "delivering", !.proc = a].pc = "delivering"
                       /\ [NoJob EXCEPT !.pc = "delivering", !.proc = a].proc = a
<1>1. NoJob \in Job /\ NoJob.pc = "none" /\ NoJob.left = 0
  BY Constants DEF NoJob, Job, ExecutionResult
<1> QED BY <1>1 DEF Job

LEMMA ActorTypes ==
  \A a \in Actors :
    /\ Idle(a) \in Actor /\ Idle(a).pc = "idle" /\ Idle(a).missing = {}
    /\ Raised(a) \in Actor /\ Raised(a).pc \in {"idle", "dead"} /\ Raised(a).missing = {}
<1> SUFFICES ASSUME NEW a \in Actors
             PROVE  /\ Idle(a) \in Actor /\ Idle(a).pc = "idle" /\ Idle(a).missing = {}
                    /\ Raised(a) \in Actor /\ Raised(a).pc \in {"idle", "dead"}
                    /\ Raised(a).missing = {}
  OBVIOUS
<1>1. Idle(a) \in Actor /\ Idle(a).pc = "idle" /\ Idle(a).missing = {}
  BY RowTypes DEF Idle, Actor
<1>2. /\ [Idle(a) EXCEPT !.pc = "dead"] \in Actor /\ [Idle(a) EXCEPT !.pc = "dead"].pc = "dead"
      /\ [Idle(a) EXCEPT !.pc = "dead"].missing = {}
  BY <1>1 DEF Actor
<1> QED BY <1>1, <1>2 DEF Raised

LEMMA ClaimTypes ==
  ASSUME TypeOK, NEW t \in Tasks, claims[t] < MaxClaims, NEW next \in Missed..Period,
         NEW a \in Actors
  PROVE  /\ ClaimedRow(t, next) \in Row
         /\ ClaimedRow(t, next).status = row[t].status
         /\ ClaimedRow(t, next).lease = Lease
         /\ ClaimedRow(t, next).claim = claims[t] + 1
         /\ ClaimedJob(t, a) \in Job /\ ClaimedJob(t, a).pc = "claimed"
         /\ ClaimedJob(t, a).proc = a /\ ClaimedJob(t, a).left = 0
         /\ claims[t] + 1 \in Claims
<1>1. claims[t] \in Nat /\ claims[t] + 1 \in Claims
  BY Constants DEF TypeOK, Claims
<1>2. row[t] \in Row BY DEF TypeOK
<1>3. GrantedLease \in NoLease..Lease /\ GrantedLease = Lease
  BY Constants DEF GrantedLease, NoLease
<1>4. /\ ClaimedRow(t, next) \in Row
      /\ ClaimedRow(t, next).status = row[t].status /\ ClaimedRow(t, next).lease = Lease
      /\ ClaimedRow(t, next).claim = claims[t] + 1
  BY <1>1, <1>2, <1>3 DEF ClaimedRow, Row
<1>5. /\ ClaimedJob(t, a) \in Job /\ ClaimedJob(t, a).pc = "claimed"
      /\ ClaimedJob(t, a).proc = a /\ ClaimedJob(t, a).left = 0
  <2>1. (row[t].next = Missed) \in BOOLEAN OBVIOUS
  <2> QED BY <2>1, JobTypes DEF ClaimedJob, Job
<1> QED BY <1>1, <1>4, <1>5

LEMMA AgedTypes ==
  ASSUME NEW r \in Row
  PROVE  /\ Aged(r) \in Row /\ Aged(r).status = r.status /\ Aged(r).claim = r.claim
         /\ Aged(r).lease = IF r.lease > 0 THEN r.lease - 1 ELSE r.lease
<1> DEFINE lease == IF r.lease > 0 THEN r.lease - 1 ELSE r.lease
           next == IF r.status \in ScheduledTaskStatus /\ r.next > Missed THEN r.next - 1 ELSE r.next
<1>1. lease \in NoLease..Lease BY Constants DEF Row, NoLease
<1>2. next \in Missed..Period BY Constants DEF Row, Missed
<1>3. Aged(r) = [r EXCEPT !.lease = lease, !.next = next]
  BY DEF Aged, Row
<1> HIDE DEF lease, next
<1>4. /\ Aged(r) \in Row /\ Aged(r).status = r.status /\ Aged(r).claim = r.claim
      /\ Aged(r).lease = lease
  BY <1>1, <1>2, <1>3 DEF Row
<1> QED BY <1>4 DEF lease

\* A client's request names a task, and the row it will write back was there.
NamedBy(x) == /\ x.pc # "idle" => x.task \in Tasks
              /\ x.op = "ask" => "run_now" \in Requests
              /\ x.pc = "write" => x.row.status \in ScheduledTaskStatus
Named == \A c \in Clients : NamedBy(actor[c])

LEMMA PassTypes ==
  ASSUME TypeOK, NEW a \in Actors, NEW op \in Requests \union {"none", "tick", "ask"},
         NEW t \in Tasks \union {NoTask}, PassBegins(a, op, t)
  PROVE  /\ actor' \in [Actors -> Actor] /\ actor'[a].pc = "origins" /\ actor'[a].task = t
         /\ actor'[a].op = op
         /\ actor'[a].missing = {[task |-> u, row |-> row[u]] : u \in Missing}
         /\ \A b \in Actors \ {a} : actor'[b] = actor[b]
<1> DEFINE missing == {[task |-> u, row |-> row[u]] : u \in Missing}
           next == [Idle(a) EXCEPT !.pc = "origins", !.op = op, !.task = t, !.missing = missing]
<1>1. missing \in SUBSET [task : Tasks, row : Row]
  BY ScheduleAssumption DEF TypeOK, Missing
<1> HIDE DEF missing
<1>2. /\ next \in Actor /\ next.pc = "origins" /\ next.missing = missing /\ next.task = t
      /\ next.op = op
  BY <1>1, ActorTypes DEF Actor
<1>3. actor' = [actor EXCEPT ![a] = next] BY DEF PassBegins, missing
<1> HIDE DEF next
<1> QED BY <1>2, <1>3 DEF TypeOK, missing

LEMMA DoneNamed == \A a \in Clients : NamedBy(Idle(a)) /\ NamedBy(Raised(a))
<1> SUFFICES ASSUME NEW a \in Clients PROVE NamedBy(Idle(a)) /\ NamedBy(Raised(a)) OBVIOUS
<1>1. a # Loop BY Constants
<1>2. Idle(a).pc = "idle" /\ Idle(a).op = "none" BY <1>1 DEF Idle
<1>3. Raised(a) = Idle(a) BY <1>1 DEF Raised
<1> QED BY <1>2, <1>3 DEF NamedBy

\* Writing back a row.
LEMMA WriteBackTypes ==
  ASSUME TypeOK, Named, NEW a \in Actors, NEW t \in Tasks, NEW r \in Row, NEW next \in Actor,
         a \in Clients => NamedBy(next),
         WriteBack(a, t, r, next), UNCHANGED <<execution, claims, job, ends>>
  PROVE  TypeOK' /\ Named'
<1>1. TypeOK' BY ActorTypes DEF WriteBack, TypeOK
<1>2. a \in Clients => NamedBy(Raised(a)) BY DoneNamed
<1>3. actor'[a] = next \/ actor'[a] = Raised(a) BY DEF WriteBack, TypeOK
<1>4. \A b \in Actors \ {a} : actor'[b] = actor[b] BY DEF WriteBack, TypeOK
<1>5. Named' BY <1>2, <1>3, <1>4, Constants DEF Named
<1> QED BY <1>1, <1>5

LEMMA PcTypes ==
  ASSUME TypeOK, NEW a \in Actors,
         NEW pc \in {"idle", "resting", "dead", "origins", "recover", "claim", "running",
                     "write", "activate"},
         actor' = [actor EXCEPT ![a].pc = pc]
  PROVE  /\ actor' \in [Actors -> Actor] /\ actor'[a].pc = pc
         /\ actor'[a].missing = actor[a].missing /\ actor'[a].task = actor[a].task
         /\ actor'[a].op = actor[a].op
         /\ \A b \in Actors \ {a} : actor'[b] = actor[b]
<1> DEFINE next == [actor[a] EXCEPT !.pc = pc]
<1>0. actor[a] \in Actor BY DEF TypeOK
<1>1. /\ next \in Actor /\ next.pc = pc /\ next.missing = actor[a].missing
      /\ next.task = actor[a].task /\ next.op = actor[a].op
  BY <1>0 DEF Actor
<1>2. actor' = [actor EXCEPT ![a] = next] BY DEF TypeOK
<1> HIDE DEF next
<1> QED BY <1>1, <1>2 DEF TypeOK

\* One job changes, and one row of scheduled_task_executions.
Moves(t, n, j) == job' = [job EXCEPT ![t][n] = j]
Records(t, n, e) == execution' = [execution EXCEPT ![t][n] = e]

LEMMA JobStepTypes ==
  ASSUME TypeOK, NEW t \in Tasks, NEW n \in Claims, NEW j \in Job,
         Moves(t, n, j)
  PROVE  /\ job' \in [Tasks -> [Claims -> Job]] /\ job'[t][n] = j
         /\ \A m \in Claims \ {n} : job'[t][m] = job[t][m]
         /\ \A u \in Tasks \ {t} : job'[u] = job[u]
<1>0. job \in [Tasks -> [Claims -> Job]] /\ job[t] \in [Claims -> Job] BY DEF TypeOK
<1> DEFINE jt == [job[t] EXCEPT ![n] = j]
<1>1. jt \in [Claims -> Job] /\ jt[n] = j /\ \A m \in Claims \ {n} : jt[m] = job[t][m]
  BY <1>0
<1>2. job' = [job EXCEPT ![t] = jt] BY <1>0 DEF Moves
<1> HIDE DEF jt
<1> QED BY <1>0, <1>1, <1>2

LEMMA ExecutionTypes ==
  ASSUME TypeOK, NEW t \in Tasks, NEW n \in Claims,
         NEW e \in ExecutionResult \union {"absent", "running", "recovered"},
         Records(t, n, e)
  PROVE  /\ execution' \in [Tasks -> [Claims -> ExecutionResult \union
                                                {"absent", "running", "recovered"}]]
         /\ execution'[t][n] = e
         /\ \A m \in Claims \ {n} : execution'[t][m] = execution[t][m]
         /\ \A u \in Tasks \ {t} : execution'[u] = execution[u]
<1> DEFINE E == ExecutionResult \union {"absent", "running", "recovered"}
           et == [execution[t] EXCEPT ![n] = e]
<1> HIDE DEF E
<1>0. execution \in [Tasks -> [Claims -> E]] /\ execution[t] \in [Claims -> E] /\ e \in E
  BY DEF TypeOK, E
<1>1. et \in [Claims -> E] /\ et[n] = e /\ \A m \in Claims \ {n} : et[m] = execution[t][m]
  BY <1>0
<1>2. execution' = [execution EXCEPT ![t] = et] BY <1>0 DEF Records
<1> HIDE DEF et
<1> QED BY <1>0, <1>1, <1>2 DEF E

\* The jobs of a step, as values.
LEMMA StartedJob ==
  ASSUME TypeOK, NEW t \in Tasks, NEW n \in Claims, Start(t, n)
  PROVE  \E j \in Job :
           /\ Moves(t, n, j) /\ j.proc = job[t][n].proc
           /\ \/ j.pc = "finishing" /\ j.left = job[t][n].left
              \/ j.pc = "executing" /\ j.left = Timeout
<1>0. job[t][n] \in Job BY DEF TypeOK
<1>1. CASE SkipsMissed(t, n)
  <2> DEFINE j == [job[t][n] EXCEPT !.pc = "finishing", !.result = "skipped_missed"]
  <2>1. j \in Job /\ j.proc = job[t][n].proc /\ j.pc = "finishing" /\ j.left = job[t][n].left
    BY <1>0 DEF Job, ExecutionResult
  <2>2. Moves(t, n, j) BY <1>1 DEF Start, Moves
  <2> QED BY <2>1, <2>2
<1>2. CASE ~SkipsMissed(t, n)
  <2> DEFINE j == [job[t][n] EXCEPT !.pc = "executing", !.left = Timeout, !.missed = FALSE]
  <2>0. Timeout \in 0..Timeout BY Constants
  <2>1. j \in Job /\ j.proc = job[t][n].proc /\ j.pc = "executing" /\ j.left = Timeout
    BY <1>0, <2>0 DEF Job
  <2>2. Moves(t, n, j) BY <1>2 DEF Start, Moves
  <2> QED BY <2>1, <2>2
<1> QED BY <1>1, <1>2

LEMMA EndedJob ==
  ASSUME TypeOK, NEW t \in Tasks, NEW n \in Claims, ExecutorEnds(t, n) \/ TimesOut(t, n)
  PROVE  \E j \in Job :
           /\ Moves(t, n, j) /\ j.proc = job[t][n].proc
           /\ j.pc = "finishing" /\ j.left = 0
<1>0. job[t][n] \in Job BY DEF TypeOK
<1>1. CASE ExecutorEnds(t, n)
  <2>1. PICK res \in AgentResults :
          job' = [job EXCEPT ![t][n] = [@ EXCEPT !.pc = "finishing", !.left = 0, !.result = res]]
    BY <1>1 DEF ExecutorEnds
  <2> DEFINE j == [job[t][n] EXCEPT !.pc = "finishing", !.left = 0, !.result = res]
  <2>2. res \in ExecutionResult /\ 0 \in 0..Timeout
    BY ScheduleAssumption, Constants DEF ExecutionResult
  <2>3. j \in Job /\ j.proc = job[t][n].proc /\ j.pc = "finishing" /\ j.left = 0
    BY <1>0, <2>2 DEF Job
  <2>4. Moves(t, n, j) BY <2>1 DEF Moves
  <2> QED BY <2>3, <2>4
<1>2. CASE TimesOut(t, n)
  <2> DEFINE j == [job[t][n] EXCEPT !.pc = "finishing", !.result = "failed"]
  <2>1. j \in Job /\ j.proc = job[t][n].proc /\ j.pc = "finishing" /\ j.left = 0
    BY <1>0, <1>2 DEF Job, ExecutionResult, TimesOut
  <2>2. Moves(t, n, j) BY <1>2 DEF TimesOut, Moves
  <2> QED BY <2>1, <2>2
<1> QED BY <1>1, <1>2

LEMMA OverJob ==
  ASSUME TypeOK, NEW t \in Tasks, NEW n \in Claims,
         Finish(t, n) \/ Deliver(t, n) \/ RunRaises(t, n)
  PROVE  \E j \in Job :
           /\ Moves(t, n, j)
           /\ j.pc = "gone" \/ (j.pc = "delivering" /\ j.proc = job[t][n].proc)
<1>0. job[t][n] \in Job /\ job[t][n].proc \in Actors BY DEF TypeOK, Job
<1> QED BY <1>0, JobTypes DEF Finish, Deliver, RunRaises, Moves

-----------------------------------------------------------------------------
(* Type correctness *)

\* What claim_due_tasks does to one task.
LEMMA DueClaimed ==
  ASSUME TypeOK, ClaimDue
  PROVE  \E S \in SUBSET {t \in Tasks : Due(t) /\ claims[t] < MaxClaims} :
           /\ Cardinality(S) <= MaxDue
           /\ row' \in [Tasks -> Row] /\ claims' \in [Tasks -> 0..MaxClaims]
           /\ job' \in [Tasks -> [Claims -> Job]]
           /\ \A t \in Tasks \ S : /\ row'[t] = row[t] /\ claims'[t] = claims[t]
                                   /\ job'[t] = job[t]
           /\ \A t \in S : /\ claims'[t] = claims[t] + 1
                           /\ row'[t].status = row[t].status /\ row'[t].lease = Lease
                           /\ row'[t].claim = claims[t] + 1
                           /\ job'[t] = [job[t] EXCEPT ![claims[t] + 1] = ClaimedJob(t, Loop)]
<1> DEFINE eligible == {t \in Tasks : Due(t) /\ claims[t] < MaxClaims}
<1>1. PICK S \in SUBSET eligible, next \in NextAfter :
        /\ Cardinality(S) <= MaxDue
        /\ row' = [t \in Tasks |-> IF t \in S THEN ClaimedRow(t, next) ELSE row[t]]
        /\ claims' = [t \in Tasks |-> IF t \in S THEN claims[t] + 1 ELSE claims[t]]
        /\ job' = [t \in Tasks |-> IF t \in S
                     THEN [job[t] EXCEPT ![claims[t] + 1] = ClaimedJob(t, Loop)]
                     ELSE job[t]]
  BY DEF ClaimDue
<1>2. next \in Missed..Period /\ Loop \in Actors BY RowTypes, Constants
<1>3. \A t \in S : t \in Tasks /\ claims[t] < MaxClaims OBVIOUS
<1> HIDE DEF eligible
<1>4. \A t \in S : /\ ClaimedRow(t, next) \in Row
                   /\ ClaimedRow(t, next).status = row[t].status
                   /\ ClaimedRow(t, next).lease = Lease
                   /\ ClaimedRow(t, next).claim = claims[t] + 1
                   /\ ClaimedJob(t, Loop) \in Job /\ claims[t] + 1 \in Claims
  BY <1>2, <1>3, ClaimTypes
<1>5. claims' \in [Tasks -> 0..MaxClaims]
  BY <1>1, <1>4, Constants DEF TypeOK, Claims
<1>6. row' \in [Tasks -> Row] BY <1>1, <1>4 DEF TypeOK
<1>7. job' \in [Tasks -> [Claims -> Job]]
  <2>1. \A t \in S : [job[t] EXCEPT ![claims[t] + 1] = ClaimedJob(t, Loop)] \in [Claims -> Job]
    BY <1>3, <1>4 DEF TypeOK
  <2> QED BY <1>1, <2>1 DEF TypeOK
<1>8. \A t \in Tasks \ S : row'[t] = row[t] /\ claims'[t] = claims[t] /\ job'[t] = job[t]
  BY <1>1
<1>9. \A t \in S : /\ claims'[t] = claims[t] + 1 /\ row'[t] = ClaimedRow(t, next)
                   /\ job'[t] = [job[t] EXCEPT ![claims[t] + 1] = ClaimedJob(t, Loop)]
  BY <1>1, <1>3
<1> QED BY <1>1, <1>4, <1>5, <1>6, <1>7, <1>8, <1>9 DEF eligible

\* What claim_task_for_run_now does when it claims.
LEMMA NowClaimed ==
  ASSUME TypeOK, NEW c \in Clients, NEW t \in Tasks, claims[t] < MaxClaims,
         row' = [row EXCEPT ![t] = ClaimedRow(t, row[t].next)],
         claims' = [claims EXCEPT ![t] = @ + 1],
         job' = [job EXCEPT ![t][claims[t] + 1] = ClaimedJob(t, c)]
  PROVE  /\ row' \in [Tasks -> Row] /\ claims' \in [Tasks -> 0..MaxClaims]
         /\ job' \in [Tasks -> [Claims -> Job]]
         /\ \A u \in Tasks \ {t} : row'[u] = row[u] /\ claims'[u] = claims[u] /\ job'[u] = job[u]
         /\ claims'[t] = claims[t] + 1
         /\ row'[t].status = row[t].status /\ row'[t].lease = Lease
         /\ row'[t].claim = claims[t] + 1
         /\ job'[t] = [job[t] EXCEPT ![claims[t] + 1] = ClaimedJob(t, c)]
<1>1. row[t].next \in Missed..Period /\ c \in Actors BY Constants DEF TypeOK, Row
<1>2. /\ ClaimedRow(t, row[t].next) \in Row
      /\ ClaimedRow(t, row[t].next).status = row[t].status
      /\ ClaimedRow(t, row[t].next).lease = Lease
      /\ ClaimedRow(t, row[t].next).claim = claims[t] + 1
      /\ ClaimedJob(t, c) \in Job /\ claims[t] + 1 \in Claims
  BY <1>1, ClaimTypes
<1>3. /\ row' \in [Tasks -> Row] /\ row'[t] = ClaimedRow(t, row[t].next)
      /\ \A u \in Tasks \ {t} : row'[u] = row[u]
  BY <1>2 DEF TypeOK
<1>4. /\ claims' \in [Tasks -> 0..MaxClaims] /\ claims'[t] = claims[t] + 1
      /\ \A u \in Tasks \ {t} : claims'[u] = claims[u]
  BY <1>2, Constants DEF TypeOK, Claims
<1>5. /\ job' \in [Tasks -> [Claims -> Job]]
      /\ \A u \in Tasks \ {t} : job'[u] = job[u]
  BY <1>2, JobStepTypes DEF Moves
<1>6. job'[t] = [job[t] EXCEPT ![claims[t] + 1] = ClaimedJob(t, c)]
  BY <1>2 DEF TypeOK
<1> QED BY <1>2, <1>3, <1>4, <1>5, <1>6

LEMMA OthersNamed ==
  ASSUME Named, NEW a \in Actors, \A b \in Actors \ {a} : actor'[b] = actor[b],
         a \in Clients => NamedBy(actor'[a])
  PROVE  Named'
BY Constants DEF Named

\* An actor is done with what it was doing.
LEMMA DoneTypes ==
  ASSUME TypeOK, Named, NEW a \in Actors, NEW next, next = Idle(a) \/ next = Raised(a),
         actor' = [actor EXCEPT ![a] = next]
  PROVE  /\ actor' \in [Actors -> Actor] /\ Named' /\ actor'[a] = next
         /\ \A b \in Actors \ {a} : actor'[b] = actor[b]
<1>1. next \in Actor /\ (a \in Clients => NamedBy(next))
  BY ActorTypes, DoneNamed
<1>2. /\ actor' \in [Actors -> Actor] /\ actor'[a] = next
      /\ \A b \in Actors \ {a} : actor'[b] = actor[b]
  BY <1>1 DEF TypeOK
<1>3. Named' BY <1>1, <1>2, OthersNamed
<1> QED BY <1>2, <1>3

LEMMA PassStepTypes ==
  ASSUME TypeOK, Named, NEW a \in Actors,
         \/ TickStart /\ a = Loop
         \/ a \in Clients /\ \E t \in Tasks : RunNowStart(a, t)
         \/ a \in Clients /\ RunNowChecks(a)
         \/ OriginsRestored(a)
         \/ LoopRests /\ a = Loop
  PROVE  TypeOK' /\ Named'
<1>1. CASE TickStart /\ a = Loop
  <2>1. PassBegins(Loop, "tick", NoTask) /\ UNCHANGED <<row, execution, claims, job, ends, uncovered>>
    BY <1>1 DEF TickStart
  <2>2. /\ actor' \in [Actors -> Actor]
        /\ \A b \in Actors \ {Loop} : actor'[b] = actor[b]
    BY <2>1, Constants, PassTypes
  <2>3. Named' BY <2>2, Constants DEF Named
  <2> QED BY <2>1, <2>2, <2>3 DEF TypeOK
<1>2. ASSUME a \in Clients, NEW t \in Tasks, RunNowStart(a, t) PROVE TypeOK' /\ Named'
  <2>1. PassBegins(a, "ask", t) /\ UNCHANGED <<row, execution, claims, job, ends, uncovered>>
    BY <1>2 DEF RunNowStart
  <2>2. /\ actor' \in [Actors -> Actor] /\ actor'[a].task \in Tasks
        /\ actor'[a].pc = "origins"
        /\ \A b \in Actors \ {a} : actor'[b] = actor[b]
    BY <2>1, PassTypes
  <2>3. Named' BY <1>2, <2>2, OthersNamed DEF RunNowStart, NamedBy
  <2> QED BY <2>1, <2>2, <2>3 DEF TypeOK
<1>3. ASSUME a \in Clients, RunNowChecks(a) PROVE TypeOK' /\ Named'
  <2>0. UNCHANGED <<row, execution, claims, job, ends, uncovered>> /\ actor[a].task \in Tasks
                /\ "run_now" \in Requests
    BY <1>3 DEF RunNowChecks, Named, NamedBy
  <2>1. CASE PassBegins(a, "run_now", actor[a].task)
    <3>1. /\ actor' \in [Actors -> Actor] /\ actor'[a].task \in Tasks
          /\ actor'[a].pc = "origins"
          /\ \A b \in Actors \ {a} : actor'[b] = actor[b]
      BY <2>0, <2>1, PassTypes
    <3>2. Named' BY <2>0, <3>1, OthersNamed DEF NamedBy
    <3> QED BY <2>0, <3>1, <3>2 DEF TypeOK
  <2>2. CASE actor' = [actor EXCEPT ![a] = Idle(a)]
    BY <2>0, <2>2, DoneTypes DEF TypeOK
  <2> QED BY <1>3, <2>1, <2>2 DEF RunNowChecks
<1>4. CASE OriginsRestored(a)
  <2>1. actor' = [actor EXCEPT ![a].pc = "recover"] /\ UNCHANGED <<row, execution, claims, job, ends, uncovered>>
        /\ actor[a].pc # "idle"
    BY <1>4 DEF OriginsRestored
  <2>2. /\ actor' \in [Actors -> Actor] /\ actor'[a].task = actor[a].task
        /\ actor'[a].op = actor[a].op /\ actor'[a].pc = "recover"
        /\ \A b \in Actors \ {a} : actor'[b] = actor[b]
    BY <2>1, PcTypes
  <2>3. Named' BY <2>1, <2>2, OthersNamed DEF Named, NamedBy
  <2> QED BY <2>1, <2>2, <2>3 DEF TypeOK
<1>5. CASE LoopRests /\ a = Loop
  <2>1. actor' = [actor EXCEPT ![Loop].pc = "resting"] /\ UNCHANGED <<row, execution, claims, job, ends, uncovered>>
    BY <1>5 DEF LoopRests
  <2>2. /\ actor' \in [Actors -> Actor]
        /\ \A b \in Actors \ {Loop} : actor'[b] = actor[b]
    BY <2>1, PcTypes, Constants
  <2>3. Named' BY <2>2, Constants DEF Named
  <2> QED BY <2>1, <2>2, <2>3 DEF TypeOK
<1> QED BY <1>1, <1>2, <1>3, <1>4, <1>5

LEMMA EditStepTypes ==
  ASSUME TypeOK, Named, NEW a \in Actors,
         \/ \E m \in actor[a].missing : RestoreOrigin(a, m)
         \/ a \in Clients /\ \E t \in Tasks, op \in Requests : EditReads(a, op, t)
         \/ a \in Clients /\ EditWrites(a)
         \/ a \in Clients /\ ResumeActivates(a)
  PROVE  TypeOK' /\ Named'
<1>0. actor[a] \in Actor BY DEF TypeOK
<1>1. ASSUME NEW m \in actor[a].missing, RestoreOrigin(a, m) PROVE TypeOK' /\ Named'
  <2> DEFINE r == [m.row EXCEPT !.status = "active"]
             next == [actor[a] EXCEPT !.missing = actor[a].missing \ {m}]
  <2>1. /\ WriteBack(a, m.task, r, next) /\ UNCHANGED <<execution, claims, job, ends>>
        /\ actor[a].pc = "origins"
    BY <1>1 DEF RestoreOrigin
  <2>2. m.task \in Tasks /\ m.row \in Row BY <1>0 DEF Actor
  <2>3. r \in Row BY <2>2 DEF Row, ScheduledTaskStatus
  <2>4. next \in Actor /\ next.task = actor[a].task /\ next.pc = actor[a].pc
        /\ next.op = actor[a].op
    BY <1>0 DEF Actor
  <2> HIDE DEF r, next
  <2>5. a \in Clients => NamedBy(next) BY <2>1, <2>4 DEF Named, NamedBy
  <2> QED BY <2>1, <2>2, <2>3, <2>4, <2>5, WriteBackTypes
<1>2. ASSUME a \in Clients, NEW t \in Tasks, NEW op \in Requests, EditReads(a, op, t)
      PROVE  TypeOK' /\ Named'
  <2> DEFINE next == [Idle(a) EXCEPT !.pc = "write", !.op = op, !.task = t, !.row = row[t]]
  <2>1. actor' = [actor EXCEPT ![a] = next] /\ UNCHANGED <<row, execution, claims, job, ends, uncovered>>
    BY <1>2 DEF EditReads
  <2>2. next \in Actor /\ next.task = t /\ next.op = op /\ next.row = row[t]
    BY ActorTypes DEF Actor, TypeOK
  <2>3. op # "ask" /\ row[t].status \in ScheduledTaskStatus
    BY <1>2, ScheduleAssumption DEF EditReads, Exists
  <2> HIDE DEF next
  <2>4. /\ actor' \in [Actors -> Actor] /\ actor'[a] = next
        /\ \A b \in Actors \ {a} : actor'[b] = actor[b]
    BY <2>1, <2>2 DEF TypeOK
  <2>5. Named' BY <2>2, <2>3, <2>4, OthersNamed DEF NamedBy
  <2> QED BY <2>1, <2>4, <2>5 DEF TypeOK
<1>3. ASSUME a \in Clients, EditWrites(a) PROVE TypeOK' /\ Named'
  <2> DEFINE goes == [actor[a] EXCEPT !.pc = "activate", !.row = NoRow]
             next == IF actor[a].op = "resume" THEN goes ELSE Idle(a)
  <2>1. PICK time \in NextAfter :
          WriteBack(a, actor[a].task, [actor[a].row EXCEPT !.next = time], next)
    BY <1>3 DEF EditWrites
  <2> DEFINE r == [actor[a].row EXCEPT !.next = time]
  <2>2. UNCHANGED <<execution, claims, job, ends>> /\ actor[a].task \in Tasks
    BY <1>3 DEF EditWrites, Named, NamedBy
  <2>3. r \in Row
    <3>1. actor[a].row \in Row /\ time \in Missed..Period BY <1>0, RowTypes DEF Actor
    <3> QED BY <3>1 DEF Row
  <2>4. goes \in Actor /\ goes.task = actor[a].task /\ goes.op = actor[a].op
        /\ goes.pc = "activate"
    BY <1>0, RowTypes DEF Actor
  <2>5. WriteBack(a, actor[a].task, r, next) BY <2>1
  <2> HIDE DEF goes, r
  <2>6. next \in Actor BY <2>4, ActorTypes
  <2>7. NamedBy(next)
    <3>1. NamedBy(goes) BY <1>3, <2>2, <2>4 DEF Named, NamedBy
    <3> QED BY <1>3, <3>1, DoneNamed
  <2> HIDE DEF next
  <2> QED BY <2>2, <2>3, <2>5, <2>6, <2>7, WriteBackTypes
<1>4. ASSUME a \in Clients, ResumeActivates(a) PROVE TypeOK' /\ Named'
  <2> DEFINE t == actor[a].task
  <2>1. /\ row' = (IF Exists(t) THEN [row EXCEPT ![t].status = "active"] ELSE row)
        /\ actor' = [actor EXCEPT ![a] = Idle(a)]
        /\ UNCHANGED <<execution, claims, job, ends, uncovered>> /\ t \in Tasks
    BY <1>4 DEF ResumeActivates, Named, NamedBy
  <2>2. row' \in [Tasks -> Row]
    <3>1. \A r \in Row : [r EXCEPT !.status = "active"] \in Row BY DEF Row, ScheduledTaskStatus
    <3>2. row[t] \in Row /\ [row[t] EXCEPT !.status = "active"] \in Row
      BY <2>1, <3>1 DEF TypeOK
    <3> QED BY <2>1, <3>2 DEF TypeOK
  <2> QED BY <2>1, <2>2, DoneTypes DEF TypeOK
<1> QED BY <1>1, <1>2, <1>3, <1>4

LEMMA RecoverTypes ==
  ASSUME TypeOK, RecoverStale
  PROVE  /\ row' \in [Tasks -> Row]
         /\ execution' \in [Tasks -> [Claims -> ExecutionResult \union
                                                {"absent", "running", "recovered"}]]
         /\ \A t \in Tasks : /\ row'[t].status = row[t].status /\ row'[t].claim = row[t].claim
                             /\ row'[t].lease = IF row[t].lease = 0 THEN NoLease ELSE row[t].lease
         /\ \A t \in Tasks : \A n \in Claims :
              execution'[t][n] = IF execution[t][n] = "running" /\ Stale(t, n)
                                 THEN "recovered" ELSE execution[t][n]
<1>1. /\ execution' = [t \in Tasks |-> [n \in Claims |->
                        IF execution[t][n] = "running" /\ Stale(t, n)
                        THEN "recovered" ELSE execution[t][n]]]
      /\ row' = [t \in Tasks |-> IF row[t].lease = 0 THEN [row[t] EXCEPT !.lease = NoLease]
                                                     ELSE row[t]]
  BY DEF RecoverStale
<1>2. NoLease \in NoLease..Lease BY Constants DEF NoLease
<1>3. \A t \in Tasks : row[t] \in Row BY DEF TypeOK
<1>4. \A r \in Row : /\ [r EXCEPT !.lease = NoLease] \in Row
                     /\ [r EXCEPT !.lease = NoLease].status = r.status
                     /\ [r EXCEPT !.lease = NoLease].claim = r.claim
                     /\ [r EXCEPT !.lease = NoLease].lease = NoLease
  BY <1>2 DEF Row
<1>5. /\ row' \in [Tasks -> Row]
      /\ \A t \in Tasks : /\ row'[t].status = row[t].status /\ row'[t].claim = row[t].claim
                          /\ row'[t].lease = IF row[t].lease = 0 THEN NoLease ELSE row[t].lease
  BY <1>1, <1>3, <1>4
<1>6. execution' \in [Tasks -> [Claims -> ExecutionResult \union
                                          {"absent", "running", "recovered"}]]
  BY <1>1 DEF TypeOK
<1> QED BY <1>1, <1>5, <1>6

LEMMA PassRecoversTypes ==
  ASSUME TypeOK, Named, NEW a \in Actors, PassRecovers(a) PROVE TypeOK' /\ Named'
<1>1. /\ RecoverStale /\ actor' = [actor EXCEPT ![a].pc = "claim"] /\ UNCHANGED <<claims, job, ends, uncovered>>
      /\ actor[a].pc # "idle"
  BY DEF PassRecovers
<1>2. /\ actor' \in [Actors -> Actor] /\ actor'[a].task = actor[a].task
      /\ actor'[a].op = actor[a].op /\ actor'[a].pc = "claim"
      /\ \A b \in Actors \ {a} : actor'[b] = actor[b]
  BY <1>1, PcTypes
<1>3. Named' BY <1>1, <1>2, OthersNamed DEF Named, NamedBy
<1> QED BY <1>1, <1>2, <1>3, RecoverTypes DEF TypeOK

LEMMA ClaimTypesKept ==
  ASSUME TypeOK, Named, ClaimDue \/ \E c \in Clients : ClaimNow(c) PROVE TypeOK' /\ Named'
<1>1. CASE ClaimDue
  <2>1. actor' = [actor EXCEPT ![Loop].pc = "running"] /\ UNCHANGED <<execution, ends, uncovered>>
    BY <1>1 DEF ClaimDue
  <2>2. actor' \in [Actors -> Actor] /\ \A b \in Actors \ {Loop} : actor'[b] = actor[b]
    BY <2>1, PcTypes, Constants
  <2>3. Named' BY <2>2, Constants DEF Named
  <2>4. /\ row' \in [Tasks -> Row] /\ claims' \in [Tasks -> 0..MaxClaims]
        /\ job' \in [Tasks -> [Claims -> Job]]
    BY <1>1, DueClaimed
  <2> QED BY <2>1, <2>2, <2>3, <2>4 DEF TypeOK
<1>2. ASSUME NEW c \in Clients, ClaimNow(c) PROVE TypeOK' /\ Named'
  <2> DEFINE t == actor[c].task
  <2>0. c \in Actors /\ t \in Tasks BY <1>2, Constants DEF ClaimNow, Named, NamedBy
  <2>1. actor' = [actor EXCEPT ![c] = Idle(c)] /\ UNCHANGED <<execution, ends, uncovered>>
    BY <1>2 DEF ClaimNow
  <2>2. actor' \in [Actors -> Actor] /\ Named' BY <2>0, <2>1, DoneTypes
  <2>3. CASE RunNowClaimable(t) /\ claims[t] < MaxClaims
    <3>1. /\ row' = [row EXCEPT ![t] = ClaimedRow(t, row[t].next)]
          /\ claims' = [claims EXCEPT ![t] = @ + 1]
          /\ job' = [job EXCEPT ![t][claims[t] + 1] = ClaimedJob(t, c)]
      BY <1>2, <2>3 DEF ClaimNow
    <3>2. /\ row' \in [Tasks -> Row] /\ claims' \in [Tasks -> 0..MaxClaims]
          /\ job' \in [Tasks -> [Claims -> Job]]
      BY <2>0, <2>3, <3>1, NowClaimed
    <3> QED BY <2>1, <2>2, <3>2 DEF TypeOK
  <2>4. CASE ~(RunNowClaimable(t) /\ claims[t] < MaxClaims)
    <3>1. UNCHANGED <<row, claims, job>> BY <1>2, <2>4 DEF ClaimNow
    <3> QED BY <2>1, <2>2, <3>1 DEF TypeOK
  <2> QED BY <2>3, <2>4
<1> QED BY <1>1, <1>2

\* Jobs that end with their loop or process.
GoneJobs(P) ==
  [t \in Tasks |-> [n \in Claims |->
     IF Live(t, n) /\ job[t][n].proc \in P THEN [NoJob EXCEPT !.pc = "gone"] ELSE job[t][n]]]

LEMMA GoneTypes ==
  ASSUME TypeOK, NEW P
  PROVE  /\ GoneJobs(P) \in [Tasks -> [Claims -> Job]]
         /\ \A t \in Tasks, n \in Claims :
              \/ GoneJobs(P)[t][n] = job[t][n] /\ ~(Live(t, n) /\ job[t][n].proc \in P)
              \/ GoneJobs(P)[t][n].pc = "gone"
BY JobTypes DEF GoneJobs, TypeOK

LEMMA RaisedJobs ==
  ASSUME NEW a \in Actors, CallRaises(a)
  PROVE  job' = GoneJobs({a} \intersect {Loop})
<1>1. \A t \in Tasks, n \in Claims :
        a = Loop /\ Live(t, n) /\ job[t][n].proc = Loop
        <=> Live(t, n) /\ job[t][n].proc \in {a} \intersect {Loop}
  OBVIOUS
<1> QED BY <1>1 DEF CallRaises, GoneJobs

LEMMA EndTypes ==
  ASSUME TypeOK, Named, (\E a \in Actors : CallRaises(a)) \/ (\E P : ProcessEnds(P))
  PROVE  TypeOK' /\ Named'
<1>1. ASSUME NEW a \in Actors, CallRaises(a) PROVE TypeOK' /\ Named'
  <2>1. actor' = [actor EXCEPT ![a] = Raised(a)] /\ UNCHANGED <<row, execution, claims, ends, uncovered>>
    BY <1>1 DEF CallRaises
  <2>2. job' \in [Tasks -> [Claims -> Job]] BY <1>1, RaisedJobs, GoneTypes
  <2> QED BY <2>1, <2>2, DoneTypes DEF TypeOK
<1>2. ASSUME NEW P, ProcessEnds(P) PROVE TypeOK' /\ Named'
  <2>1. /\ ends < MaxEnds /\ ends' = ends + 1 /\ UNCHANGED <<row, execution, claims, uncovered>>
        /\ actor' = [a \in Actors |-> IF a \in P THEN Idle(a) ELSE actor[a]]
        /\ job' = GoneJobs(P)
    BY <1>2 DEF ProcessEnds, GoneJobs
  <2>2. actor' \in [Actors -> Actor] BY <2>1, ActorTypes DEF TypeOK
  <2>3. Named' BY <2>1, Constants, DoneNamed DEF Named
  <2>4. ends' \in 0..MaxEnds BY <2>1, Constants DEF TypeOK
  <2> QED BY <2>1, <2>2, <2>3, <2>4, GoneTypes DEF TypeOK
<1> QED BY <1>1, <1>2

LEMMA JobTypesKept ==
  ASSUME TypeOK, Named, NEW t \in Tasks, NEW n \in Claims,
         \/ Start(t, n) \/ ExecutorEnds(t, n) \/ TimesOut(t, n) \/ Finish(t, n)
         \/ Deliver(t, n) \/ RunRaises(t, n)
  PROVE  TypeOK' /\ Named'
<1>1. \E j \in Job : Moves(t, n, j)
  BY StartedJob, EndedJob, OverJob
<1>2. job' \in [Tasks -> [Claims -> Job]] BY <1>1, JobStepTypes
<1>3. UNCHANGED <<claims, actor, ends>> /\ uncovered' \in SUBSET Tasks
  BY DEF Start, ExecutorEnds, TimesOut, Finish, Deliver, RunRaises, TypeOK
<1>4. Named' BY <1>3 DEF Named
<1>5. CASE UNCHANGED <<row, execution>>
  BY <1>2, <1>3, <1>4, <1>5 DEF TypeOK
<1>6. CASE Start(t, n)
  <2>1. Records(t, n, "running") /\ row' = row BY <1>6 DEF Start, Records
  <2>2. "running" \in ExecutionResult \union {"absent", "running", "recovered"} OBVIOUS
  <2>3. execution' \in [Tasks -> [Claims -> ExecutionResult \union
                                            {"absent", "running", "recovered"}]]
    BY <2>1, <2>2, ExecutionTypes
  <2> QED BY <1>2, <1>3, <1>4, <2>1, <2>3 DEF TypeOK
<1>7. CASE Finish(t, n) /\ Exists(t) /\ row[t].claim = n
  <2>1. /\ Records(t, n, job[t][n].result)
        /\ row' = [row EXCEPT ![t].lease = NoLease]
    BY <1>7 DEF Finish, RecordCompleted, Records
  <2>2. job[t][n].result \in ExecutionResult BY DEF TypeOK, Job
  <2>3. execution' \in [Tasks -> [Claims -> ExecutionResult \union
                                            {"absent", "running", "recovered"}]]
    BY <2>1, <2>2, ExecutionTypes
  <2>4. row' \in [Tasks -> Row]
    <3>1. NoLease \in NoLease..Lease BY Constants DEF NoLease
    <3>2. \A r \in Row : [r EXCEPT !.lease = NoLease] \in Row BY <3>1 DEF Row
    <3>3. [row[t] EXCEPT !.lease = NoLease] \in Row BY <3>2 DEF TypeOK
    <3> QED BY <2>1, <3>3 DEF TypeOK
  <2> QED BY <1>2, <1>3, <1>4, <2>3, <2>4 DEF TypeOK
<1> QED BY <1>5, <1>6, <1>7
        DEF ExecutorEnds, TimesOut, Finish, RecordCompleted, Deliver, RunRaises

LEMMA ServiceTypes ==
  ASSUME TypeOK, Named, NEW t \in Tasks,
         Create(t) \/ Pause(t) \/ Delete(t) \/ MarkSessionMissing(t)
  PROVE  TypeOK' /\ Named'
<1>0. UNCHANGED <<execution, claims, job, actor, ends, uncovered>>
  BY DEF Create, Pause, Delete, MarkSessionMissing
<1>1. \E r \in Row : row' = [row EXCEPT ![t] = r]
  <2>0. row[t] \in Row BY DEF TypeOK
  <2>1. ASSUME NEW next \in NextAfter
        PROVE [NoRow EXCEPT !.status = "active", !.next = next] \in Row
    <3>1. next \in Missed..Period BY RowTypes
    <3> QED BY <3>1, RowTypes DEF Row, ScheduledTaskStatus
  <2>2. CASE Create(t) BY <2>1, <2>2 DEF Create
  <2>3. [NoRow EXCEPT !.status = "deleted"] \in Row BY RowTypes DEF Row
  <2>4. CASE Delete(t) BY <2>3, <2>4 DEF Delete
  <2>5. \A s \in ScheduledTaskStatus : /\ [row[t] EXCEPT !.status = s] \in Row
                                       /\ [row EXCEPT ![t].status = s]
                                            = [row EXCEPT ![t] = [row[t] EXCEPT !.status = s]]
    BY <2>0 DEF Row, TypeOK
  <2>6. CASE Pause(t) BY <2>5, <2>6 DEF Pause, ScheduledTaskStatus
  <2>7. CASE MarkSessionMissing(t) BY <2>5, <2>7 DEF MarkSessionMissing, ScheduledTaskStatus
  <2> QED BY <2>2, <2>4, <2>6, <2>7
<1> QED BY <1>0, <1>1 DEF TypeOK, Named

LEMMA TimeEffect ==
  ASSUME TypeOK, TimePasses
  PROVE  /\ row' \in [Tasks -> Row] /\ job' \in [Tasks -> [Claims -> Job]]
         /\ \A t \in Tasks : row'[t] = Aged(row[t])
         /\ \A t \in Tasks, n \in Claims :
              /\ job'[t][n].pc = job[t][n].pc /\ job'[t][n].proc = job[t][n].proc
              /\ job'[t][n].left = IF job[t][n].pc = "executing" THEN job[t][n].left - 1
                                   ELSE job[t][n].left
<1>1. /\ \A t \in Tasks, n \in Claims : job[t][n].pc = "executing" => job[t][n].left > 0
      /\ row' = [t \in Tasks |-> Aged(row[t])]
      /\ job' = [t \in Tasks |-> [n \in Claims |->
                   IF job[t][n].pc = "executing" THEN [job[t][n] EXCEPT !.left = job[t][n].left - 1]
                                                 ELSE job[t][n]]]
  BY DEF TimePasses
<1>2. row' \in [Tasks -> Row] BY <1>1, AgedTypes DEF TypeOK
<1>3. ASSUME NEW t \in Tasks, NEW n \in Claims, job[t][n].pc = "executing"
      PROVE  /\ [job[t][n] EXCEPT !.left = job[t][n].left - 1] \in Job
             /\ [job[t][n] EXCEPT !.left = job[t][n].left - 1].left = job[t][n].left - 1
             /\ [job[t][n] EXCEPT !.left = job[t][n].left - 1].pc = "executing"
             /\ [job[t][n] EXCEPT !.left = job[t][n].left - 1].proc = job[t][n].proc
  <2>1. job[t][n] \in Job BY DEF TypeOK
  <2>2. job[t][n].left - 1 \in 0..Timeout BY <1>1, <1>3, <2>1, Constants DEF Job
  <2> QED BY <1>3, <2>1, <2>2 DEF Job
<1>4. job' \in [Tasks -> [Claims -> Job]] BY <1>1, <1>3 DEF TypeOK
<1> QED BY <1>1, <1>2, <1>3, <1>4

LEMMA TimeTypes ==
  ASSUME TypeOK, Named, TimePasses PROVE TypeOK' /\ Named'
<1>1. /\ actor' = [actor EXCEPT ![Loop].pc = IF @ = "resting" THEN "idle" ELSE @]
      /\ UNCHANGED <<execution, claims, ends, uncovered>>
  BY DEF TimePasses
<1>2. PICK pc \in {"idle", "resting", "dead", "origins", "recover", "claim", "running",
                   "write", "activate"} :
        actor' = [actor EXCEPT ![Loop].pc = pc]
  BY <1>1, Constants DEF TypeOK, Actor
<1>3. actor' \in [Actors -> Actor] /\ \A b \in Actors \ {Loop} : actor'[b] = actor[b]
  BY <1>2, PcTypes, Constants
<1>4. Named' BY <1>3, Constants DEF Named
<1> QED BY <1>1, <1>3, <1>4, TimeEffect DEF TypeOK

LEMMA StepTypes == TypeOK /\ Named /\ [Next]_vars => TypeOK' /\ Named'
<1> SUFFICES ASSUME TypeOK, Named, [Next]_vars PROVE TypeOK' /\ Named' OBVIOUS
<1>0. Loop \in Actors /\ Clients \subseteq Actors BY Constants
<1>1. CASE LoopStep
  BY <1>0, <1>1, PassStepTypes, EditStepTypes, PassRecoversTypes, ClaimTypesKept DEF LoopStep
<1>2. ASSUME NEW c \in Clients, ClientBegins(c) \/ ClientContinues(c) PROVE TypeOK' /\ Named'
  <2>1. CASE ClientBegins(c)
    BY <1>0, <2>1, PassStepTypes, EditStepTypes DEF ClientBegins
  <2>2. CASE ClientContinues(c)
    BY <1>0, <2>2, PassStepTypes, EditStepTypes, PassRecoversTypes, ClaimTypesKept
       DEF ClientContinues
  <2> QED BY <1>2, <2>1, <2>2
<1>3. ASSUME NEW t \in Tasks, NEW n \in Claims,
             JobStep(t, n) \/ ExecutorEnds(t, n) \/ RunRaises(t, n)
      PROVE  TypeOK' /\ Named'
  BY <1>3, JobTypesKept DEF JobStep
<1>4. CASE \E a \in Actors : CallRaises(a) BY <1>4, EndTypes
<1>5. CASE ProcessEnds(Server) \/ \E c \in CliClients : ProcessEnds({c}) BY <1>5, EndTypes
<1>6. CASE TimePasses BY <1>6, TimeTypes
<1>7. CASE \E t \in Tasks : Create(t) \/ Pause(t) \/ Delete(t) \/ MarkSessionMissing(t)
  BY <1>7, ServiceTypes
<1>8. CASE UNCHANGED vars BY <1>8 DEF vars, TypeOK, Named
<1> QED BY <1>1, <1>2, <1>3, <1>4, <1>5, <1>6, <1>7, <1>8 DEF Next

LEMMA InitTypes == Init => TypeOK /\ Named
<1> SUFFICES ASSUME Init PROVE TypeOK /\ Named OBVIOUS
<1>1. row \in [Tasks -> Row] BY RowTypes DEF Init
<1>2. execution \in [Tasks -> [Claims -> ExecutionResult \union
                                         {"absent", "running", "recovered"}]]
  BY DEF Init
<1>3. claims \in [Tasks -> 0..MaxClaims] /\ ends \in 0..MaxEnds BY Constants DEF Init
<1>4. job \in [Tasks -> [Claims -> Job]] BY JobTypes DEF Init
<1>5. actor \in [Actors -> Actor] BY ActorTypes DEF Init
<1>6. Named BY DoneNamed, Constants DEF Init, Named
<1>7. uncovered \in SUBSET Tasks BY DEF Init
<1> QED BY <1>1, <1>2, <1>3, <1>4, <1>5, <1>6, <1>7 DEF TypeOK

\* No column of scheduled_tasks or scheduled_task_executions and no local variable of the
\* run service leaves its type, whatever the limits: in particular no lease is longer than
\* granted and no claim is drawn beyond the bound.
THEOREM TypeCorrect == Spec => []TypeOK
<1>1. Spec => [](TypeOK /\ Named) BY InitTypes, StepTypes, PTL DEF Spec
<1> QED BY <1>1, PTL

-----------------------------------------------------------------------------
(* Leases: one lemma per group of steps *)

\* A task that a step leaves alone.
LEMMA TaskUntouched ==
  ASSUME NEW t \in Tasks, TaskInv(t), row'[t] = row[t], execution'[t] = execution[t],
         claims'[t] = claims[t], job'[t] = job[t], uncovered \subseteq uncovered'
  PROVE  TaskInv(t)'
BY DEF TaskInv, Covered, Alone, Fresh, Started, Exists

\* While a covered task is executed, its row is neither free for a claim nor stale.
LEMMA StartedIsHeld ==
  ASSUME TypeOK, NEW t \in Tasks, TaskInv(t), t \notin uncovered,
         NEW n \in Claims, Started(t, n), Exists(t)
  PROVE  /\ row[t].lease \in Int /\ row[t].lease > 0 /\ row[t].claim = n
         /\ job[t][n].left \in Nat /\ job[t][n].left < row[t].lease
         /\ ~LeaseFree(t) /\ ~RunNowClaimable(t) /\ ~Stale(t, n)
<1>1. row[t] \in Row /\ job[t][n] \in Job BY DEF TypeOK
<1>2. row[t].lease \in Int /\ job[t][n].left \in Nat
  BY <1>1, Constants DEF Row, Job, NoLease
<1>3. row[t].claim = n /\ job[t][n].left < row[t].lease /\ execution[t][n] = "running"
  BY DEF TaskInv, Covered
<1>4. row[t].lease > 0 BY <1>2, <1>3
<1>5. ~LeaseFree(t) BY <1>2, <1>4 DEF LeaseFree, NoLease
<1> QED BY <1>2, <1>3, <1>4, <1>5 DEF RunNowClaimable, Stale

\* claim_due_tasks and claim_task_for_run_now on a task that is not executed under its lease.
LEMMA ClaimKeeps ==
  ASSUME TypeOK, NEW t \in Tasks, TaskInv(t), row[t].status = "active",
         claims[t] < MaxClaims, t \notin uncovered => \A n \in Claims : ~Started(t, n),
         NEW a \in Actors, claims'[t] = claims[t] + 1, row'[t].status = row[t].status,
         job'[t] = [job[t] EXCEPT ![claims[t] + 1] = ClaimedJob(t, a)],
         execution' = execution, uncovered' = uncovered
  PROVE  TaskInv(t)'
<1> DEFINE k == claims[t] + 1
<1>0. job[t] \in [Claims -> Job] /\ claims[t] \in Nat /\ Missed \in Missed..Period
  BY Constants DEF TypeOK, Missed
<1>1. k \in Claims /\ ClaimedJob(t, a).pc = "claimed" BY <1>0, ClaimTypes
<1>2. /\ job'[t][k] = ClaimedJob(t, a) /\ \A n \in Claims \ {k} : job'[t][n] = job[t][n]
  BY <1>0, <1>1
<1>3. Claims \subseteq Nat /\ k > claims[t] BY <1>0 DEF Claims
<1>4. execution'[t][k] = "absent" BY <1>1, <1>3 DEF TaskInv, Fresh
<1>5. t \notin uncovered => \A n \in Claims : ~Started(t, n)' BY <1>1, <1>2 DEF Started
<1>6. Exists(t)' BY DEF Exists, ScheduledTaskStatus
<1>7. Fresh(t)'
  <2>0. \A x, y \in Nat : x > y + 1 => x > y /\ x # y + 1 OBVIOUS
  <2>1. \A n \in Claims : n > claims'[t] => n > claims[t] /\ n # k BY <1>0, <1>3, <2>0
  <2> HIDE DEF k
  <2> QED BY <1>1, <1>2, <1>4, <1>6, <2>1 DEF TaskInv, Fresh
<1> QED BY <1>5, <1>7 DEF TaskInv, Covered, Alone

LEMMA DueKeeps ==
  ASSUME TypeOK, XInv, ClaimDue PROVE XInv'
<1>0. execution' = execution /\ uncovered' = uncovered BY DEF ClaimDue
<1>1. PICK S \in SUBSET {t \in Tasks : Due(t) /\ claims[t] < MaxClaims} :
           /\ \A t \in Tasks \ S : /\ row'[t] = row[t] /\ claims'[t] = claims[t]
                                   /\ job'[t] = job[t]
           /\ \A t \in S : /\ claims'[t] = claims[t] + 1
                           /\ row'[t].status = row[t].status
                           /\ job'[t] = [job[t] EXCEPT ![claims[t] + 1] = ClaimedJob(t, Loop)]
  BY DueClaimed
<1>2. ASSUME NEW t \in S PROVE TaskInv(t)' /\ t \in Tasks
  <2>1. t \in Tasks /\ Due(t) /\ claims[t] < MaxClaims OBVIOUS
  <2>2. TaskInv(t) BY <2>1 DEF XInv
  <2>3. row[t].status = "active" /\ LeaseFree(t) /\ Exists(t)
    BY <2>1 DEF Due, Exists, ScheduledTaskStatus
  <2>4. t \notin uncovered => \A n \in Claims : ~Started(t, n)
    BY <2>1, <2>2, <2>3, StartedIsHeld
  <2> QED BY <1>0, <1>1, <2>1, <2>2, <2>3, <2>4, ClaimKeeps, Constants
<1> QED BY <1>0, <1>1, <1>2, TaskUntouched DEF XInv

LEMMA NowKeeps ==
  ASSUME TypeOK, Named, XInv, NEW c \in Clients, ClaimNow(c) PROVE XInv'
<1>t. PICK t \in Tasks : t = actor[c].task BY DEF ClaimNow, Named, NamedBy
<1>0. execution' = execution /\ uncovered' = uncovered /\ c \in Actors
  BY Constants DEF ClaimNow
<1>1. CASE RunNowClaimable(t) /\ claims[t] < MaxClaims
  <2>1. /\ row' = [row EXCEPT ![t] = ClaimedRow(t, row[t].next)]
        /\ claims' = [claims EXCEPT ![t] = @ + 1]
        /\ job' = [job EXCEPT ![t][claims[t] + 1] = ClaimedJob(t, c)]
    BY <1>t, <1>1 DEF ClaimNow
  <2>2. /\ \A u \in Tasks \ {t} : row'[u] = row[u] /\ claims'[u] = claims[u] /\ job'[u] = job[u]
        /\ claims'[t] = claims[t] + 1
        /\ row'[t].status = row[t].status
        /\ job'[t] = [job[t] EXCEPT ![claims[t] + 1] = ClaimedJob(t, c)]
    BY <1>1, <2>1, NowClaimed
  <2>3. TaskInv(t) BY DEF XInv
  <2>4. row[t].status = "active" /\ Exists(t)
    BY <1>1 DEF RunNowClaimable, Exists, ScheduledTaskStatus
  <2>5. t \notin uncovered => \A n \in Claims : ~Started(t, n)
    BY <1>1, <2>3, <2>4, StartedIsHeld
  <2>6. TaskInv(t)' BY <1>0, <1>1, <2>2, <2>3, <2>4, <2>5, ClaimKeeps
  <2> QED BY <1>0, <2>2, <2>6, TaskUntouched DEF XInv
<1>2. CASE ~(RunNowClaimable(t) /\ claims[t] < MaxClaims)
  <2>1. UNCHANGED <<row, claims, job>> BY <1>t, <1>2 DEF ClaimNow
  <2> QED BY <1>0, <2>1, TaskUntouched DEF XInv
<1> QED BY <1>1, <1>2

\* The recovery gives up no execution that its lease covers.
LEMMA RecoverKeeps ==
  ASSUME TypeOK, XInv, NEW a \in Actors, PassRecovers(a) PROVE XInv'
<1>0. RecoverStale /\ UNCHANGED <<claims, job, uncovered>> BY DEF PassRecovers
<1>1. ASSUME NEW t \in Tasks PROVE TaskInv(t)'
  <2>0. TaskInv(t) BY DEF XInv
  <2>1. /\ row'[t].status = row[t].status /\ row'[t].claim = row[t].claim
        /\ row'[t].lease = IF row[t].lease = 0 THEN NoLease ELSE row[t].lease
        /\ \A n \in Claims :
             execution'[t][n] = IF execution[t][n] = "running" /\ Stale(t, n)
                                THEN "recovered" ELSE execution[t][n]
    BY <1>0, RecoverTypes
  <2>2. ASSUME t \notin uncovered, NEW n \in Claims, Started(t, n)
        PROVE  execution'[t][n] = execution[t][n] /\ (Exists(t) => row'[t].lease = row[t].lease)
    <3>1. CASE Exists(t) BY <2>0, <2>1, <2>2, <3>1, StartedIsHeld
    <3>2. CASE ~Exists(t) BY <2>1, <3>2 DEF Stale
    <3> QED BY <3>1, <3>2
  <2>3. Exists(t)' <=> Exists(t) BY <2>1 DEF Exists
  <2>4. \A n \in Claims : (Started(t, n)' <=> Started(t, n)) /\ job'[t][n] = job[t][n]
    BY <1>0 DEF Started
  <2>5. t \notin uncovered => Covered(t)'
    BY <2>0, <2>1, <2>2, <2>3, <2>4 DEF TaskInv, Covered
  <2>6. t \notin uncovered => Alone(t)' BY <2>0, <2>4 DEF TaskInv, Alone
  <2>7. Fresh(t)'
    <3>1. \A n \in Claims : execution[t][n] = "absent" => execution'[t][n] = "absent" BY <2>1
    <3>2. ~Exists(t) => row'[t].lease = NoLease BY <2>0, <2>1 DEF TaskInv, Fresh
    <3> QED BY <1>0, <2>0, <2>1, <2>3, <3>1, <3>2 DEF TaskInv, Fresh
  <2> QED BY <1>0, <2>5, <2>6, <2>7 DEF TaskInv
<1> QED BY <1>1 DEF XInv

\* An execution starts: under a lease that covers it, or its task is uncovered from then on.
LEMMA StartKeeps ==
  ASSUME TypeOK, XInv, NEW t \in Tasks, NEW n \in Claims, Start(t, n) PROVE XInv'
<1>0. /\ Records(t, n, "running") /\ UNCHANGED <<row, claims>>
      /\ job[t][n].pc = "claimed" /\ uncovered \subseteq uncovered'
      /\ t \notin uncovered' => t \notin uncovered /\ row[t].claim = n /\ row[t].lease > Timeout
  BY DEF Start, MayStart, Records
<1>1. PICK j \in Job : /\ Moves(t, n, j)
                       /\ \/ j.pc = "finishing" /\ j.left = job[t][n].left
                          \/ j.pc = "executing" /\ j.left = Timeout
  BY StartedJob
<1>2. /\ job'[t][n] = j /\ \A m \in Claims \ {n} : job'[t][m] = job[t][m]
      /\ \A u \in Tasks \ {t} : job'[u] = job[u]
  BY <1>1, JobStepTypes
<1>3. /\ execution'[t][n] = "running" /\ \A m \in Claims \ {n} : execution'[t][m] = execution[t][m]
      /\ \A u \in Tasks \ {t} : execution'[u] = execution[u]
  <2>1. "running" \in ExecutionResult \union {"absent", "running", "recovered"} OBVIOUS
  <2> QED BY <1>0, <2>1, ExecutionTypes
<1>4. TaskInv(t) /\ row[t] \in Row /\ j.left \in 0..Timeout BY DEF XInv, TypeOK, Job
<1>5. Exists(t)' <=> Exists(t) BY <1>0 DEF Exists
<1>6. ASSUME t \notin uncovered' PROVE Covered(t)' /\ Alone(t)'
  <2>1. row[t].lease > Timeout /\ row[t].lease \in Int /\ Timeout \in Nat
    BY <1>0, <1>4, <1>6, Constants DEF Row, NoLease
  <2>2. Exists(t)
    <3>1. row[t].lease # NoLease BY <2>1 DEF NoLease
    <3> QED BY <1>4, <3>1 DEF TaskInv, Fresh
  <2>3. \A m \in Claims : ~Started(t, m)
    <3> SUFFICES ASSUME NEW m \in Claims, Started(t, m) PROVE FALSE OBVIOUS
    <3>1. m = n BY <1>0, <1>4, <1>6, <2>2, StartedIsHeld
    <3> QED BY <1>0, <3>1 DEF Started
  <2>4. \A m \in Claims : Started(t, m)' => m = n BY <1>2, <2>3 DEF Started
  <2>5. j.left < row[t].lease BY <1>4, <2>1
  <2>6. Covered(t)' BY <1>0, <1>2, <1>3, <1>6, <2>4, <2>5 DEF Covered
  <2> QED BY <2>4, <2>6 DEF Alone
<1>7. Fresh(t)'
  <2>1. ~(n > claims[t]) BY <1>0, <1>4 DEF TaskInv, Fresh
  <2>2. j.pc # "claimed" BY <1>1
  <2> QED BY <1>0, <1>2, <1>3, <1>4, <1>5, <2>1, <2>2 DEF TaskInv, Fresh
<1>8. TaskInv(t)' BY <1>6, <1>7 DEF TaskInv
<1> QED BY <1>0, <1>2, <1>3, <1>8, TaskUntouched DEF XInv

LEMMA EndedKeeps ==
  ASSUME TypeOK, XInv, NEW t \in Tasks, NEW n \in Claims, ExecutorEnds(t, n) \/ TimesOut(t, n)
  PROVE  XInv'
<1>0. UNCHANGED <<row, execution, claims, uncovered>> /\ job[t][n].pc = "executing"
  BY DEF ExecutorEnds, TimesOut
<1>1. PICK j \in Job : Moves(t, n, j) /\ j.pc = "finishing" /\ j.left = 0
  BY EndedJob
<1>2. /\ job'[t][n] = j /\ \A m \in Claims \ {n} : job'[t][m] = job[t][m]
      /\ \A u \in Tasks \ {t} : job'[u] = job[u]
  BY <1>1, JobStepTypes
<1>3. TaskInv(t) /\ Started(t, n) BY <1>0 DEF XInv, Started
<1>4. \A m \in Claims : Started(t, m)' <=> Started(t, m) BY <1>1, <1>2, <1>3 DEF Started
<1>5. Exists(t)' <=> Exists(t) BY <1>0 DEF Exists
<1>6. ASSUME t \notin uncovered PROVE Covered(t)' /\ Alone(t)'
  <2>1. Exists(t) => 0 < row[t].lease BY <1>3, <1>6, StartedIsHeld
  <2>2. Covered(t)' BY <1>0, <1>1, <1>2, <1>3, <1>4, <1>5, <1>6, <2>1 DEF TaskInv, Covered
  <2> QED BY <1>3, <1>4, <1>6, <2>2 DEF TaskInv, Alone
<1>7. Fresh(t)'
  <2>1. ~(n > claims[t]) BY <1>0, <1>3 DEF TaskInv, Fresh
  <2> QED BY <1>0, <1>1, <1>2, <1>3, <1>5, <2>1 DEF TaskInv, Fresh
<1>8. TaskInv(t)' BY <1>0, <1>6, <1>7 DEF TaskInv
<1> QED BY <1>0, <1>2, <1>8, TaskUntouched DEF XInv

\* A result is recorded, delivered, or its job is over.
LEMMA OverKeeps ==
  ASSUME TypeOK, XInv, NEW t \in Tasks, NEW n \in Claims,
         Finish(t, n) \/ Deliver(t, n) \/ RunRaises(t, n)
  PROVE  XInv'
<1>0. UNCHANGED <<claims, uncovered>> /\ Live(t, n)
  BY DEF Finish, Deliver, RunRaises, Live, Begun
<1>1. PICK j \in Job : Moves(t, n, j) /\ j.pc \in {"gone", "delivering"}
  BY OverJob
<1>2. /\ job'[t][n] = j /\ \A m \in Claims \ {n} : job'[t][m] = job[t][m]
      /\ \A u \in Tasks \ {t} : job'[u] = job[u]
  BY <1>1, JobStepTypes
<1>4. TaskInv(t) BY DEF XInv
<1>5. \A m \in Claims : Started(t, m)' => Started(t, m) /\ m # n BY <1>1, <1>2 DEF Started
<1>6. t \notin uncovered => Alone(t)' BY <1>4, <1>5 DEF TaskInv, Alone
<1>7. ~(n > claims[t]) BY <1>0, <1>4 DEF TaskInv, Fresh, Live, Begun
<1>8. CASE UNCHANGED <<row, execution>>
  <2>1. Exists(t)' <=> Exists(t) BY <1>8 DEF Exists
  <2>2. t \notin uncovered => Covered(t)'
    BY <1>2, <1>4, <1>5, <1>8, <2>1 DEF TaskInv, Covered
  <2>3. Fresh(t)' BY <1>0, <1>1, <1>2, <1>4, <1>7, <1>8, <2>1 DEF TaskInv, Fresh
  <2>4. TaskInv(t)' BY <1>0, <1>6, <2>2, <2>3 DEF TaskInv
  <2> QED BY <1>0, <1>2, <1>8, <2>4, TaskUntouched DEF XInv
<1>9. CASE Finish(t, n) /\ Exists(t) /\ row[t].claim = n
  <2>1. /\ Records(t, n, job[t][n].result)
        /\ row' = [row EXCEPT ![t].lease = NoLease] /\ job[t][n].pc = "finishing"
    BY <1>9 DEF Finish, RecordCompleted, Records
  <2>2. job[t][n].result \in ExecutionResult BY DEF TypeOK, Job
  <2>3. /\ \A m \in Claims \ {n} : execution'[t][m] = execution[t][m]
        /\ \A u \in Tasks \ {t} : execution'[u] = execution[u]
    BY <2>1, <2>2, ExecutionTypes
  <2>4. row'[t].status = row[t].status /\ \A u \in Tasks \ {t} : row'[u] = row[u]
    BY <2>1 DEF TypeOK, Row
  <2>5. t \notin uncovered => \A m \in Claims : ~Started(t, m)'
    BY <1>4, <1>5, <2>1 DEF TaskInv, Alone, Started
  <2>6. t \notin uncovered => Covered(t)' BY <2>5 DEF Covered
  <2>7. Exists(t)' BY <1>9, <2>4 DEF Exists
  <2>8. Fresh(t)' BY <1>0, <1>1, <1>2, <1>4, <1>7, <2>3, <2>4, <2>7 DEF TaskInv, Fresh
  <2>9. TaskInv(t)' BY <1>0, <1>6, <2>6, <2>8 DEF TaskInv
  <2> QED BY <1>0, <1>2, <2>3, <2>4, <2>9, TaskUntouched DEF XInv
<1> QED BY <1>8, <1>9 DEF Finish, RecordCompleted, Deliver, RunRaises

\* Jobs go with their loop or process; what the database holds of them stays.
LEMMA GoneKeeps ==
  ASSUME TypeOK, XInv, NEW P, job' = GoneJobs(P), UNCHANGED <<row, execution, claims, uncovered>>
  PROVE  XInv'
<1>1. \A t \in Tasks, n \in Claims :
        \/ job'[t][n] = job[t][n] /\ ~(Live(t, n) /\ job[t][n].proc \in P)
        \/ job'[t][n].pc = "gone"
  BY GoneTypes
<1>2. ASSUME NEW t \in Tasks PROVE TaskInv(t)'
  <2>0. TaskInv(t) BY DEF XInv
  <2>1. \A n \in Claims : Started(t, n)' => Started(t, n) /\ job'[t][n] = job[t][n]
    BY <1>1 DEF Started
  <2>2. Exists(t)' <=> Exists(t) BY DEF Exists
  <2>3. t \notin uncovered => Covered(t)' BY <2>0, <2>1, <2>2 DEF TaskInv, Covered
  <2>4. t \notin uncovered => Alone(t)' BY <2>0, <2>1 DEF TaskInv, Alone
  <2>5. Fresh(t)'
    <3>1. \A n \in Claims : job[t][n].pc = "none" => job'[t][n].pc = "none"
      BY JobTypes DEF GoneJobs, Live, Begun
    <3>2. \A n \in Claims : job'[t][n].pc = "claimed" => job[t][n].pc = "claimed" BY <1>1
    <3> QED BY <2>0, <2>2, <3>1, <3>2 DEF TaskInv, Fresh
  <2> QED BY <2>3, <2>4, <2>5 DEF TaskInv
<1> QED BY <1>2 DEF XInv

LEMMA EndKeeps ==
  ASSUME TypeOK, XInv, (\E a \in Actors : CallRaises(a)) \/ (\E P : ProcessEnds(P))
  PROVE  XInv'
<1>1. ASSUME NEW a \in Actors, CallRaises(a) PROVE XInv'
  <2>1. UNCHANGED <<row, execution, claims, uncovered>> BY <1>1 DEF CallRaises
  <2> QED BY <1>1, <2>1, RaisedJobs, GoneKeeps
<1>2. ASSUME NEW P, ProcessEnds(P) PROVE XInv'
  <2>1. UNCHANGED <<row, execution, claims, uncovered>> /\ job' = GoneJobs(P)
    BY <1>2 DEF ProcessEnds, GoneJobs
  <2> QED BY <2>1, GoneKeeps
<1> QED BY <1>1, <1>2

\* A row is written that was there before and still is: with its lease and claim, or its
\* task is uncovered from then on.
LEMMA WriteKeeps ==
  ASSUME TypeOK, XInv, NEW t \in Tasks, NEW r \in Row, row' = [row EXCEPT ![t] = r],
         Exists(t), r.status \in ScheduledTaskStatus, UNCHANGED <<execution, claims, job>>,
         uncovered \subseteq uncovered',
         t \notin uncovered' => r.lease = row[t].lease /\ r.claim = row[t].claim
  PROVE  XInv'
<1>1. row'[t] = r /\ \A u \in Tasks \ {t} : row'[u] = row[u] BY DEF TypeOK
<1>2. TaskInv(t) BY DEF XInv
<1>3. Exists(t)' BY <1>1 DEF Exists
<1>4. \A n \in Claims : Started(t, n)' <=> Started(t, n) BY DEF Started
<1>5. t \notin uncovered' => Covered(t)' /\ Alone(t)'
  BY <1>1, <1>2, <1>3, <1>4 DEF TaskInv, Covered, Alone
<1>6. Fresh(t)' BY <1>1, <1>2, <1>3 DEF TaskInv, Fresh, ScheduledTaskStatus
<1>7. TaskInv(t)' BY <1>5, <1>6 DEF TaskInv
<1> QED BY <1>1, <1>7, TaskUntouched DEF XInv

LEMMA StatusKeeps ==
  ASSUME TypeOK, XInv, NEW t \in Tasks, NEW s \in ScheduledTaskStatus, Exists(t),
         row' = [row EXCEPT ![t].status = s], UNCHANGED <<execution, claims, job, uncovered>>
  PROVE  XInv'
<1> DEFINE r == [row[t] EXCEPT !.status = s]
<1>0. row[t] \in Row BY DEF TypeOK
<1>1. r \in Row /\ r.status = s /\ r.lease = row[t].lease /\ r.claim = row[t].claim
  BY <1>0 DEF Row
<1>2. row' = [row EXCEPT ![t] = r] BY DEF TypeOK
<1> HIDE DEF r
<1> QED BY <1>1, <1>2, WriteKeeps

LEMMA WriteBackKeeps ==
  ASSUME TypeOK, XInv, NEW a, NEW t \in Tasks, NEW r \in Row, NEW next,
         r.status \in ScheduledTaskStatus, WriteBack(a, t, r, next),
         UNCHANGED <<execution, claims, job>>
  PROVE  XInv'
<1>1. CASE Exists(t)
  <2>1. /\ row' = [row EXCEPT ![t] = r] /\ uncovered \subseteq uncovered'
        /\ t \notin uncovered' => r.lease = row[t].lease /\ r.claim = row[t].claim
    BY <1>1 DEF WriteBack
  <2> QED BY <1>1, <2>1, WriteKeeps
<1>2. CASE ~Exists(t)
  <2>1. UNCHANGED <<row, uncovered>> BY <1>2 DEF WriteBack
  <2> QED BY <2>1, TaskUntouched DEF XInv
<1> QED BY <1>1, <1>2

LEMMA EditKeeps ==
  ASSUME TypeOK, Named, XInv, NEW a \in Actors,
         \/ \E m \in actor[a].missing : RestoreOrigin(a, m)
         \/ a \in Clients /\ EditWrites(a)
         \/ a \in Clients /\ ResumeActivates(a)
  PROVE  XInv'
<1>0. actor[a] \in Actor BY DEF TypeOK
<1>1. ASSUME NEW m \in actor[a].missing, RestoreOrigin(a, m) PROVE XInv'
  <2> DEFINE r == [m.row EXCEPT !.status = "active"]
             next == [actor[a] EXCEPT !.missing = actor[a].missing \ {m}]
  <2>1. WriteBack(a, m.task, r, next) /\ UNCHANGED <<execution, claims, job>>
    BY <1>1 DEF RestoreOrigin
  <2>2. m.task \in Tasks /\ m.row \in Row BY <1>0 DEF Actor
  <2>3. r \in Row /\ r.status \in ScheduledTaskStatus BY <2>2 DEF Row, ScheduledTaskStatus
  <2> HIDE DEF r, next
  <2> QED BY <2>1, <2>2, <2>3, WriteBackKeeps
<1>2. ASSUME a \in Clients, EditWrites(a) PROVE XInv'
  <2> DEFINE next == IF actor[a].op = "resume"
                     THEN [actor[a] EXCEPT !.pc = "activate", !.row = NoRow] ELSE Idle(a)
  <2>1. PICK time \in NextAfter :
          WriteBack(a, actor[a].task, [actor[a].row EXCEPT !.next = time], next)
    BY <1>2 DEF EditWrites
  <2> DEFINE r == [actor[a].row EXCEPT !.next = time]
  <2>2. /\ UNCHANGED <<execution, claims, job>> /\ actor[a].task \in Tasks
        /\ actor[a].row.status \in ScheduledTaskStatus
    BY <1>2 DEF EditWrites, Named, NamedBy
  <2>3. r \in Row /\ r.status \in ScheduledTaskStatus
    <3>1. actor[a].row \in Row /\ time \in Missed..Period BY <1>0, RowTypes DEF Actor
    <3> QED BY <2>2, <3>1 DEF Row
  <2>4. WriteBack(a, actor[a].task, r, next) BY <2>1
  <2> HIDE DEF r, next
  <2> QED BY <2>2, <2>3, <2>4, WriteBackKeeps
<1>3. ASSUME a \in Clients, ResumeActivates(a) PROVE XInv'
  <2>0. PICK t \in Tasks : t = actor[a].task BY <1>3 DEF ResumeActivates, Named, NamedBy
  <2>1. /\ row' = (IF Exists(t) THEN [row EXCEPT ![t].status = "active"] ELSE row)
        /\ UNCHANGED <<execution, claims, job, uncovered>>
    BY <1>3, <2>0 DEF ResumeActivates
  <2>2. CASE Exists(t) BY <2>1, <2>2, StatusKeeps DEF ScheduledTaskStatus
  <2>3. CASE ~Exists(t) BY <2>1, <2>3, TaskUntouched DEF XInv
  <2> QED BY <2>2, <2>3
<1> QED BY <1>1, <1>2, <1>3

LEMMA ServiceKeeps ==
  ASSUME TypeOK, XInv, NEW t \in Tasks,
         Create(t) \/ Pause(t) \/ Delete(t) \/ MarkSessionMissing(t)
  PROVE  XInv'
<1>0. UNCHANGED <<execution, claims, job, uncovered>>
  BY DEF Create, Pause, Delete, MarkSessionMissing
<1>1. CASE Pause(t) BY <1>0, <1>1, StatusKeeps DEF Pause, ScheduledTaskStatus
<1>2. CASE MarkSessionMissing(t)
  BY <1>0, <1>2, StatusKeeps DEF MarkSessionMissing, ScheduledTaskStatus
<1>3. TaskInv(t) /\ \A n \in Claims : Started(t, n)' <=> Started(t, n)
  BY <1>0 DEF XInv, Started
<1>4. CASE Create(t)
  <2>0. PICK next \in NextAfter :
          row' = [row EXCEPT ![t] = [NoRow EXCEPT !.status = "active", !.next = next]]
    BY <1>4 DEF Create
  <2>r. [NoRow EXCEPT !.status = "active", !.next = next].status = "active"
    BY RowTypes DEF Row
  <2>1. /\ claims[t] = 0 /\ row'[t].status = "active"
        /\ \A u \in Tasks \ {t} : row'[u] = row[u]
    BY <1>3, <1>4, <2>0, <2>r DEF Create, TaskInv, Fresh, TypeOK
  <2>2. \A n \in Claims : n > claims[t] BY <2>1 DEF Claims
  <2>3. \A n \in Claims : ~Started(t, n)' BY <1>3, <2>2 DEF TaskInv, Fresh, Started
  <2>4. Exists(t)' BY <2>1 DEF Exists, ScheduledTaskStatus
  <2>5. Fresh(t)' BY <1>0, <1>3, <2>1, <2>4 DEF TaskInv, Fresh
  <2>6. TaskInv(t)' BY <2>3, <2>5 DEF TaskInv, Covered, Alone
  <2> QED BY <1>0, <2>1, <2>6, TaskUntouched DEF XInv
<1>5. CASE Delete(t)
  <2>0. [NoRow EXCEPT !.status = "deleted"].status = "deleted"
        /\ [NoRow EXCEPT !.status = "deleted"].lease = NoLease
    BY RowTypes DEF Row
  <2>1. /\ row'[t].status = "deleted" /\ row'[t].lease = NoLease
        /\ \A u \in Tasks \ {t} : row'[u] = row[u]
    BY <1>5, <2>0 DEF Delete, TypeOK
  <2>2. ~Exists(t)' BY <2>1 DEF Exists, ScheduledTaskStatus
  <2>3. t \notin uncovered => Covered(t)' /\ Alone(t)'
    BY <1>0, <1>3, <2>2 DEF TaskInv, Covered, Alone
  <2>4. Fresh(t)' BY <1>0, <1>3, <2>1 DEF TaskInv, Fresh
  <2>5. TaskInv(t)' BY <1>0, <2>3, <2>4 DEF TaskInv
  <2> QED BY <1>0, <2>1, <2>5, TaskUntouched DEF XInv
<1> QED BY <1>1, <1>2, <1>4, <1>5

\* The clock advances only while every started execution is in its executor: its lease and
\* the time its executor has left count down together.
LEMMA TimeKeeps ==
  ASSUME TypeOK, XInv, TimePasses PROVE XInv'
<1>0. UNCHANGED <<execution, claims, uncovered>> /\ ~Prompt BY DEF TimePasses
<1>1. /\ \A t \in Tasks : row'[t] = Aged(row[t])
      /\ \A t \in Tasks, n \in Claims :
           /\ job'[t][n].pc = job[t][n].pc
           /\ job'[t][n].left = IF job[t][n].pc = "executing" THEN job[t][n].left - 1
                                ELSE job[t][n].left
  BY TimeEffect
<1>2. \A t \in Tasks, n \in Claims : Started(t, n) => job[t][n].pc = "executing"
  BY <1>0 DEF Prompt, Started
<1>3. ASSUME NEW t \in Tasks PROVE TaskInv(t)'
  <2>0. TaskInv(t) /\ row[t] \in Row BY DEF XInv, TypeOK
  <2>1. /\ row'[t].status = row[t].status /\ row'[t].claim = row[t].claim
        /\ row'[t].lease = IF row[t].lease > 0 THEN row[t].lease - 1 ELSE row[t].lease
    BY <1>1, <2>0, AgedTypes
  <2>2. Exists(t)' <=> Exists(t) BY <2>1 DEF Exists
  <2>3. \A n \in Claims : Started(t, n)' <=> Started(t, n) BY <1>1 DEF Started
  <2>4. t \notin uncovered => Alone(t)' BY <2>0, <2>3 DEF TaskInv, Alone
  <2>5. Fresh(t)'
    <3>1. ~Exists(t) => row'[t].lease = NoLease
      BY <2>0, <2>1 DEF TaskInv, Fresh, NoLease
    <3> QED BY <1>0, <1>1, <2>0, <2>1, <2>2, <3>1 DEF TaskInv, Fresh
  <2>6. ASSUME t \notin uncovered PROVE Covered(t)'
    <3> SUFFICES ASSUME NEW n \in Claims, Started(t, n)
                 PROVE  /\ execution'[t][n] = "running"
                        /\ Exists(t) => row'[t].claim = n /\ job'[t][n].left < row'[t].lease
      BY <2>2, <2>3 DEF Covered
    <3>1. execution[t][n] = "running" BY <2>0, <2>6 DEF TaskInv, Covered
    <3>2. ASSUME Exists(t) PROVE row'[t].claim = n /\ job'[t][n].left < row'[t].lease
      <4>1. /\ row[t].lease \in Int /\ row[t].lease > 0 /\ job[t][n].left \in Nat
            /\ row[t].claim = n /\ job[t][n].left < row[t].lease
        BY <2>0, <2>6, <3>2, StartedIsHeld
      <4>2. job'[t][n].left = job[t][n].left - 1 /\ row'[t].lease = row[t].lease - 1
        BY <1>1, <1>2, <2>1, <4>1
      <4> QED BY <2>1, <4>1, <4>2
    <3> QED BY <1>0, <3>1, <3>2
  <2> QED BY <1>0, <2>4, <2>5, <2>6 DEF TaskInv
<1> QED BY <1>3 DEF XInv

LEMMA QuietKeeps ==
  ASSUME XInv, UNCHANGED <<row, execution, claims, job, uncovered>> PROVE XInv'
BY TaskUntouched DEF XInv

LEMMA StepKeeps == TypeOK /\ Named /\ XInv /\ [Next]_vars => XInv'
<1> SUFFICES ASSUME TypeOK, Named, XInv, [Next]_vars PROVE XInv' OBVIOUS
<1>0. Loop \in Actors /\ Clients \subseteq Actors BY Constants
<1>1. CASE LoopStep
  <2>1. CASE TickStart \/ OriginsRestored(Loop) \/ LoopRests
    BY <2>1, QuietKeeps DEF TickStart, OriginsRestored, LoopRests
  <2> QED BY <1>0, <1>1, <2>1, RecoverKeeps, DueKeeps, EditKeeps DEF LoopStep
<1>2. ASSUME NEW c \in Clients, ClientBegins(c) \/ ClientContinues(c) PROVE XInv'
  <2>0. c \in Actors BY <1>0
  <2>1. CASE ClientBegins(c)
    BY <2>1, QuietKeeps DEF ClientBegins, RunNowStart, EditReads
  <2>2. CASE RunNowChecks(c) \/ OriginsRestored(c)
    BY <2>2, QuietKeeps DEF RunNowChecks, OriginsRestored
  <2>3. CASE ClientContinues(c)
    BY <2>0, <2>2, <2>3, RecoverKeeps, NowKeeps, EditKeeps DEF ClientContinues
  <2> QED BY <1>2, <2>1, <2>3
<1>3. ASSUME NEW t \in Tasks, NEW n \in Claims,
             JobStep(t, n) \/ ExecutorEnds(t, n) \/ RunRaises(t, n)
      PROVE  XInv'
  BY <1>3, StartKeeps, EndedKeeps, OverKeeps DEF JobStep
<1>4. CASE \/ \E a \in Actors : CallRaises(a)
           \/ ProcessEnds(Server) \/ \E c \in CliClients : ProcessEnds({c})
  BY <1>4, EndKeeps
<1>5. CASE TimePasses BY <1>5, TimeKeeps
<1>6. CASE \E t \in Tasks : Create(t) \/ Pause(t) \/ Delete(t) \/ MarkSessionMissing(t)
  BY <1>6, ServiceKeeps
<1>7. CASE UNCHANGED vars BY <1>7, QuietKeeps DEF vars
<1> QED BY <1>1, <1>2, <1>3, <1>4, <1>5, <1>6, <1>7 DEF Next

LEMMA InitKeeps == Init => XInv
<1> SUFFICES ASSUME Init PROVE XInv OBVIOUS
<1>1. \A t \in Tasks : /\ row[t].status = "absent" /\ row[t].lease = NoLease /\ claims[t] = 0
                       /\ \A n \in Claims : execution[t][n] = "absent" /\ job[t][n].pc = "none"
  BY RowTypes, JobTypes DEF Init
<1>2. \A t \in Tasks : TaskInv(t)
  BY <1>1 DEF TaskInv, Covered, Alone, Fresh, Started
<1> QED BY <1>2 DEF XInv

\* The row of a task that is being executed carries the claim of the execution, under a
\* lease that outlasts the executor, from the start of the execution until its result is
\* recorded or the task deleted; so neither claim_due_tasks nor claim_task_for_run_now nor
\* recover_stale_executions touches it.  It needs nothing of the limits: it is true of
\* every task none of whose executions started with less lease than it may take, and
\* whose claims no older copy of the row has overwritten.
THEOREM LeasesCover == Spec => []XInv
<1>1. Init => TypeOK /\ Named /\ XInv BY InitTypes, InitKeeps
<1>2. TypeOK /\ Named /\ XInv /\ [Next]_vars => (TypeOK /\ Named /\ XInv)'
  BY StepTypes, StepKeeps
<1> QED BY <1>1, <1>2, PTL DEF Spec

\* A scheduled task whose leases cover its executions is never executed twice at the same
\* time, for any number of tasks, callers, processes and claims of a tick, and any limits.
THEOREM ExecutionsAreExclusive == Spec => []Exclusive
<1>1. XInv => Exclusive BY DEF XInv, TaskInv, Alone, Started, Exclusive, AtMostOnce
<1> QED BY <1>1, LeasesCover, PTL

\* A job that will report finds its execution not yet ended.
EndsOnce(S) ==
  \A t \in S, n \in Claims : Busy(t, n) => execution[t][n] \in {"absent", "running"}

\* The three calls that write scheduled_task_executions leave alone what has ended, if
\* the job that reports finds its execution absent or running.
LEMMA EndStep ==
  ASSUME TypeOK, [Next]_vars, NEW S \in SUBSET Tasks, EndsOnce(S)
  PROVE  \A t \in S, n \in Claims :
           execution[t][n] \notin {"absent", "running"} => execution'[t][n] = execution[t][n]
<1> DEFINE Stays == \A t \in S, n \in Claims :
             execution[t][n] \notin {"absent", "running"} => execution'[t][n] = execution[t][n]
<1>1. CASE execution' = execution BY <1>1
<1>2. CASE \E a \in Actors : PassRecovers(a)
  <2>1. RecoverStale BY <1>2 DEF PassRecovers
  <2> QED BY <2>1, RecoverTypes
<1>3. ASSUME NEW t \in Tasks, NEW n \in Claims, Start(t, n) \/ Finish(t, n) PROVE Stays
  <2>1. Busy(t, n) BY <1>3 DEF Start, MayStart, Finish, Busy
  <2>2. t \in S => execution[t][n] \in {"absent", "running"} BY <2>1 DEF EndsOnce
  <2>3. \/ execution' = execution
        \/ \E e \in ExecutionResult \union {"absent", "running", "recovered"} :
             Records(t, n, e)
    <3>1. job[t][n].result \in ExecutionResult BY DEF TypeOK, Job
    <3>2. CASE Start(t, n)
      <4>1. Records(t, n, "running") BY <3>2 DEF Start, Records
      <4> QED BY <4>1
    <3>3. CASE Finish(t, n)
      <4>1. \/ execution' = execution
            \/ Records(t, n, job[t][n].result)
        BY <3>3 DEF Finish, RecordCompleted, Records
      <4> QED BY <3>1, <4>1
    <3> QED BY <1>3, <3>2, <3>3
  <2> QED BY <2>2, <2>3, ExecutionTypes
<1>4. \/ execution' = execution \/ \E a \in Actors : PassRecovers(a)
      \/ \E t \in Tasks, n \in Claims : Start(t, n) \/ Finish(t, n)
  <2>1. Loop \in Actors /\ Clients \subseteq Actors BY Constants
  <2>2. LoopStep => execution' = execution \/ PassRecovers(Loop)
    BY DEF LoopStep, TickStart, RestoreOrigin, OriginsRestored, ClaimDue, LoopRests
  <2>3. \A c \in Clients : ClientBegins(c) \/ ClientContinues(c) =>
                             execution' = execution \/ PassRecovers(c)
    BY DEF ClientBegins, ClientContinues, RunNowStart, EditReads, RestoreOrigin, RunNowChecks,
           OriginsRestored, ClaimNow, EditWrites, ResumeActivates
  <2>4. \A t \in Tasks, n \in Claims : JobStep(t, n) \/ ExecutorEnds(t, n) \/ RunRaises(t, n) =>
          execution' = execution \/ Start(t, n) \/ Finish(t, n)
    BY DEF JobStep, ExecutorEnds, RunRaises, TimesOut, Deliver
  <2>5. (\E a \in Actors : CallRaises(a)) \/ ProcessEnds(Server)
          \/ (\E c \in CliClients : ProcessEnds({c})) \/ TimePasses => execution' = execution
    BY DEF CallRaises, ProcessEnds, TimePasses
  <2>6. \A t \in Tasks : Create(t) \/ Pause(t) \/ Delete(t) \/ MarkSessionMissing(t) =>
          execution' = execution
    BY DEF Create, Pause, Delete, MarkSessionMissing
  <2>7. UNCHANGED vars => execution' = execution BY DEF vars
  <2> QED BY <2>1, <2>2, <2>3, <2>4, <2>5, <2>6, <2>7 DEF Next
<1> QED BY <1>1, <1>2, <1>3, <1>4

\* For those tasks, what the history says of an execution that ended, or that
\* recover_stale_executions gave up, is never overwritten by a late
\* record_execution_completed.
THEOREM EndsAreFinal == Spec => CoveredEndStays
<1>1. XInv => EndsOnce(Tasks \ uncovered)
  BY DEF XInv, TaskInv, Covered, Fresh, Busy, Started, EndsOnce
<1>2. TypeOK /\ XInv /\ [Next]_vars =>
        [\A t \in Tasks \ uncovered, n \in Claims :
           execution[t][n] \notin {"absent", "running"} => execution'[t][n] = execution[t][n]]_vars
  <2> SUFFICES ASSUME TypeOK, XInv, [Next]_vars
               PROVE  \A t \in Tasks \ uncovered, n \in Claims :
                        execution[t][n] \notin {"absent", "running"} =>
                          execution'[t][n] = execution[t][n]
    OBVIOUS
  <2>1. PICK S \in SUBSET Tasks : S = Tasks \ uncovered OBVIOUS
  <2>2. EndsOnce(S) BY <1>1, <2>1 DEF EndsOnce
  <2> QED BY <2>1, <2>2, EndStep
<1> QED BY <1>2, TypeCorrect, LeasesCover, PTL DEF Spec, CoveredEndStays

-----------------------------------------------------------------------------
(* The loop alone: any limits, any edits, but no manual runs *)

\* Without run_now every claim is the loop's, which makes none and recovers nothing
\* before the last of its claims is over.
LoopOnly ==
  /\ \A c \in Clients : actor[c].pc \notin {"origins", "recover", "claim"}
  /\ \A t \in Tasks, n \in Claims :
       Live(t, n) => job[t][n].proc = Loop /\ actor[Loop].pc = "running"

\* One claim of a task is under way, its execution is on record, and the claims to
\* come have left no trace.
Single(t) ==
  /\ \A m, n \in Claims : Live(t, m) /\ Live(t, n) => m = n
  /\ \A n \in Claims : Busy(t, n) =>
       execution[t][n] = IF job[t][n].pc = "claimed" THEN "absent" ELSE "running"
  /\ \A n \in Claims : n > claims[t] => execution[t][n] = "absent" /\ job[t][n].pc = "none"

NInv == LoopOnly /\ \A t \in Tasks : Single(t)

\* Steps that change no claim: a client that ends up in a request of its own, or the
\* loop while it has nothing under way.
LEMMA AloneQuiet ==
  ASSUME NInv, UNCHANGED <<execution, claims, job>>,
         \A c \in Clients : actor'[c].pc \notin {"origins", "recover", "claim"},
         \/ actor'[Loop].pc = actor[Loop].pc
         \/ actor[Loop].pc # "running"
         \/ \A t \in Tasks, n \in Claims : ~(Live(t, n) /\ job[t][n].proc = Loop)
  PROVE  NInv'
<1>1. \A t \in Tasks : Single(t)' BY DEF NInv, Single, Live, Begun, Busy
<1>2. LoopOnly' BY DEF NInv, LoopOnly, Live, Begun
<1> QED BY <1>1, <1>2 DEF NInv

\* One actor moves on.
LEMMA AloneMoves ==
  ASSUME NInv, UNCHANGED <<execution, claims, job>>, NEW a \in Actors,
         \A b \in Actors \ {a} : actor'[b] = actor[b],
         a \in Clients => actor'[a].pc \notin {"origins", "recover", "claim"},
         a = Loop => actor[Loop].pc # "running"
  PROVE  NInv'
<1>1. \A c \in Clients : actor'[c].pc \notin {"origins", "recover", "claim"}
  BY Constants DEF NInv, LoopOnly
<1>2. a # Loop => actor'[Loop] = actor[Loop] BY Constants
<1> QED BY <1>1, <1>2, AloneQuiet

LEMMA AloneEdits ==
  ASSUME TypeOK, NInv, NEW a \in Actors,
         \/ a = Loop /\ \E m \in actor[a].missing : RestoreOrigin(a, m)
         \/ a \in Clients /\ \E t \in Tasks, op \in Requests : EditReads(a, op, t)
         \/ a \in Clients /\ EditWrites(a)
         \/ a \in Clients /\ ResumeActivates(a)
  PROVE  NInv'
<1>0. actor[a] \in Actor /\ Idle(a).pc = "idle" /\ Raised(a).pc \in {"idle", "dead"}
      /\ Idle(a) \in Actor
  BY ActorTypes DEF TypeOK
<1>1. UNCHANGED <<execution, claims, job>>
  BY DEF RestoreOrigin, EditReads, EditWrites, ResumeActivates
<1>2. \E next : actor' = [actor EXCEPT ![a] = next]
                /\ (a \in Clients => next.pc \notin {"origins", "recover", "claim"})
  <2>1. CASE a = Loop /\ \E m \in actor[a].missing : RestoreOrigin(a, m)
    BY <2>1, Constants DEF RestoreOrigin, WriteBack
  <2>2. ASSUME NEW t \in Tasks, NEW op \in Requests, EditReads(a, op, t)
        PROVE  \E next : /\ actor' = [actor EXCEPT ![a] = next]
                         /\ next.pc \notin {"origins", "recover", "claim"}
    <3> DEFINE next == [Idle(a) EXCEPT !.pc = "write", !.op = op, !.task = t, !.row = row[t]]
    <3>1. actor' = [actor EXCEPT ![a] = next] BY <2>2 DEF EditReads
    <3>2. next.pc = "write" BY <1>0 DEF Actor
    <3> HIDE DEF next
    <3> QED BY <3>1, <3>2
  <2>3. CASE EditWrites(a)
    <3> DEFINE goes == [actor[a] EXCEPT !.pc = "activate", !.row = NoRow]
               next == IF actor[a].op = "resume" THEN goes ELSE Idle(a)
    <3>1. actor' = [actor EXCEPT ![a] = next] \/ actor' = [actor EXCEPT ![a] = Raised(a)]
      BY <2>3 DEF EditWrites, WriteBack
    <3>2. goes.pc = "activate" BY <1>0 DEF Actor
    <3> HIDE DEF goes
    <3>3. next.pc \in {"activate", "idle"} BY <1>0, <3>2
    <3> HIDE DEF next
    <3> QED BY <1>0, <3>1, <3>3
  <2>4. CASE ResumeActivates(a)
    <3>1. actor' = [actor EXCEPT ![a] = Idle(a)] BY <2>4 DEF ResumeActivates
    <3> QED BY <1>0, <3>1
  <2> QED BY <2>1, <2>2, <2>3, <2>4
<1>3. /\ \A b \in Actors \ {a} : actor'[b] = actor[b]
      /\ a \in Clients => actor'[a].pc \notin {"origins", "recover", "claim"}
  BY <1>2 DEF TypeOK
<1>4. a = Loop => actor[Loop].pc # "running" BY Constants DEF RestoreOrigin
<1> QED BY <1>1, <1>3, <1>4, AloneMoves

LEMMA AloneRecovers ==
  ASSUME TypeOK, NInv, PassRecovers(Loop) PROVE NInv'
<1>0. /\ RecoverStale /\ actor' = [actor EXCEPT ![Loop].pc = "claim"] /\ UNCHANGED <<claims, job>>
      /\ actor[Loop].pc = "recover"
  BY DEF PassRecovers
<1>1. \A b \in Actors \ {Loop} : actor'[b] = actor[b] BY <1>0, PcTypes, Constants
<1>2. \A t \in Tasks, n \in Claims : ~Live(t, n) /\ ~Live(t, n)' /\ ~Busy(t, n)'
  BY <1>0 DEF NInv, LoopOnly, Live, Begun, Busy
<1>3. \A t \in Tasks, n \in Claims : execution[t][n] = "absent" => execution'[t][n] = "absent"
  BY <1>0, RecoverTypes
<1>4. \A t \in Tasks : Single(t)' BY <1>0, <1>2, <1>3 DEF NInv, Single
<1>5. LoopOnly' BY <1>1, <1>2, Constants DEF NInv, LoopOnly
<1> QED BY <1>4, <1>5 DEF NInv

LEMMA AloneClaims ==
  ASSUME TypeOK, NInv, ClaimDue PROVE NInv'
<1>0. /\ actor' = [actor EXCEPT ![Loop].pc = "running"] /\ actor[Loop].pc = "claim"
      /\ execution' = execution
  BY DEF ClaimDue
<1>1. actor'[Loop].pc = "running" /\ \A b \in Actors \ {Loop} : actor'[b] = actor[b]
  BY <1>0, PcTypes, Constants
<1>2. \A t \in Tasks, n \in Claims : ~Live(t, n)
  BY <1>0 DEF NInv, LoopOnly
<1>3. PICK S \in SUBSET {t \in Tasks : Due(t) /\ claims[t] < MaxClaims} :
           /\ \A t \in Tasks \ S : claims'[t] = claims[t] /\ job'[t] = job[t]
           /\ \A t \in S : /\ claims'[t] = claims[t] + 1
                           /\ job'[t] = [job[t] EXCEPT ![claims[t] + 1] = ClaimedJob(t, Loop)]
  BY DueClaimed
<1>4. ASSUME NEW t \in Tasks
      PROVE  /\ Single(t)'
             /\ \A n \in Claims : Live(t, n)' => job'[t][n].proc = Loop
  <2>0. Single(t) BY DEF NInv
  <2>1. CASE t \notin S
    BY <1>0, <1>2, <1>3, <2>0, <2>1 DEF Single, Live, Begun, Busy
  <2>2. CASE t \in S
    <3> DEFINE k == claims[t] + 1
    <3>0. job[t] \in [Claims -> Job] /\ claims[t] \in Nat /\ claims[t] < MaxClaims
          /\ Missed \in Missed..Period
      BY <2>2, Constants DEF TypeOK, Missed
    <3>1. k \in Claims /\ ClaimedJob(t, Loop).pc = "claimed" /\ ClaimedJob(t, Loop).proc = Loop
      BY <3>0, ClaimTypes, Constants
    <3>2. /\ job'[t][k] = ClaimedJob(t, Loop) /\ \A n \in Claims \ {k} : job'[t][n] = job[t][n]
      BY <1>3, <2>2, <3>0, <3>1
    <3>3. Claims \subseteq Nat /\ k > claims[t] /\ claims'[t] = k
      <4>1. claims'[t] = k BY <1>3, <2>2
      <4>2. Claims \subseteq Nat BY DEF Claims
      <4>3. \A x \in Nat : x + 1 > x OBVIOUS
      <4> QED BY <3>0, <4>1, <4>2, <4>3
    <3>4. \A n \in Claims : (Live(t, n)' => n = k) /\ (Busy(t, n)' => n = k)
      BY <1>2, <3>2 DEF Live, Begun, Busy
    <3>5. execution'[t][k] = "absent" BY <1>0, <2>0, <3>1, <3>3 DEF Single
    <3>6. \A n \in Claims : n > claims'[t] => n > claims[t] /\ n # k
      <4>1. \A x, y \in Nat : x > y + 1 => x > y /\ x # y + 1 OBVIOUS
      <4> QED BY <3>0, <3>3, <4>1
    <3> HIDE DEF k
    <3>7. Single(t)' BY <1>0, <2>0, <3>1, <3>2, <3>4, <3>5, <3>6 DEF Single
    <3> QED BY <3>1, <3>2, <3>4, <3>7
  <2> QED BY <2>1, <2>2
<1>5. LoopOnly' BY <1>1, <1>4, Constants DEF NInv, LoopOnly
<1> QED BY <1>4, <1>5 DEF NInv

\* One claim of the loop moves.
LEMMA AloneJob ==
  ASSUME TypeOK, NInv, NEW t \in Tasks, NEW n \in Claims,
         \/ Start(t, n) \/ ExecutorEnds(t, n) \/ TimesOut(t, n) \/ Finish(t, n)
         \/ Deliver(t, n) \/ RunRaises(t, n)
  PROVE  NInv'
<1>0. UNCHANGED <<claims, actor>> /\ Live(t, n)
  BY DEF Start, MayStart, ExecutorEnds, TimesOut, Finish, Deliver, RunRaises, Live, Begun
<1>1. PICK j \in Job : /\ Moves(t, n, j)
                       /\ \/ j.pc = "gone"
                          \/ j.pc = "delivering" /\ j.proc = job[t][n].proc
                          \/ j.pc \in {"executing", "finishing"} /\ j.proc = job[t][n].proc
                             /\ ~Finish(t, n) /\ ~Deliver(t, n) /\ ~RunRaises(t, n)
  <2>1. CASE Finish(t, n) \/ Deliver(t, n) \/ RunRaises(t, n) BY <2>1, OverJob
  <2>2. CASE ~(Finish(t, n) \/ Deliver(t, n) \/ RunRaises(t, n))
    BY <2>2, StartedJob, EndedJob
  <2> QED BY <2>1, <2>2
<1>2. /\ job'[t][n] = j /\ \A m \in Claims \ {n} : job'[t][m] = job[t][m]
      /\ \A u \in Tasks \ {t} : job'[u] = job[u]
  BY <1>1, JobStepTypes
<1>3. /\ \A m \in Claims \ {n} : execution'[t][m] = execution[t][m]
      /\ \A u \in Tasks \ {t} : execution'[u] = execution[u]
      /\ Start(t, n) => execution'[t][n] = "running"
  <2>1. \/ execution' = execution /\ ~Start(t, n)
        \/ Start(t, n) /\ Records(t, n, "running")
        \/ Finish(t, n) /\ Records(t, n, job[t][n].result)
    <3>1. CASE Start(t, n) BY <3>1 DEF Start, Records
    <3>2. CASE ~Start(t, n)
      BY <3>2 DEF ExecutorEnds, TimesOut, Finish, RecordCompleted, Deliver, RunRaises, Records
    <3> QED BY <3>1, <3>2
  <2>2. job[t][n].result \in ExecutionResult BY DEF TypeOK, Job
  <2>3. "running" \in ExecutionResult \union {"absent", "running", "recovered"} OBVIOUS
  <2>4. Finish(t, n) => ~Start(t, n) BY DEF Finish, Start, MayStart
  <2> QED BY <2>1, <2>2, <2>3, <2>4, ExecutionTypes
<1>4. Single(t) BY DEF NInv
<1>5. \A u \in Tasks, m \in Claims : Live(u, m)' =>
        Live(u, m) /\ job'[u][m].proc = job[u][m].proc
  BY <1>0, <1>1, <1>2 DEF Live, Begun
<1>6. Single(t)'
  <2>1. \A m \in Claims : Live(t, m) => m = n BY <1>0, <1>4 DEF Single
  <2>2. \A m \in Claims : Busy(t, m)' => m = n BY <1>5, <2>1 DEF Busy, Live, Begun
  <2>3. Busy(t, n)' => execution'[t][n] = "running" /\ j.pc # "claimed"
    <3>1. SUFFICES ASSUME Busy(t, n)' PROVE execution'[t][n] = "running" /\ j.pc # "claimed"
      OBVIOUS
    <3>2. j.pc \in {"executing", "finishing"} /\ ~Finish(t, n) /\ ~Deliver(t, n) /\ ~RunRaises(t, n)
      BY <1>1, <1>2, <3>1 DEF Busy
    <3>3. CASE Start(t, n) BY <1>3, <3>2, <3>3
    <3>4. CASE ExecutorEnds(t, n) \/ TimesOut(t, n)
      BY <1>4, <3>2, <3>4 DEF ExecutorEnds, TimesOut, Single, Busy
    <3> QED BY <3>2, <3>3, <3>4
  <2>4. ~(n > claims[t]) BY <1>0, <1>4 DEF Single, Live, Begun
  <2>5. \A m \in Claims : m > claims'[t] => execution'[t][m] = "absent" /\ job'[t][m].pc = "none"
    BY <1>0, <1>2, <1>3, <1>4, <2>4 DEF Single
  <2>6. \A m, k \in Claims : Live(t, m)' /\ Live(t, k)' => m = k BY <1>5, <2>1
  <2> QED BY <1>2, <2>2, <2>3, <2>5, <2>6 DEF Single
<1>7. \A u \in Tasks \ {t} : Single(u)'
  BY <1>0, <1>2, <1>3 DEF NInv, Single, Live, Begun, Busy
<1>8. LoopOnly' BY <1>0, <1>5 DEF NInv, LoopOnly
<1> QED BY <1>6, <1>7, <1>8 DEF NInv

LEMMA AloneGone ==
  ASSUME TypeOK, NInv, NEW P, job' = GoneJobs(P), UNCHANGED <<execution, claims>>,
         Loop \notin P => actor'[Loop] = actor[Loop],
         \A c \in Clients : actor'[c].pc \notin {"origins", "recover", "claim"}
  PROVE  NInv'
<1>1. \A t \in Tasks, n \in Claims :
        \/ job'[t][n] = job[t][n] /\ ~(Live(t, n) /\ job[t][n].proc \in P)
        \/ job'[t][n].pc = "gone"
  BY GoneTypes
<1>2. \A t \in Tasks, n \in Claims : job[t][n].pc = "none" => job'[t][n].pc = "none"
  BY JobTypes DEF GoneJobs, Live, Begun
<1>3. \A t \in Tasks, n \in Claims :
        /\ Live(t, n)' => Live(t, n) /\ job'[t][n] = job[t][n] /\ job[t][n].proc \notin P
        /\ Busy(t, n)' => Busy(t, n) /\ job'[t][n] = job[t][n]
  BY <1>1 DEF Live, Begun, Busy
<1>4. \A t \in Tasks : Single(t)' BY <1>2, <1>3 DEF NInv, Single
<1>5. LoopOnly' BY <1>3 DEF NInv, LoopOnly
<1> QED BY <1>4, <1>5 DEF NInv

LEMMA AloneEnds ==
  ASSUME TypeOK, Named, NInv, (\E a \in Actors : CallRaises(a)) \/ (\E P : ProcessEnds(P))
  PROVE  NInv'
<1>0. \A c \in Clients : c \in Actors /\ actor[c].pc \notin {"origins", "recover", "claim"}
  BY Constants DEF NInv, LoopOnly
<1>1. ASSUME NEW a \in Actors, CallRaises(a) PROVE NInv'
  <2>1. actor' = [actor EXCEPT ![a] = Raised(a)] /\ UNCHANGED <<execution, claims>>
    BY <1>1 DEF CallRaises
  <2>2. actor'[a] = Raised(a) /\ \A b \in Actors \ {a} : actor'[b] = actor[b]
    BY <2>1, DoneTypes
  <2>3. \A c \in Clients : actor'[c].pc \notin {"origins", "recover", "claim"}
    BY <1>0, <2>2, ActorTypes
  <2>4. Loop \notin {a} \intersect {Loop} => actor'[Loop] = actor[Loop] BY <2>2, Constants
  <2> QED BY <1>1, <2>1, <2>3, <2>4, RaisedJobs, AloneGone
<1>2. ASSUME NEW P, ProcessEnds(P) PROVE NInv'
  <2>1. /\ UNCHANGED <<execution, claims>>
        /\ actor' = [a \in Actors |-> IF a \in P THEN Idle(a) ELSE actor[a]]
        /\ job' = GoneJobs(P)
    BY <1>2 DEF ProcessEnds, GoneJobs
  <2>2. \A c \in Clients : actor'[c].pc \notin {"origins", "recover", "claim"}
    BY <1>0, <2>1, ActorTypes
  <2>3. Loop \notin P => actor'[Loop] = actor[Loop] BY <2>1, Constants
  <2> QED BY <2>1, <2>2, <2>3, AloneGone
<1> QED BY <1>1, <1>2

LEMMA AloneTime ==
  ASSUME TypeOK, NInv, TimePasses PROVE NInv'
<1>0. /\ actor' = [actor EXCEPT ![Loop].pc = IF @ = "resting" THEN "idle" ELSE @]
      /\ UNCHANGED <<execution, claims>>
  BY DEF TimePasses
<1>1. \A t \in Tasks, n \in Claims : job'[t][n].pc = job[t][n].pc /\ job'[t][n].proc = job[t][n].proc
  BY TimeEffect
<1>2. /\ actor[Loop].pc = "running" => actor'[Loop].pc = "running"
      /\ \A b \in Actors \ {Loop} : actor'[b] = actor[b]
  BY <1>0, Constants DEF TypeOK, Actor
<1>3. \A t \in Tasks : Single(t)' BY <1>0, <1>1 DEF NInv, Single, Live, Begun, Busy
<1>4. LoopOnly' BY <1>1, <1>2, Constants DEF NInv, LoopOnly, Live, Begun
<1> QED BY <1>3, <1>4 DEF NInv

LEMMA AloneStep ==
  "run_now" \notin Requests => (TypeOK /\ Named /\ NInv /\ [Next]_vars => NInv')
<1> SUFFICES ASSUME "run_now" \notin Requests, TypeOK, Named, NInv, [Next]_vars PROVE NInv'
  OBVIOUS
<1>0. Loop \in Actors /\ Clients \subseteq Actors /\ Loop \notin Clients
  BY Constants, ScheduleAssumption
<1>1. CASE LoopStep
  <2>1. CASE TickStart
    <3>1. PassBegins(Loop, "tick", NoTask) /\ UNCHANGED <<execution, claims, job>>
          /\ actor[Loop].pc = "idle"
      BY <2>1 DEF TickStart
    <3>2. \A b \in Actors \ {Loop} : actor'[b] = actor[b] BY <1>0, <3>1, PassTypes
    <3> QED BY <1>0, <3>1, <3>2, AloneMoves
  <2>2. CASE OriginsRestored(Loop)
    <3>1. actor' = [actor EXCEPT ![Loop].pc = "recover"] /\ UNCHANGED <<execution, claims, job>>
          /\ actor[Loop].pc = "origins"
      BY <2>2 DEF OriginsRestored
    <3>2. \A b \in Actors \ {Loop} : actor'[b] = actor[b] BY <1>0, <3>1, PcTypes
    <3> QED BY <1>0, <3>1, <3>2, AloneMoves
  <2>3. CASE LoopRests
    <3>1. /\ actor' = [actor EXCEPT ![Loop].pc = "resting"] /\ UNCHANGED <<execution, claims, job>>
          /\ \A t \in Tasks, n \in Claims : ~(Live(t, n) /\ job[t][n].proc = Loop)
      BY <2>3 DEF LoopRests
    <3>2. \A b \in Actors \ {Loop} : actor'[b] = actor[b] BY <1>0, <3>1, PcTypes
    <3>3. \A c \in Clients : actor'[c].pc \notin {"origins", "recover", "claim"}
      BY <1>0, <3>2 DEF NInv, LoopOnly
    <3> QED BY <3>1, <3>3, AloneQuiet
  <2>4. CASE \E m \in actor[Loop].missing : RestoreOrigin(Loop, m) BY <1>0, <2>4, AloneEdits
  <2> QED BY <1>1, <2>1, <2>2, <2>3, <2>4, AloneRecovers, AloneClaims DEF LoopStep
<1>2. ASSUME NEW c \in Clients, ClientBegins(c) \/ ClientContinues(c) PROVE NInv'
  <2>1. c \in Actors /\ actor[c].pc \notin {"origins", "recover", "claim"}
    BY <1>0 DEF NInv, LoopOnly
  <2>2. \/ \E t \in Tasks, op \in Requests : EditReads(c, op, t)
        \/ EditWrites(c) \/ ResumeActivates(c)
    BY <1>2, <2>1 DEF ClientBegins, ClientContinues, RunNowStart, RestoreOrigin, RunNowChecks,
                      OriginsRestored, PassRecovers, ClaimNow
  <2> QED BY <2>1, <2>2, AloneEdits
<1>3. ASSUME NEW t \in Tasks, NEW n \in Claims,
             JobStep(t, n) \/ ExecutorEnds(t, n) \/ RunRaises(t, n)
      PROVE  NInv'
  BY <1>3, AloneJob DEF JobStep
<1>4. CASE \/ \E a \in Actors : CallRaises(a)
           \/ ProcessEnds(Server) \/ \E c \in CliClients : ProcessEnds({c})
  BY <1>4, AloneEnds
<1>5. CASE TimePasses BY <1>5, AloneTime
<1>6. CASE UNCHANGED <<execution, claims, job, actor>>
  BY <1>6, AloneQuiet DEF NInv, LoopOnly
<1>7. \A t \in Tasks : Create(t) \/ Pause(t) \/ Delete(t) \/ MarkSessionMissing(t) =>
        UNCHANGED <<execution, claims, job, actor>>
  BY DEF Create, Pause, Delete, MarkSessionMissing
<1>8. UNCHANGED vars => UNCHANGED <<execution, claims, job, actor>> BY DEF vars
<1> QED BY <1>1, <1>2, <1>3, <1>4, <1>5, <1>6, <1>7, <1>8 DEF Next

LEMMA AloneHolds == "run_now" \notin Requests => (Spec => []NInv)
<1> SUFFICES ASSUME "run_now" \notin Requests PROVE Spec => []NInv OBVIOUS
<1>1. Init => NInv
  <2> SUFFICES ASSUME Init PROVE NInv OBVIOUS
  <2>1. \A t \in Tasks, n \in Claims : execution[t][n] = "absent" /\ job[t][n].pc = "none"
    BY JobTypes DEF Init
  <2>2. \A a \in Actors : actor[a].pc = "idle" BY ActorTypes DEF Init
  <2> QED BY <2>1, <2>2, Constants DEF NInv, LoopOnly, Single, Live, Begun, Busy
<1>2. TypeOK /\ Named /\ NInv /\ [Next]_vars => (TypeOK /\ Named /\ NInv)'
  BY StepTypes, AloneStep
<1> QED BY <1>1, <1>2, InitTypes, PTL DEF Spec

\* Where nobody asks for a manual run, the loop alone executes no task twice at the same
\* time: for any lease and timeout, any number of tasks claimed in one tick, and whatever
\* rows edits, resumes and restored sessions write back.
THEOREM LoopIsExclusive ==
  "run_now" \notin Requests => (Spec => [](\A t \in Tasks : AtMostOnce(t)))
<1> SUFFICES ASSUME "run_now" \notin Requests
             PROVE  Spec => [](\A t \in Tasks : AtMostOnce(t))
  OBVIOUS
<1>1. NInv => \A t \in Tasks : AtMostOnce(t) BY DEF NInv, Single, Live, Begun, AtMostOnce
<1> QED BY <1>1, AloneHolds, PTL

\* Nor is the end of an execution ever overwritten then: the recovery of a tick runs when
\* no claim is left to report.
THEOREM LoopEndsAreFinal == "run_now" \notin Requests => (Spec => EndedStays)
<1> SUFFICES ASSUME "run_now" \notin Requests PROVE Spec => EndedStays OBVIOUS
<1>1. NInv => EndsOnce(Tasks) BY DEF NInv, Single, EndsOnce
<1>2. TypeOK /\ NInv /\ [Next]_vars =>
        [\A t \in Tasks, n \in Claims :
           execution[t][n] \notin {"absent", "running"} => execution'[t][n] = execution[t][n]]_vars
  BY <1>1, EndStep
<1> QED BY <1>2, TypeCorrect, AloneHolds, PTL DEF Spec, EndedStays

=============================================================================

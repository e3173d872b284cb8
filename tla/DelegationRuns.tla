--------------------------- MODULE DelegationRuns ---------------------------
(***************************************************************************)
(* A delegation hands an instruction to each of its members, runs them as   *)
(* child agents and joins their results.  The registry (SQLite) is the      *)
(* state; DelegationRunService.tick drives it, from the background loop of  *)
(* the server and, without a pause, from every delegate call that waits.    *)
(*                                                                         *)
(* A registry call is one transaction in a worker thread, so tickers        *)
(* interleave between any two of them, and the members of one tick run      *)
(* concurrently.  Members are identified by delegation and ordinal.         *)
(***************************************************************************)
EXTENDS Naturals, FiniteSets

CONSTANTS
  Delegations,
  Ordinals,      \* the members of each delegation
  BestEffort,    \* the delegations joined by best_effort; the others need all
  Callers,       \* delegate calls
  Loop,          \* the background loop
  MaxTicks,      \* _MAX_TICKS of _drive_to_terminal
  MaxFaults      \* bound: calls that raise, lost tickers, leases outlived, uses of the switch

ASSUME DelegationConstants ==
  /\ BestEffort \subseteq Delegations
  /\ Ordinals # {}
  /\ Loop \notin Callers
  /\ MaxTicks \in Nat
  /\ MaxFaults \in Nat

Members == Delegations \X Ordinals
Tickers == Callers \union {Loop}

VARIABLES
  \* the database
  status,     \* of each delegation
  overdue,    \* delegations whose deadline_at has passed
  outbox,     \* the cancel_outbox entry of a delegation
  mstatus,    \* of each member
  version,    \* of each member
  lapsed,     \* members whose claim_expires_at has passed
  result,     \* the adopted result of a member
  \* the process
  kill,       \* _kill_switch
  pc,         \* the registry call a ticker makes next
  seen,       \* its list: the status each delegation had when listed
  verdict,    \* the result set it read
  worker,     \* its _claim_and_run of each member
  call,       \* the delegate call of a caller
  asked,      \* the user's request to cancel a delegation
  faults

tableVars == <<status, overdue, outbox, mstatus, version, lapsed, result>>
tickVars == <<pc, seen, verdict>>
vars == <<tableVars, tickVars, kill, worker, call, asked, faults>>

-----------------------------------------------------------------------------
(* Values *)

TerminalStates == {"succeeded", "failed", "cancelled", "expired"}
ActiveStates == {"pending", "running", "joining", "cancelling"}
MemberTerminal == {"succeeded", "failed", "cancelled"}
None == "none"

Places == {"idle", "check", "read", "expire", "stale", "outbox", "deliver", "confirm", "ack",
           "claim", "inspect", "request", "withdraw", "gather", "join", "members",
           "settle_cancel", "advance", "evaluate", "settle"}
Steps == {None, "listed", "claimed", "started", "abandoning", "executing", "returned"}
Outcome == {"succeeded", "failed", "no_result", "timeout", "missing", "raised"}

NoWorker == [step |-> None, version |-> 0]
NoResult == [status |-> None, version |-> 0]
NoCall == [on |-> None, ticks |-> 0, outcome |-> None]

\* Rows and locals keep their types; only a running member has a lease to outlive.
TypeOK ==
  /\ status \in [Delegations -> ActiveStates \union TerminalStates \union {"absent", "deleted"}]
  /\ overdue \in SUBSET Delegations
  /\ outbox \in [Delegations -> {None, "pending", "acked"}]
  /\ mstatus \in [Members -> MemberTerminal \union {"pending", "running", "absent"}]
  /\ version \in [Members -> Nat]
  /\ lapsed \in SUBSET {m \in Members : mstatus[m] = "running"}
  /\ result \in [Members -> [status : MemberTerminal \union {None}, version : Nat]]
  /\ kill \in BOOLEAN
  /\ pc \in [Tickers -> Places]
  /\ seen \in [Tickers -> [Delegations -> ActiveStates \union TerminalStates \union {None}]]
  /\ verdict \in [Tickers -> {None, "succeeded", "failed"}]
  /\ worker \in [Tickers -> [Members -> [step : Steps, version : Nat]]]
  /\ call \in [Callers -> [on : Delegations \union {None}, ticks : 0..MaxTicks,
                           outcome : Outcome \union {None}]]
  /\ asked \in [Delegations -> {None, "checked", "taken", "late"}]
  /\ faults \in 0..MaxFaults

NothingSeen == [d \in Delegations |-> None]
NoWorkers == [m \in Members |-> NoWorker]

Init ==
  /\ status = [d \in Delegations |-> "absent"]
  /\ overdue = {}
  /\ outbox = [d \in Delegations |-> None]
  /\ mstatus = [m \in Members |-> "absent"]
  /\ version = [m \in Members |-> 0]
  /\ lapsed = {}
  /\ result = [m \in Members |-> NoResult]
  /\ kill = FALSE
  /\ pc = [t \in Tickers |-> "idle"]
  /\ seen = [t \in Tickers |-> NothingSeen]
  /\ verdict = [t \in Tickers |-> None]
  /\ worker = [t \in Tickers |-> NoWorkers]
  /\ call = [c \in Callers |-> NoCall]
  /\ asked = [d \in Delegations |-> None]
  /\ faults = 0

-----------------------------------------------------------------------------
(* The registry *)

MembersOf(d) == {d} \X Ordinals

Finished_NotRunning(m) == mstatus[m] # "running"
Finished(m) == mstatus[m] \in MemberTerminal
AllTerminal(d) == \A m \in MembersOf(d) : Finished(m)

\* evaluate_join_outcome over the members' results, as get_result_set calls it
Join(d) ==
  LET done == {m \in MembersOf(d) : mstatus[m] = "succeeded"}
      enough == IF d \in BestEffort THEN done # {} ELSE done = MembersOf(d) IN
  IF enough THEN "succeeded" ELSE "failed"

\* get_result_set: None unless the delegation exists and every member is terminal
ResultSet(d) ==
  IF status[d] \in ActiveStates \union TerminalStates /\ AllTerminal(d) THEN Join(d) ELSE None

\* cancel_pending_members: every member that is not terminal, the running ones too
CancelMembers(d) ==
  LET hit == {m \in MembersOf(d) : mstatus[m] \in {"pending", "running"}} IN
  /\ mstatus' = [m \in Members |-> IF m \in hit THEN "cancelled" ELSE mstatus[m]]
  /\ version' = [m \in Members |-> IF m \in hit THEN version[m] + 1 ELSE version[m]]
  /\ lapsed' = lapsed \ hit

\* request_cancel: a terminal or an already cancelling delegation is left alone
RequestCancel(d) ==
  LET applies == status[d] \in ActiveStates \ {"cancelling"} IN
  /\ status' = IF applies THEN [status EXCEPT ![d] = "cancelling"] ELSE status
  /\ outbox' = IF applies THEN [outbox EXCEPT ![d] = "pending"] ELSE outbox

FinalizeCancelled(d) ==
  status' = IF status[d] = "cancelling" /\ AllTerminal(d)
            THEN [status EXCEPT ![d] = "cancelled"] ELSE status

\* mark_expired_delegations
Outdated_AnyStatus(d) == d \in overdue /\ status[d] \notin {"absent", "deleted"}
Outdated(d) == d \in overdue /\ status[d] \in ActiveStates

\* mark_stale_members: back to pending, without lock and lease
Lapsed(m) == mstatus[m] = "running" /\ m \in lapsed
Reclaimed_KeepsLease ==
  /\ mstatus' = [m \in Members |-> IF Lapsed(m) THEN "pending" ELSE mstatus[m]]
  /\ version' = [m \in Members |-> IF Lapsed(m) THEN version[m] + 1 ELSE version[m]]
  /\ UNCHANGED lapsed
Reclaimed ==
  /\ mstatus' = [m \in Members |-> IF Lapsed(m) THEN "pending" ELSE mstatus[m]]
  /\ version' = [m \in Members |-> IF Lapsed(m) THEN version[m] + 1 ELSE version[m]]
  /\ lapsed' = {m \in lapsed : ~Lapsed(m)}

\* The condition of finish_member.  The claim lock is run-<member id> in every claim:
\* what tells one claim from the next is the version.
Owns_LockOnly(t, m) == mstatus[m] = "running"
Owns(t, m) == mstatus[m] = "running" /\ version[m] = worker[t][m].version

\* finalize_result_set: only a delegation that is joining takes the verdict
Joinable_Active(d) == status[d] \in {"joining", "cancelling"}
Joinable(d) == status[d] = "joining"

\* list_active_delegations
Listed_BeforeJoin == {"pending", "running", "cancelling"}
Listed == ActiveStates

-----------------------------------------------------------------------------
(* delegate and the two drivers *)

\* create_or_reconnect: the key finds the delegation of an earlier call, or creates it.
Delegate(c, d) ==
  /\ call[c] = NoCall /\ pc[c] = "idle"
  /\ status[d] # "deleted"
  /\ \/ /\ status[d] = "absent"
        /\ status' = [status EXCEPT ![d] = "pending"]
        /\ mstatus' = [m \in Members |-> IF m \in MembersOf(d) THEN "pending" ELSE mstatus[m]]
        /\ version' = [m \in Members |-> IF m \in MembersOf(d) THEN 1 ELSE version[m]]
     \/ /\ status[d] # "absent"
        /\ UNCHANGED <<status, mstatus, version>>
  /\ call' = [call EXCEPT ![c].on = d]
  /\ pc' = [pc EXCEPT ![c] = "check"]
  /\ UNCHANGED <<overdue, outbox, lapsed, result, seen, verdict, kill, worker, asked, faults>>

\* The call is over; its ticker with it.
Answer(c, outcome) ==
  /\ call' = [call EXCEPT ![c].outcome = outcome]
  /\ pc' = [pc EXCEPT ![c] = "idle"]

\* _drive_to_terminal: read the delegation, then tick, at most _MAX_TICKS times
Drive(c) ==
  LET d == call[c].on IN
  /\ pc[c] = "check"
  /\ \/ /\ call[c].ticks = MaxTicks
        /\ Answer(c, "timeout")
     \/ /\ call[c].ticks < MaxTicks /\ status[d] = "deleted"
        /\ Answer(c, "missing")
     \/ /\ call[c].ticks < MaxTicks /\ status[d] \in TerminalStates
        /\ pc' = [pc EXCEPT ![c] = "read"]
        /\ UNCHANGED call
     \/ /\ call[c].ticks < MaxTicks /\ status[d] \in ActiveStates
        /\ pc' = [pc EXCEPT ![c] = "expire"]
        /\ call' = [call EXCEPT ![c].ticks = @ + 1]
  /\ UNCHANGED <<tableVars, seen, verdict, kill, worker, asked, faults>>

ReadResult(c) ==
  /\ pc[c] = "read"
  /\ Answer(c, IF ResultSet(call[c].on) = None THEN "no_result" ELSE ResultSet(call[c].on))
  /\ UNCHANGED <<tableVars, seen, verdict, kill, worker, asked, faults>>

\* The loop wakes up.
Wake ==
  /\ pc[Loop] = "idle"
  /\ pc' = [pc EXCEPT ![Loop] = "expire"]
  /\ UNCHANGED <<tableVars, seen, verdict, kill, worker, call, asked, faults>>

-----------------------------------------------------------------------------
(* tick, one registry call after another *)

Goto(t, place) == pc' = [pc EXCEPT ![t] = place]

\* The first delegation of the list a ticker works on.
Current(t) == CHOOSE d \in Delegations : seen[t][d] # None

\* On with the next of the list, or to the place after it.
Advance(t, place, after) ==
  LET rest == [seen[t] EXCEPT ![Current(t)] = None] IN
  /\ seen' = [seen EXCEPT ![t] = rest]
  /\ Goto(t, IF rest = NothingSeen THEN after ELSE place)

\* The list is read: these delegations, with the status they have now.
List(t, S, place, after) ==
  /\ seen' = [seen EXCEPT ![t] = [d \in Delegations |-> IF d \in S THEN status[d] ELSE None]]
  /\ Goto(t, IF S = {} THEN after ELSE place)

Rest(t) == IF t = Loop THEN "idle" ELSE "check"

MarkExpired(t) ==
  /\ pc[t] = "expire"
  /\ status' = [d \in Delegations |-> IF Outdated(d) THEN "expired" ELSE status[d]]
  /\ Goto(t, "stale")
  /\ UNCHANGED <<overdue, outbox, mstatus, version, lapsed, result, seen, verdict, kill,
                 worker, call, asked, faults>>

MarkStale(t) ==
  /\ pc[t] = "stale"
  /\ Reclaimed
  /\ Goto(t, "outbox")
  /\ UNCHANGED <<status, overdue, outbox, result, seen, verdict, kill, worker, call, asked, faults>>

ListOutbox(t) ==
  /\ pc[t] = "outbox"
  /\ List(t, {d \in Delegations : outbox[d] = "pending" /\ status[d] # "deleted"},
          "deliver", "claim")
  /\ UNCHANGED <<tableVars, verdict, kill, worker, call, asked, faults>>

Deliver(t) ==
  /\ pc[t] = "deliver"
  /\ CancelMembers(Current(t))
  /\ Goto(t, "confirm")
  /\ UNCHANGED <<status, overdue, outbox, result, seen, verdict, kill, worker, call, asked, faults>>

Confirm(t) ==
  /\ pc[t] = "confirm"
  /\ FinalizeCancelled(Current(t))
  /\ Goto(t, "ack")
  /\ UNCHANGED <<overdue, outbox, mstatus, version, lapsed, result, seen, verdict, kill,
                 worker, call, asked, faults>>

Ack(t) ==
  /\ pc[t] = "ack"
  /\ outbox' = [outbox EXCEPT ![Current(t)] = IF @ = "pending" THEN "acked" ELSE @]
  /\ Advance(t, "deliver", "claim")
  /\ UNCHANGED <<status, overdue, mstatus, version, lapsed, result, verdict, kill,
                 worker, call, asked, faults>>

Waiting == {m \in Members : mstatus[m] = "pending"}

\* The kill switch is read, the pending members are listed.
ListPending(t) ==
  /\ pc[t] = "claim"
  /\ \/ /\ kill
        /\ List(t, {d \in Delegations : MembersOf(d) \intersect Waiting # {}},
                "inspect", "join")
        /\ UNCHANGED worker
     \/ /\ ~kill
        /\ worker' = [worker EXCEPT ![t] =
             [m \in Members |-> IF m \in Waiting THEN [NoWorker EXCEPT !.step = "listed"]
                                ELSE NoWorker]]
        /\ Goto(t, IF Waiting = {} THEN "join" ELSE "gather")
        /\ UNCHANGED seen
  /\ UNCHANGED <<tableVars, verdict, kill, call, asked, faults>>

\* _cancel_under_kill_switch
Inspect(t) ==
  /\ pc[t] = "inspect"
  /\ IF status[Current(t)] \in ActiveStates
     THEN /\ Goto(t, IF status[Current(t)] = "cancelling" THEN "withdraw" ELSE "request")
          /\ UNCHANGED seen
     ELSE Advance(t, "inspect", "join")
  /\ UNCHANGED <<tableVars, verdict, kill, worker, call, asked, faults>>

Request(t) ==
  /\ pc[t] = "request"
  /\ RequestCancel(Current(t))
  /\ Goto(t, "withdraw")
  /\ UNCHANGED <<overdue, mstatus, version, lapsed, result, seen, verdict, kill, worker,
                 call, asked, faults>>

Withdraw(t) ==
  /\ pc[t] = "withdraw"
  /\ CancelMembers(Current(t))
  /\ Advance(t, "inspect", "join")
  /\ UNCHANGED <<status, overdue, outbox, result, verdict, kill, worker, call, asked, faults>>

Gathered(t) ==
  /\ pc[t] = "gather"
  /\ \A m \in Members : worker[t][m].step = None
  /\ Goto(t, "join")
  /\ UNCHANGED <<tableVars, seen, verdict, kill, worker, call, asked, faults>>

ListActive(t) ==
  /\ pc[t] = "join"
  /\ List(t, {d \in Delegations : status[d] \in Listed}, "members", Rest(t))
  /\ UNCHANGED <<tableVars, verdict, kill, worker, call, asked, faults>>

\* _try_advance_joins: the members are read now, the status is the one of the list.
ListMembers(t) ==
  /\ pc[t] = "members"
  /\ IF AllTerminal(Current(t))
     THEN /\ Goto(t, CASE seen[t][Current(t)] = "cancelling" -> "settle_cancel"
                       [] seen[t][Current(t)] = "running" -> "advance"
                       [] OTHER -> "evaluate")
          /\ UNCHANGED seen
     ELSE Advance(t, "members", Rest(t))
  /\ UNCHANGED <<tableVars, verdict, kill, worker, call, asked, faults>>

SettleCancel(t) ==
  /\ pc[t] = "settle_cancel"
  /\ FinalizeCancelled(Current(t))
  /\ Advance(t, "members", Rest(t))
  /\ UNCHANGED <<overdue, outbox, mstatus, version, lapsed, result, verdict, kill, worker,
                 call, asked, faults>>

AdvanceToJoining(t) ==
  /\ pc[t] = "advance"
  /\ status' = [status EXCEPT ![Current(t)] = IF @ = "running" THEN "joining" ELSE @]
  /\ Goto(t, "evaluate")
  /\ UNCHANGED <<overdue, outbox, mstatus, version, lapsed, result, seen, verdict, kill,
                 worker, call, asked, faults>>

Evaluate(t) ==
  /\ pc[t] = "evaluate"
  /\ verdict' = [verdict EXCEPT ![t] = ResultSet(Current(t))]
  /\ IF ResultSet(Current(t)) = None THEN Advance(t, "members", Rest(t))
     ELSE Goto(t, "settle") /\ UNCHANGED seen
  /\ UNCHANGED <<tableVars, kill, worker, call, asked, faults>>

Settle(t) ==
  /\ pc[t] = "settle"
  /\ status' = [status EXCEPT ![Current(t)] = IF Joinable(Current(t)) THEN verdict[t] ELSE @]
  /\ verdict' = [verdict EXCEPT ![t] = None]
  /\ Advance(t, "members", Rest(t))
  /\ UNCHANGED <<overdue, outbox, mstatus, version, lapsed, result, kill, worker,
                 call, asked, faults>>

-----------------------------------------------------------------------------
(* _claim_and_run of a member, concurrent with the others of its tick *)

Becomes(t, m, w) == worker' = [worker EXCEPT ![t][m] = w]

\* claim_member: only a pending member, whatever its delegation is by now
Claim(t, m) ==
  /\ worker[t][m].step = "listed"
  /\ \/ /\ mstatus[m] = "pending"
        /\ mstatus' = [mstatus EXCEPT ![m] = "running"]
        /\ version' = [version EXCEPT ![m] = @ + 1]
        /\ Becomes(t, m, [NoWorker EXCEPT !.step = "claimed", !.version = version[m] + 1])
     \/ /\ mstatus[m] # "pending"
        /\ Becomes(t, m, NoWorker)
        /\ UNCHANGED <<mstatus, version>>
  /\ UNCHANGED <<status, overdue, outbox, lapsed, result, tickVars, kill, call, asked, faults>>

StartDelegation(t, m) ==
  /\ worker[t][m].step = "claimed"
  /\ status' = [status EXCEPT ![m[1]] = IF @ = "pending" THEN "running" ELSE @]
  /\ Becomes(t, m, [worker[t][m] EXCEPT !.step = "started"])
  /\ UNCHANGED <<overdue, outbox, mstatus, version, lapsed, result, tickVars, kill, call,
                 asked, faults>>

RecheckKill(t, m) ==
  /\ worker[t][m].step = "started"
  /\ Becomes(t, m, [worker[t][m] EXCEPT !.step = IF kill THEN "abandoning" ELSE "executing"])
  /\ UNCHANGED <<tableVars, tickVars, kill, call, asked, faults>>

Abandon(t, m) ==
  /\ worker[t][m].step = "abandoning"
  /\ CancelMembers(m[1])
  /\ Becomes(t, m, NoWorker)
  /\ UNCHANGED <<status, overdue, outbox, result, tickVars, kill, call, asked, faults>>

\* The child is done (_execute_member).
Executed(t, m) ==
  /\ worker[t][m].step = "executing"
  /\ Becomes(t, m, [worker[t][m] EXCEPT !.step = "returned"])
  /\ UNCHANGED <<tableVars, tickVars, kill, call, asked, faults>>

\* finish_member with what the child came to: an answer, a failure, a cancelled run.
\* Nothing before it depends on which, so it is chosen here.
FinishMember(t, m) ==
  /\ worker[t][m].step = "returned"
  /\ IF Owns(t, m)
     THEN \E r \in MemberTerminal :
            /\ mstatus' = [mstatus EXCEPT ![m] = r]
            /\ version' = [version EXCEPT ![m] = @ + 1]
            /\ lapsed' = lapsed \ {m}
            /\ result' = [result EXCEPT ![m] = [status |-> r, version |-> worker[t][m].version]]
     ELSE UNCHANGED <<mstatus, version, lapsed, result>>
  /\ Becomes(t, m, NoWorker)
  /\ UNCHANGED <<status, overdue, outbox, tickVars, kill, call, asked, faults>>

-----------------------------------------------------------------------------
(* Users, time and faults *)

\* POST /chat/delegations/{id}/cancel: a terminal delegation is refused.  One request of
\* the user is followed for each delegation.
AskCancel(d) ==
  /\ asked[d] = None
  /\ status[d] \in ActiveStates
  /\ asked' = [asked EXCEPT ![d] = "checked"]
  /\ UNCHANGED <<tableVars, tickVars, kill, worker, call, faults>>

\* request_cancel comes later, in a thread, and what it returns is not looked at: the
\* answer is 202 also when the delegation has settled in between.  It raises when the
\* row is gone.
UserCancel(d) ==
  /\ asked[d] = "checked"
  /\ RequestCancel(d)
  /\ asked' = [asked EXCEPT ![d] = IF status[d] \in ActiveStates THEN "taken"
                                   ELSE IF status[d] \in TerminalStates THEN "late" ELSE None]
  /\ UNCHANGED <<overdue, mstatus, version, lapsed, result, tickVars, kill, worker, call, faults>>

DeadlinePasses(d) ==
  /\ status[d] \in ActiveStates /\ d \notin overdue
  /\ overdue' = overdue \union {d}
  /\ UNCHANGED <<status, outbox, mstatus, version, lapsed, result, tickVars, kill, worker,
                 call, asked, faults>>

\* The session of the parent is deleted: refused while a run of it, or of a child, is
\* active; the rows go by cascade.
DeleteSession(d) ==
  /\ status[d] \in ActiveStates \union TerminalStates
  /\ \A c \in Callers : call[c].on = d => call[c].outcome # None
  /\ \A t \in Tickers, m \in MembersOf(d) : worker[t][m].step # "executing"
  /\ status' = [status EXCEPT ![d] = "deleted"]
  /\ mstatus' = [m \in Members |-> IF m \in MembersOf(d) THEN "absent" ELSE mstatus[m]]
  /\ lapsed' = lapsed \ MembersOf(d)
  /\ result' = [m \in Members |-> IF m \in MembersOf(d) THEN NoResult ELSE result[m]]
  /\ outbox' = [outbox EXCEPT ![d] = None]
  /\ UNCHANGED <<overdue, version, tickVars, kill, worker, call, asked, faults>>

\* A worker still holds the claim of m.
Attended(m) ==
  \E t \in Tickers : worker[t][m].step # None /\ worker[t][m].version = version[m]

Fault == faults < MaxFaults /\ faults' = faults + 1

\* activate_kill_switch (bounded like a fault), deactivate_kill_switch
SetKillSwitch ==
  /\ kill' = ~kill
  /\ IF kill THEN UNCHANGED faults ELSE Fault
  /\ UNCHANGED <<tableVars, tickVars, worker, call, asked>>

\* claim_expires_at passes: for a claim nobody works on, or for a worker that is slow.
LeasePasses(m) ==
  /\ mstatus[m] = "running" /\ m \notin lapsed
  /\ lapsed' = lapsed \union {m}
  /\ IF Attended(m) THEN Fault ELSE UNCHANGED faults
  /\ UNCHANGED <<status, overdue, outbox, mstatus, version, result, tickVars, kill, worker,
                 call, asked>>

\* The tick of t ends here: a registry call raised, or the call was cancelled.
Stop(T) ==
  /\ pc' = [t \in Tickers |-> IF t \in T THEN "idle" ELSE pc[t]]
  /\ seen' = [t \in Tickers |-> IF t \in T THEN NothingSeen ELSE seen[t]]
  /\ verdict' = [t \in Tickers |-> IF t \in T THEN None ELSE verdict[t]]
  /\ worker' = [t \in Tickers |-> IF t \in T THEN NoWorkers ELSE worker[t]]
  /\ call' = [c \in Callers |-> IF c \in T /\ call[c].on # None /\ call[c].outcome = None
                                THEN [call[c] EXCEPT !.outcome = "raised"] ELSE call[c]]

TickStops(t) ==
  /\ pc[t] # "idle"
  /\ Fault
  /\ Stop({t})
  /\ UNCHANGED <<tableVars, kill, asked>>

\* A registry call of _claim_and_run raises: gather keeps the exception to itself.
WorkerRaises(t, m) ==
  /\ worker[t][m].step \notin {None, "executing"}
  /\ Fault
  /\ Becomes(t, m, NoWorker)
  /\ UNCHANGED <<tableVars, tickVars, kill, call, asked>>

\* The process ends and starts again; the switch is not persisted, and a request under
\* way gets no answer.
Restart ==
  /\ Fault
  /\ Stop(Tickers)
  /\ kill' = FALSE
  /\ asked' = [d \in Delegations |-> IF asked[d] = "checked" THEN None ELSE asked[d]]
  /\ UNCHANGED tableVars

-----------------------------------------------------------------------------
TickStep(t) ==
  \/ MarkExpired(t) \/ MarkStale(t) \/ ListOutbox(t) \/ Deliver(t) \/ Confirm(t) \/ Ack(t)
  \/ ListPending(t) \/ Inspect(t) \/ Request(t) \/ Withdraw(t) \/ Gathered(t)
  \/ ListActive(t) \/ ListMembers(t) \/ SettleCancel(t) \/ AdvanceToJoining(t)
  \/ Evaluate(t) \/ Settle(t)

WorkerStep(t, m) ==
  \/ Claim(t, m) \/ StartDelegation(t, m) \/ RecheckKill(t, m) \/ Abandon(t, m)
  \/ Executed(t, m) \/ FinishMember(t, m)

CallerStep(c) == Drive(c) \/ ReadResult(c)

Next ==
  \/ \E c \in Callers : CallerStep(c) \/ \E d \in Delegations : Delegate(c, d)
  \/ \E t \in Tickers : TickStep(t) \/ TickStops(t)
  \/ \E t \in Tickers, m \in Members : WorkerStep(t, m) \/ WorkerRaises(t, m)
  \/ \E d \in Delegations :
       AskCancel(d) \/ UserCancel(d) \/ DeadlinePasses(d) \/ DeleteSession(d)
  \/ \E m \in Members : LeasePasses(m)
  \/ Wake \/ SetKillSwitch \/ Restart

Spec == Init /\ [][Next]_vars

\* The event loop runs the loop, the calls and their workers; a child answers or times
\* out; a lease that nobody renews passes.  Nothing is assumed of deadlines and users.
Fairness ==
  /\ WF_vars(Wake)
  /\ \A t \in Tickers : WF_vars(TickStep(t))
  /\ \A t \in Tickers, m \in Members : WF_vars(WorkerStep(t, m))
  /\ \A c \in Callers : WF_vars(CallerStep(c))
  /\ \A m \in Members : WF_vars(~Attended(m) /\ LeasePasses(m))
FairSpec == Spec /\ Fairness

-----------------------------------------------------------------------------
(* Properties *)

\* DELEGATION_TRANSITION_TABLE and DELEGATION_MEMBER_TRANSITION_TABLE
DelegationTable ==
  [s \in ActiveStates |->
     CASE s = "pending" -> {"running", "cancelling", "expired"}
       [] s = "running" -> {"joining", "succeeded", "failed", "cancelling", "expired"}
       [] s = "joining" -> {"succeeded", "failed", "cancelling", "expired"}
       [] OTHER         -> {"cancelled", "expired"}]
MemberTable ==
  [s \in {"pending", "running"} |->
     IF s = "pending" THEN {"running", "cancelled"}
     ELSE {"succeeded", "failed", "cancelled", "pending"}]

\* The statements of the registry, none of which consults the tables, keep to them
\* whatever lists and statuses a ticker acts on: in particular a terminal delegation or
\* member stays as it is until its session is deleted.
StepsFollowTables ==
  [][/\ \A d \in Delegations :
          \/ status'[d] = status[d] \/ status'[d] = "deleted" \/ status[d] = "absent"
          \/ status[d] \in ActiveStates /\ status'[d] \in DelegationTable[status[d]]
     /\ \A m \in Members :
          \/ mstatus'[m] = mstatus[m] \/ mstatus'[m] = "absent" \/ mstatus[m] = "absent"
          \/ /\ mstatus[m] \in {"pending", "running"}
             /\ mstatus'[m] \in MemberTable[mstatus[m]]]_vars

\* An adopted result is that of the last claim of its member, and the member has its
\* status: the late worker of a reclaimed or cancelled member changes nothing, although
\* all its claims bear the same lock (finish_member).
ResultIsOfLastClaim ==
  \A m \in Members :
    result[m] # NoResult => /\ result[m].status = mstatus[m]
                            /\ result[m].version + 1 = version[m]

\* A delegation has succeeded or failed only by the join policy applied to members that
\* are all terminal, although members are read, joined and settled in four transactions
\* (_try_advance_joins).  So it is for all three policies: all_succeeded too waits for the
\* members that remain once one has failed, where DelegationJoinPolicy says that it "fails
\* early if any member fails (does not wait for remaining members)".
JoinIsSound ==
  \A d \in Delegations :
    status[d] \in {"succeeded", "failed"} =>
      /\ \A m \in MembersOf(d) : mstatus[m] \in MemberTerminal
      /\ status[d] = Join(d)

\* A cancellation that request_cancel found a delegation for, the user's or that of the
\* kill switch, is never lost to a join under way: the delegation ends cancelled, or
\* expired.  (The user's request is lost, though answered 202, when the delegation settles
\* between the route's check and request_cancel.)
CancelWins ==
  \A d \in Delegations :
    /\ asked[d] = "taken" => status[d] \in {"cancelling", "cancelled", "expired", "deleted"}
    /\ outbox[d] # None => status[d] \in {"cancelling", "cancelled", "expired"}

\* A delegation ends, whatever is cancelled, killed, lost or restarted on the way, and
\* without the help of its deadline.
DelegationEnds ==
  \A d \in Delegations : status[d] \in ActiveStates ~> status[d] \notin ActiveStates

=============================================================================

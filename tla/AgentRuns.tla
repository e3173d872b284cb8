----------------------------- MODULE AgentRuns -----------------------------
(***************************************************************************)
(* One execution of the agent, from admission to its terminal row: the      *)
(* durable ledger agent_runs, the AgentRunService of each process (bindings,*)
(* leases, fencing, cancellation), the admission in ChatCompletionService,  *)
(* the turn loop of AgentGraphRunner and the budget account of the run.     *)
(*                                                                         *)
(* A ledger or memory-store call is one SQLite transaction executed inside  *)
(* the event loop: one step.  Coroutines suspend at the provider, at tools  *)
(* and at hooks; processes interleave at every transaction.  Run ids and    *)
(* owner tokens are fresh UUIDs, so a row is never another run's: what the  *)
(* conditions on the row still ask for is its status and lease (Holds).     *)
(***************************************************************************)
EXTENDS Naturals, Sequences, FiniteSets

CONSTANTS
  Runs,            \* ids of the executions that may be admitted
  Sessions,        \* conversations
  Processes,       \* server, CLI and ACP processes on one database
  Foreground,      \* the runs admitted as the dialogue of their session
  Streamed,        \* the runs whose answer is consumed as a stream
  Lease,           \* lease_seconds, in ticks
  MaxIterations,   \* iteration_limit
  MaxCalls,        \* bound: tool calls in one model response
  MaxLlmCalls,     \* budget: max_llm_calls
  MaxToolCalls,    \* budget: max_tool_calls
  MaxStops         \* bound: processes that end

ASSUME AgentConstants ==
  /\ Foreground \subseteq Runs
  /\ Streamed \subseteq Runs
  /\ Lease \in Nat \ {0}
  /\ MaxIterations \in Nat
  /\ MaxCalls \in Nat
  /\ MaxLlmCalls \in Nat
  /\ MaxToolCalls \in Nat
  /\ MaxStops \in Nat

VARIABLES
  \* the database
  row,         \* status of each agent_runs row
  session,     \* its session_id
  process,     \* its process_id
  lease,       \* ticks left until lease_expires_at, of an unfinished row
  log,         \* messages of each session, by the run that wrote them
  \* AgentRunService: dictionaries of all processes (a run is in one of them)
  bindings,    \* _bindings
  tasks,       \* _tasks: runs whose asyncio task is registered
  fenced,      \* _fenced
  cancelling,  \* tasks with a cancellation requested and not yet delivered
  up,          \* process: "up", "closing" (service closed) or "gone"
  \* coroutines and budget
  pc,          \* where the execution of each run is
  turn,        \* AgentState of the run
  ending,      \* the terminal status the execution is about to record
  account,     \* BudgetService._accounts
  \* history
  calls,       \* external calls the run has made
  stopped      \* runs for which cancel() returned True

ledgerVars == <<row, session, process, lease, log>>
serviceVars == <<bindings, tasks, fenced, cancelling, up>>
runVars == <<pc, turn, ending, account, calls>>
vars == <<ledgerVars, serviceVars, runVars, stopped>>

-----------------------------------------------------------------------------
(* Values *)

Active == {"pending", "running"}
Terminal == {"completed", "failed", "cancelled", "interrupted", "not_started"}
RowStatus == Active \union Terminal \union {"absent", "deleted"}
Outcomes == {"completed", "failed", "cancelled"}
Kinds == {"user", "calls", "result", "final"}
\* where a coroutine stands: admission ("preparing", "offered", "activating"),
\* the nodes of the graph, suspended in a provider or a tool call ("chat",
\* "executing"), leaving with a result or an exception ("ending")
Places == {"none", "preparing", "offered", "activating", "llm", "chat", "tools",
           "executing", "memory", "finalize", "finalized", "ending", "over"}
InGraph == {"llm", "chat", "tools", "executing", "memory", "finalize", "finalized"}

\* How often one tool call may reach the tool: ToolService.execute and
\* CompositeToolExecutor.execute each call again when a TypeError comes out.
Attempts == 4

NewTurn == [iterations |-> 0, pending |-> 0, tries |-> 0, error |-> FALSE, final |-> FALSE,
            exhausted |-> FALSE, late |-> FALSE, writes |-> <<>>]
TurnState == [iterations : Nat, pending : Nat, tries : 0..Attempts, error : BOOLEAN,
              final : BOOLEAN, exhausted : BOOLEAN, late : BOOLEAN, writes : Seq(Kinds)]
NoAccount == [open |-> FALSE, llm |-> 0, tool |-> 0]
AccountState == [open : BOOLEAN, llm : Nat, tool : Nat]

\* Tables, dictionaries, coroutines and accounts keep their types; lease_expires_at
\* is never more than a lease ahead.
TypeOK ==
  /\ row \in [Runs -> RowStatus]
  /\ session \in [Runs -> Sessions]
  /\ process \in [Runs -> Processes]
  /\ lease \in [Runs -> 0..Lease]
  /\ log \in [Sessions -> Seq([run : Runs, kind : Kinds])]
  /\ bindings \in SUBSET Runs
  /\ tasks \in SUBSET Runs
  /\ fenced \in SUBSET Runs
  /\ cancelling \in SUBSET Runs
  /\ up \in [Processes -> {"up", "closing", "gone"}]
  /\ pc \in [Runs -> Places]
  /\ turn \in [Runs -> TurnState]
  /\ ending \in [Runs -> Outcomes]
  /\ account \in [Runs -> AccountState]
  /\ calls \in [Runs -> [llm : Nat, tool : Nat]]
  /\ stopped \in SUBSET Runs

Init ==
  /\ row = [r \in Runs |-> "absent"]
  /\ session \in [Runs -> Sessions]
  /\ process \in [Runs -> Processes]
  /\ lease = [r \in Runs |-> 0]
  /\ log = [s \in Sessions |-> <<>>]
  /\ bindings = {} /\ tasks = {} /\ fenced = {} /\ cancelling = {}
  /\ up = [p \in Processes |-> "up"]
  /\ pc = [r \in Runs |-> "none"]
  /\ turn = [r \in Runs |-> NewTurn]
  /\ ending = [r \in Runs |-> "failed"]
  /\ account = [r \in Runs |-> NoAccount]
  /\ calls = [r \in Runs |-> [llm |-> 0, tool |-> 0]]
  /\ stopped = {}

-----------------------------------------------------------------------------
(* The ledger: SQLiteAgentRunRegistry *)

\* The WHERE clause of check, heartbeat, finish and of validate_run_session: the
\* row is the run's own, unfinished, and its lease has not run out.
Holds(r) == row[r] \in Active /\ lease[r] > 0

\* lease_expires_at = now + lease_seconds
FromNow_Extends(r) == lease[r] + Lease
FromNow(r) == Lease

Expired_AnyStatus(r) == row[r] \notin {"absent", "deleted"} /\ lease[r] = 0
Expired(r) == row[r] \in Active /\ lease[r] = 0

\* reconcile_expired
Reconciled ==
  [r \in Runs |-> IF ~Expired(r) THEN row[r]
                  ELSE IF row[r] = "pending" THEN "not_started" ELSE "interrupted"]

\* The unique index over unfinished foreground rows, as register sees it after
\* its own reconciliation.
Busy_RunningOnly(s) == \E q \in Foreground : session[q] = s /\ Reconciled[q] = "running"
Busy(s) == \E q \in Foreground : session[q] = s /\ Reconciled[q] \in Active

\* finish: the UPDATE of a row to a terminal status.
RecordIf(condition, r, status) ==
  /\ row' = IF condition THEN [row EXCEPT ![r] = status] ELSE row
  /\ lease' = IF condition THEN [lease EXCEPT ![r] = 0] ELSE lease

Forget(r) == /\ bindings' = bindings \ {r}
             /\ tasks' = tasks \ {r}

\* append_message of a run: the message carries its run id.
Written(r, kind) ==
  log' = [log EXCEPT ![session[r]] = Append(@, [run |-> r, kind |-> kind])]

-----------------------------------------------------------------------------
(* Admission: AgentRunService.register, ChatCompletionService.complete *)

Alive(r) == up[process[r]] # "gone"

Register(r) ==
  /\ row[r] = "absent"
  /\ up[process[r]] = "up"
  /\ ~(r \in Foreground /\ Busy(session[r]))
  /\ row' = [Reconciled EXCEPT ![r] = "pending"]
  /\ lease' = [lease EXCEPT ![r] = FromNow(r)]
  /\ bindings' = bindings \union {r}
  /\ pc' = [pc EXCEPT ![r] = "preparing"]
  /\ UNCHANGED <<session, process, log, tasks, fenced, cancelling, up, turn, ending,
                 account, calls, stopped>>

\* The execution is over, by its result or by an exception: what finish will be asked
\* to record.
Leave(r, status) ==
  /\ pc' = [pc EXCEPT ![r] = "ending"]
  /\ ending' = [ending EXCEPT ![r] = status]

\* _complete up to the graph: the user message is stored, a stream is handed
\* to the caller.
Prepare(r) ==
  /\ pc[r] = "preparing" /\ Alive(r)
  /\ \/ /\ Holds(r)
        /\ Written(r, "user")
        /\ pc' = [pc EXCEPT ![r] = IF r \in Streamed THEN "offered" ELSE "activating"]
        /\ UNCHANGED ending
     \/ /\ ~Holds(r)
        /\ Leave(r, "failed")
        /\ UNCHANGED log
  /\ UNCHANGED <<row, session, process, lease, serviceVars, turn, account, calls, stopped>>

\* Anything else _complete may raise, or the caller gives up.
PrepareFails(r) ==
  /\ pc[r] = "preparing" /\ Alive(r)
  /\ \E status \in {"failed", "cancelled"} : Leave(r, status)
  /\ UNCHANGED <<ledgerVars, serviceVars, turn, account, calls, stopped>>

\* The first __anext__ of the stream; it may never come.
Consume(r) ==
  /\ pc[r] = "offered" /\ Alive(r)
  /\ pc' = [pc EXCEPT ![r] = "activating"]
  /\ UNCHANGED <<ledgerVars, serviceVars, turn, ending, account, calls, stopped>>

\* AgentRunService.check
MayGo(r) == up[process[r]] = "up" /\ r \notin fenced /\ Holds(r)

\* activate, and the budget account of the run; a run cancelled before its start
\* leaves its row alone.
Activate(r) ==
  /\ pc[r] = "activating" /\ Alive(r)
  /\ \/ /\ MayGo(r) /\ row[r] = "pending"
        /\ row' = [row EXCEPT ![r] = "running"]
        /\ lease' = [lease EXCEPT ![r] = FromNow(r)]
        /\ tasks' = tasks \union {r}
        /\ account' = [account EXCEPT ![r].open = TRUE]
        /\ pc' = [pc EXCEPT ![r] = "llm"]
        /\ UNCHANGED ending
     \/ /\ up[process[r]] = "up" /\ row[r] = "cancelled"
        /\ pc' = [pc EXCEPT ![r] = "over"]
        /\ UNCHANGED <<row, lease, tasks, account, ending>>
     \/ /\ ~MayGo(r) /\ ~(up[process[r]] = "up" /\ row[r] = "cancelled")
        /\ Leave(r, "failed")
        /\ UNCHANGED <<row, lease, tasks, account>>
  /\ UNCHANGED <<session, process, log, bindings, fenced, cancelling, up, turn,
                 calls, stopped>>

-----------------------------------------------------------------------------
(* The turn loop: the nodes of the graph and TurnPolicy *)

\* AgentRunService.is_cancelled
IsCancelled(r) == r \in fenced \union cancelling

\* TurnPolicy.evaluate, in its order of priority.
Decision(t, cancelled) ==
  CASE cancelled                        -> "cancelled"
    [] ~cancelled /\ t.error            -> "error"
    [] OTHER ->
         IF t.final /\ t.pending = 0 THEN "stop"
         ELSE IF t.iterations >= MaxIterations THEN "iteration_limit"
         ELSE IF t.late THEN "deadline"
         ELSE IF t.exhausted THEN "budget_exhausted"
         ELSE IF t.pending > 0 THEN "execute_tools"
         ELSE "continue"

\* _build_turn_input reads the clock: the deadline of the turn may have passed.
Evaluated(t) == {[t EXCEPT !.late = late] : late \in {t.late, TRUE}}

AfterLlm_EndsAtLimit(d) ==
  IF d = "execute_tools" THEN "tools"
  ELSE IF d \in {"stop", "continue"} THEN "memory"
  ELSE IF d = "iteration_limit" THEN "finalized" ELSE "finalize"
AfterLlm(d) ==
  IF d = "execute_tools" THEN "tools"
  ELSE IF d \in {"stop", "iteration_limit", "continue"} THEN "memory" ELSE "finalize"

AfterMemory(d) == IF d \in {"execute_tools", "continue"} THEN "llm" ELSE "finalize"

\* call_llm gives the turn back with its result; the branch after it is taken.
LeaveLlm(r, t) ==
  \E u \in Evaluated(t) :
    /\ turn' = [turn EXCEPT ![r] = u]
    /\ pc' = [pc EXCEPT ![r] = AfterLlm(Decision(u, IsCancelled(r)))]

\* A node that finds the run lost raises; the exception leaves the graph.
Lost(r, place) ==
  /\ pc[r] = place /\ Alive(r)
  /\ ~MayGo(r)
  /\ Leave(r, "failed")
  /\ UNCHANGED <<ledgerVars, serviceVars, turn, account, calls, stopped>>

NodeRefused(r) == \E place \in {"llm", "tools", "memory", "finalize"} : Lost(r, place)

\* call_llm up to the provider: the call is reserved in the budget, or denied.
CallLlm(r) ==
  /\ pc[r] = "llm" /\ MayGo(r) /\ r \notin cancelling
  /\ \/ /\ account[r].llm < MaxLlmCalls
        /\ account' = [account EXCEPT ![r].open = TRUE, ![r].llm = @ + 1]
        /\ calls' = [calls EXCEPT ![r].llm = @ + 1]
        /\ pc' = [pc EXCEPT ![r] = "chat"]
        /\ UNCHANGED turn
     \/ /\ account[r].llm >= MaxLlmCalls
        /\ LeaveLlm(r, [turn[r] EXCEPT !.exhausted = TRUE, !.pending = 0])
        /\ UNCHANGED <<account, calls>>
  /\ UNCHANGED <<ledgerVars, serviceVars, ending, stopped>>

\* The information-flow or model policy denies the request: an error, or for a model
\* that cannot see images a final text, and no call.
LlmRefused(r) ==
  /\ pc[r] = "llm" /\ MayGo(r) /\ r \notin cancelling
  /\ \/ LeaveLlm(r, [turn[r] EXCEPT !.error = TRUE])
     \/ LeaveLlm(r, [turn[r] EXCEPT !.iterations = @ + 1, !.final = TRUE, !.pending = 0])
  /\ UNCHANGED <<ledgerVars, serviceVars, ending, account, calls, stopped>>

\* The provider answers, with a final text or with n tool calls.
LlmReturns(r) ==
  /\ pc[r] = "chat" /\ Alive(r)
  /\ \E n \in 0..MaxCalls :
       LeaveLlm(r, [turn[r] EXCEPT !.iterations = @ + 1, !.final = TRUE, !.pending = n,
                                   !.writes = IF n = 0 THEN @ ELSE Append(@, "calls")])
  /\ UNCHANGED <<ledgerVars, serviceVars, ending, account, calls, stopped>>

\* The provider raises: the reservation is released, the turn carries the error.
LlmFails_Retries(r) ==
  /\ pc[r] = "chat" /\ Alive(r)
  /\ account' = [account EXCEPT ![r].llm = @ - 1]
  /\ pc' = [pc EXCEPT ![r] = "llm"]
  /\ UNCHANGED <<ledgerVars, serviceVars, turn, ending, calls, stopped>>
LlmFails(r) ==
  /\ pc[r] = "chat" /\ Alive(r)
  /\ account' = [account EXCEPT ![r].llm = @ - 1]
  /\ LeaveLlm(r, [turn[r] EXCEPT !.error = TRUE])
  /\ UNCHANGED <<ledgerVars, serviceVars, ending, calls, stopped>>

\* A result for the call at the head: the loop goes on, or ends with the last call
\* or with a terminal tool.
ToolResult(r, terminal) ==
  LET left == IF terminal THEN 0 ELSE turn[r].pending - 1 IN
  /\ turn' = [turn EXCEPT ![r].pending = left, ![r].tries = 0,
                          ![r].writes = Append(@, "result"),
                          ![r].final = IF left = 0 THEN terminal ELSE @]
  /\ pc' = [pc EXCEPT ![r] = IF left = 0 THEN "memory" ELSE "tools"]

\* _execute_tools and ToolService.execute: a call is denied (policy, approval,
\* arguments, budget) and answered at once, or reserved and executed.
ExecuteTool(r) ==
  /\ pc[r] = "tools" /\ MayGo(r) /\ r \notin cancelling
  /\ \/ /\ ToolResult(r, FALSE)
        /\ UNCHANGED <<account, calls>>
     \/ /\ account[r].tool < MaxToolCalls
        /\ account' = [account EXCEPT ![r].open = TRUE, ![r].tool = @ + 1]
        /\ calls' = [calls EXCEPT ![r].tool = @ + 1]
        /\ pc' = [pc EXCEPT ![r] = "executing"]
        /\ turn' = [turn EXCEPT ![r].tries = 1]
  /\ UNCHANGED <<ledgerVars, serviceVars, ending, stopped>>

\* The tool returns; save_tool_call writes its row under the run's validation.
ToolReturns(r) ==
  /\ pc[r] = "executing" /\ Alive(r)
  /\ \/ /\ Holds(r)
        /\ \E terminal \in BOOLEAN : ToolResult(r, terminal)
        /\ UNCHANGED ending
     \/ /\ ~Holds(r)
        /\ Leave(r, "failed")
        /\ UNCHANGED turn
  /\ UNCHANGED <<ledgerVars, serviceVars, account, calls, stopped>>

\* A TypeError comes out of the tool, whether for its parameters or from its work:
\* it is executed again, on the reservation of the first time.
ToolRepeats(r) ==
  /\ pc[r] = "executing" /\ Alive(r)
  /\ turn[r].tries < Attempts
  /\ turn' = [turn EXCEPT ![r].tries = @ + 1]
  /\ calls' = [calls EXCEPT ![r].tool = @ + 1]
  /\ UNCHANGED <<ledgerVars, serviceVars, pc, ending, account, stopped>>

\* The executor raises otherwise, or a TypeError once more than it is caught: the
\* reservation is released, the exception leaves the graph.
ToolRaises(r) ==
  /\ pc[r] = "executing" /\ Alive(r)
  /\ account' = [account EXCEPT ![r].tool = @ - 1]
  /\ Leave(r, "failed")
  /\ UNCHANGED <<ledgerVars, serviceVars, turn, calls, stopped>>

\* update_memory: the assistant's calls, then the results, one transaction each;
\* then the task state and the branch.
UpdateMemory(r) ==
  /\ pc[r] = "memory" /\ MayGo(r) /\ r \notin cancelling
  /\ \/ /\ turn[r].writes # <<>>
        /\ Written(r, Head(turn[r].writes))
        /\ turn' = [turn EXCEPT ![r].writes = Tail(@)]
        /\ UNCHANGED pc
     \/ /\ turn[r].writes = <<>>
        /\ \E t \in Evaluated(turn[r]) :
             /\ turn' = [turn EXCEPT ![r] = t]
             /\ pc' = [pc EXCEPT ![r] = AfterMemory(Decision(t, IsCancelled(r)))]
        /\ UNCHANGED log
  /\ UNCHANGED <<row, session, process, lease, serviceVars, ending, account,
                 calls, stopped>>

\* finalize up to the final message: the end reason decides whether the turn
\* failed, and there is a message unless the turn was not over.
Finalize(r) ==
  /\ pc[r] = "finalize" /\ MayGo(r)
  /\ \E t \in Evaluated(turn[r]) :
       LET d == Decision(t, IsCancelled(r))
           failed == d \in {"cancelled", "error", "iteration_limit", "deadline"} IN
       /\ turn' = [turn EXCEPT ![r] = [t EXCEPT !.error = failed]]
       /\ \/ /\ failed \/ t.final \/ d = "budget_exhausted"
             /\ Written(r, "final")
          \/ /\ ~(failed \/ t.final \/ d = "budget_exhausted")
             /\ UNCHANGED log
  /\ pc' = [pc EXCEPT ![r] = "finalized"]
  /\ UNCHANGED <<row, session, process, lease, serviceVars, ending, account,
                 calls, stopped>>

\* The rest of finalize: the task state is saved and the account closed.
CloseTurn(r) ==
  /\ pc[r] = "finalized" /\ Alive(r)
  /\ \/ /\ Holds(r)
        /\ account' = [account EXCEPT ![r] = NoAccount]
        /\ Leave(r, IF turn[r].error THEN "failed" ELSE "completed")
     \/ /\ ~Holds(r)
        /\ Leave(r, "failed")
        /\ UNCHANGED account
  /\ UNCHANGED <<ledgerVars, serviceVars, turn, calls, stopped>>

\* A read or a write of these nodes raises (database locked); before the first model
\* call, prepare_context.
StoreRaises(r) ==
  /\ Alive(r)
  /\ \/ pc[r] \in {"memory", "finalize", "finalized"}
     \/ pc[r] = "llm" /\ turn[r].iterations = 0
  /\ Leave(r, "failed")
  /\ UNCHANGED <<ledgerVars, serviceVars, turn, account, calls, stopped>>

-----------------------------------------------------------------------------
(* The end: AgentGraphRunner.run, AgentRunService.finish and cancel *)

\* The coroutines of these runs are over, and their locals with them.
Over(S) ==
  /\ pc' = [r \in Runs |-> IF r \in S /\ pc[r] # "none" THEN "over" ELSE pc[r]]
  /\ turn' = [r \in Runs |-> IF r \in S THEN NewTurn ELSE turn[r]]
  /\ ending' = [r \in Runs |-> IF r \in S THEN "failed" ELSE ending[r]]

\* finish records the status under the run's own condition; a fenced run, one whose
\* row is gone or ended otherwise, or a write that raises, records nothing, and the row
\* is left to its lease.  (The code leaves such a run in _fenced; nobody asks for it
\* again.)
Finish(r) ==
  /\ pc[r] = "ending" /\ r \notin cancelling /\ Alive(r)
  /\ \E stored \in BOOLEAN : RecordIf(stored /\ r \notin fenced /\ Holds(r), r, ending[r])
  /\ fenced' = fenced \ {r}
  /\ Over({r})
  /\ Forget(r)
  /\ UNCHANGED <<session, process, log, cancelling, up, account, calls, stopped>>

\* The consumer of a stream, once the task of the run is done: the finally of
\* stream_events, or after a disconnect the waiter that _detach_run left behind.
CloseStream_OnlyCompleted(r) ==
  /\ r \in Streamed /\ pc[r] = "over" /\ Alive(r)
  /\ account[r].open /\ row[r] = "completed"
  /\ account' = [account EXCEPT ![r] = NoAccount]
  /\ UNCHANGED <<ledgerVars, serviceVars, pc, turn, ending, calls, stopped>>
CloseStream(r) ==
  /\ r \in Streamed /\ pc[r] = "over" /\ Alive(r)
  /\ account[r].open
  /\ account' = [account EXCEPT ![r] = NoAccount]
  /\ UNCHANGED <<ledgerVars, serviceVars, pc, turn, ending, calls, stopped>>

\* cancel of a run whose task is registered: True, and a CancelledError to come.
CancelTask(r) ==
  /\ r \in tasks \ stopped /\ Alive(r)
  /\ cancelling' = cancelling \union {r}
  /\ stopped' = stopped \union {r}
  /\ UNCHANGED <<ledgerVars, bindings, tasks, fenced, up, runVars>>

\* cancel of an admitted run that has not started: its row ends here, or was lost.
CancelPending_Flag(r) ==
  /\ r \in bindings \ tasks /\ row[r] = "pending" /\ Alive(r)
  /\ stopped' = IF Holds(r) THEN stopped \union {r} ELSE stopped
  /\ Forget(r)
  /\ UNCHANGED <<ledgerVars, fenced, cancelling, up, runVars>>
CancelPending(r) ==
  /\ r \in bindings \ tasks /\ row[r] = "pending" /\ Alive(r)
  /\ RecordIf(Holds(r), r, "cancelled")
  /\ stopped' = IF Holds(r) THEN stopped \union {r} ELSE stopped
  /\ Forget(r)
  /\ UNCHANGED <<session, process, log, fenced, cancelling, up, runVars>>

\* The CancelledError reaches the task, at whatever it awaits: the account is
\* closed on the way out of the graph.
CancelDelivered(r) ==
  /\ r \in cancelling /\ pc[r] \in InGraph \union {"ending"} /\ Alive(r)
  /\ cancelling' = cancelling \ {r}
  /\ account' = [account EXCEPT ![r] = IF pc[r] \in InGraph THEN NoAccount ELSE @]
  /\ Leave(r, "cancelled")
  /\ UNCHANGED <<ledgerVars, bindings, tasks, fenced, up, turn, calls, stopped>>

-----------------------------------------------------------------------------
(* Leases and processes *)

Of(p, S) == {r \in S : process[r] = p}

\* One round of _heartbeat_loop: renew the started runs, fence and cancel those
\* that cannot be renewed (some raise without a cause in the row), reconcile, and
\* forget the admissions that were lost, fencing those whose check raises.  Runs that
\* have not started are not renewed.
Renewed_Admitted(p) == {r \in Of(p, bindings) : Holds(r)}
Renewed(p) == {r \in Of(p, tasks) : Holds(r)}

Heartbeat(p) ==
  /\ up[p] = "up"
  /\ \E raising \in SUBSET Of(p, bindings) :
       LET lost == {r \in Of(p, tasks) : r \in raising \/ ~Holds(r)} IN
       /\ lease' = [r \in Runs |-> IF r \in Renewed(p) \ raising THEN FromNow(r) ELSE lease[r]]
       /\ fenced' = fenced \union raising \union lost
       /\ cancelling' = cancelling \union lost
       /\ bindings' = {r \in bindings : process[r] = p /\ r \notin tasks
                                           => Holds(r) /\ r \notin raising}
  /\ row' = Reconciled
  /\ UNCHANGED <<session, process, log, tasks, up, runVars, stopped>>

TimePasses ==
  /\ \E r \in Runs : Holds(r)
  /\ lease' = [r \in Runs |-> IF Holds(r) THEN lease[r] - 1 ELSE lease[r]]
  /\ UNCHANGED <<row, session, process, log, serviceVars, runVars, stopped>>

\* Someone is left to reconcile: a process that ends is started again, or another
\* one is running.
MayStop(p) ==
  /\ \E q \in Processes \ {p} : up[q] = "up"
  /\ Cardinality({q \in Processes : up[q] # "up"}) < MaxStops

\* close: no more admissions, the tasks are cancelled and awaited for some time.
CloseService(p) ==
  /\ up[p] = "up" /\ MayStop(p)
  /\ up' = [up EXCEPT ![p] = "closing"]
  /\ cancelling' = cancelling \union Of(p, tasks)
  /\ UNCHANGED <<ledgerVars, bindings, tasks, fenced, runVars, stopped>>

\* The memory of process p is gone.
Gone(p) ==
  /\ up' = [up EXCEPT ![p] = "gone"]
  /\ bindings' = bindings \ Of(p, Runs)
  /\ tasks' = tasks \ Of(p, Runs)
  /\ fenced' = fenced \ Of(p, Runs)
  /\ cancelling' = cancelling \ Of(p, Runs)
  /\ Over(Of(p, Runs))
  /\ account' = [r \in Runs |-> IF process[r] = p THEN NoAccount ELSE account[r]]
  /\ UNCHANGED <<session, process, log, calls, stopped>>

\* The end of close: admissions that never started are recorded as such.
Shutdown(p) ==
  /\ up[p] = "closing"
  /\ row' = [r \in Runs |-> IF r \in Of(p, bindings) /\ row[r] = "pending"
                            THEN "not_started" ELSE row[r]]
  /\ lease' = [r \in Runs |-> IF row'[r] \in Active THEN lease[r] ELSE 0]
  /\ Gone(p)

Crash(p) ==
  /\ up[p] = "up" /\ MayStop(p)
  /\ Gone(p)
  /\ UNCHANGED <<row, lease>>

\* SessionService.delete_session: refused while a run of the session is unfinished.
DeleteSession(s) ==
  /\ \E r \in Runs : session[r] = s /\ row[r] \in Terminal
  /\ \A r \in Runs : session[r] = s => row[r] \notin Active
  /\ row' = [r \in Runs |-> IF session[r] = s /\ row[r] \in Terminal THEN "deleted" ELSE row[r]]
  /\ log' = [log EXCEPT ![s] = <<>>]
  /\ UNCHANGED <<session, process, lease, serviceVars, runVars, stopped>>

-----------------------------------------------------------------------------
RunStep(r) ==
  \/ Prepare(r) \/ Activate(r) \/ NodeRefused(r) \/ CallLlm(r) \/ LlmRefused(r)
  \/ LlmReturns(r) \/ LlmFails(r) \/ ExecuteTool(r) \/ ToolReturns(r) \/ ToolRaises(r)
  \/ ToolRepeats(r) \/ UpdateMemory(r) \/ Finalize(r) \/ CloseTurn(r)
  \/ CancelDelivered(r) \/ Finish(r) \/ CloseStream(r)

Next ==
  \/ \E r \in Runs :
       \/ RunStep(r)
       \/ Register(r) \/ PrepareFails(r) \/ Consume(r) \/ StoreRaises(r)
       \/ CancelTask(r) \/ CancelPending(r)
  \/ \E p \in Processes : Heartbeat(p) \/ CloseService(p) \/ Shutdown(p) \/ Crash(p)
  \/ \E s \in Sessions : DeleteSession(s)
  \/ TimePasses

Spec == Init /\ [][Next]_vars

\* Providers, tools and approvals answer or time out, the event loop and the
\* monitors of the processes that are up keep running, time passes; a stream that
\* was begun is read to its end or its consumer goes away.  Nobody need begin to
\* consume a stream, cancel or shut down.  Finish is strong: between the delivery of
\* a cancellation and finish the coroutine does not suspend, so that monitors cannot
\* cancel it again for ever.
Fairness ==
  /\ \A r \in Runs : WF_vars(RunStep(r)) /\ SF_vars(Finish(r))
  /\ \A p \in Processes : WF_vars(Heartbeat(p))
  /\ WF_vars(TimePasses)
FairSpec == Spec /\ Fairness

-----------------------------------------------------------------------------
(* Properties *)

\* The dialogue of a session is never mixed: between two messages of a foreground
\* run there is none of another one, whatever leases ran out, runs were cancelled
\* and coroutines went on after their row had been given up (validate_run_session,
\* the unique foreground index).
DialogueIsUnmixed ==
  \A s \in Sessions : \A i, j, k \in DOMAIN log[s] :
    (/\ i < j /\ j < k
     /\ log[s][i].run = log[s][k].run
     /\ log[s][i].run \in Foreground /\ log[s][j].run \in Foreground)
      => log[s][j].run = log[s][i].run

\* A run recorded as completed has stored its answer, once and last: no path of the
\* turn loop (budget, limit, deadline, cancellation, terminal tool) ends without it.
CompletedHasAnswer ==
  \A r \in Runs :
    row[r] = "completed" =>
      LET mine == {i \in DOMAIN log[session[r]] : log[session[r]][i].run = r} IN
      \E last \in mine :
        \A i \in mine : i <= last /\ (log[session[r]][i].kind = "final" <=> i = last)

\* An execution whose stop was acknowledged (cancel returned True) is never recorded
\* as completed or failed afterwards.
StopIsHonoured == \A r \in stopped : row[r] \notin {"completed", "failed"}

\* Calls stay within the budget of the run although a call that raised gives its
\* reservation back: the provider is called at most max_llm_calls times, and tools are
\* reached at most Attempts times for every call that max_tool_calls allows.
CallsWithinBudget ==
  \A r \in Runs : /\ calls[r].llm <= MaxLlmCalls
                  /\ calls[r].tool <= Attempts * MaxToolCalls

\* The account of a streamed run does not stay: whether the turn is finalized, raises,
\* is cancelled twice or is left by its consumer, someone closes it (BudgetService.close).
StreamAccountCloses == \A r \in Streamed : account[r].open ~> ~account[r].open

\* A terminal row is final: only the deletion of its session touches it, whoever
\* finishes, cancels, reconciles or shuts down late.
EndedStays ==
  [][\A r \in Runs : row[r] \in Terminal => row'[r] \in {row[r], "deleted"}]_vars

\* Every admission ends in the ledger: an unfinished row does not block its session
\* for ever, whether the run returns, raises, is never consumed, or its process ends.
AdmissionEnds == \A r \in Runs : row[r] \in Active ~> row[r] \notin Active

=============================================================================

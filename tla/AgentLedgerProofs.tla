------------------------- MODULE AgentLedgerProofs -------------------------
(***************************************************************************)
(* Who writes the ledger and the dialogue: a terminal row is final, a stop  *)
(* that was acknowledged is honoured, no two foreground runs mix their      *)
(* messages, and a run recorded as completed has stored its answer, once    *)
(* and last.  All rest on how one step may change one row (RowStep) and the *)
(* logs (LogStep); the answer also on why a turn ends (Settled).            *)
(***************************************************************************)
EXTENDS AgentRunsProofs

\* What a step may do to the row of run r.
RowStep(r) ==
  \/ row'[r] = row[r]
  \/ row[r] = "absent" /\ Register(r)
  \/ row[r] \in Active /\ row'[r] \in Active \union {"cancelled", "interrupted", "not_started"}
  \/ row[r] \in Active /\ row'[r] = ending[r] /\ Finish(r)
  \/ row[r] \in Terminal /\ row'[r] = "deleted"

LEMMA Rows == ASSUME TInv, [Next]_vars, NEW q \in Runs PROVE RowStep(q)
<1>0. TypeOK /\ row \in [Runs -> RowStatus] BY DEF TInv, TypeOK
<1>a. CASE row' = row
  BY <1>a DEF RowStep
<1>b. CASE row' = Reconciled
  BY <1>0, <1>b, ReconciledType DEF RowStep
<1>1. ASSUME NEW r \in Runs, RunStep(r) PROVE RowStep(q)
  <2>1. CASE Activate(r)
    <3>1. row' = row \/ (row[r] = "pending" /\ row' = [row EXCEPT ![r] = "running"])
      BY <2>1 DEF Activate
    <3> QED BY <1>0, <3>1 DEF RowStep, Active
  <2>2. CASE Finish(r)
    <3>1. row' = row \/ (row[r] \in Active /\ row' = [row EXCEPT ![r] = ending[r]])
      BY <2>2 DEF Finish, RecordIf, Holds
    <3> QED BY <1>0, <2>2, <3>1 DEF RowStep
  <2>3. CASE row' = row
    BY <2>3 DEF RowStep
  <2> QED BY <1>1, <2>1, <2>2, <2>3 DEF RunStep, Prepare, NodeRefused, Lost, CallLlm, LlmRefused,
        LlmReturns, LlmFails, ExecuteTool, ToolReturns, ToolRaises, ToolRepeats, UpdateMemory,
        Finalize, CloseTurn, CancelDelivered, CloseStream, ledgerVars
<1>2. ASSUME NEW r \in Runs, Register(r) PROVE RowStep(q)
  BY <1>0, <1>2, ReconciledType DEF Register, RowStep
<1>3. ASSUME NEW r \in Runs, CancelPending(r) PROVE RowStep(q)
  BY <1>0, <1>3 DEF CancelPending, RecordIf, RowStep, Active
<1>4. ASSUME NEW p \in Processes, Shutdown(p) PROVE RowStep(q)
  BY <1>0, <1>4 DEF Shutdown, RowStep, Active
<1>5. ASSUME NEW s \in Sessions, DeleteSession(s) PROVE RowStep(q)
  BY <1>0, <1>5 DEF DeleteSession, RowStep
<1> QED BY <1>a, <1>b, <1>1, <1>2, <1>3, <1>4, <1>5 DEF Next, vars, ledgerVars, PrepareFails, Consume,
      StoreRaises, CancelTask, Heartbeat, CloseService, Crash, TimePasses

\* Once a row is terminal, no finish, cancellation, reconciliation or shutdown
\* rewrites it, however late: only the deletion of its session removes it.
THEOREM EndedIsFinal == Spec => EndedStays
<1>1. ASSUME TInv, [Next]_vars
      PROVE  \A r \in Runs : row[r] \in Terminal => row'[r] \in {row[r], "deleted"}
  <2> TAKE r \in Runs
  <2>1. RowStep(r) BY <1>1, Rows
  <2> QED BY <2>1 DEF RowStep, Terminal, Active
<1> QED BY AlwaysTInv, <1>1, PTL DEF Spec, EndedStays

-----------------------------------------------------------------------------
(* Stops *)

Started == InGraph \union {"ending"}

\* How far a stop of run r has got: its task is still to be cancelled, or it is on
\* its way out as cancelled, or nothing of it runs any more.
StopOf(r) ==
  /\ r \in tasks \union cancelling => pc[r] \in Started
  /\ r \in tasks \union cancelling \union stopped => row[r] # "absent"
  /\ r \in tasks => row[r] \notin {"completed", "failed"}
  /\ r \in stopped => row[r] \notin {"completed", "failed"}
  /\ r \in stopped /\ row[r] \in Active =>
       \/ r \in cancelling
       \/ pc[r] = "ending" /\ ending[r] = "cancelled"
       \/ pc[r] = "over"

Stopping == \A r \in Runs : StopOf(r)

\* A step that leaves the stop of run q where it is, or moves it on.
Calm(q) ==
  /\ q \in tasks' => q \in tasks
  /\ q \in cancelling' => q \in cancelling \union tasks
  /\ q \in stopped' => q \in stopped
  /\ pc[q] \in Started /\ q \in tasks' \union cancelling' => pc'[q] \in Started
  /\ pc[q] = "over" => pc'[q] = "over"
  /\ q \in cancelling /\ pc[q] \in Started =>
       \/ q \in cancelling'
       \/ pc'[q] = "ending" /\ ending'[q] = "cancelled"
       \/ pc'[q] = "over"
  /\ pc[q] = "ending" /\ ending[q] = "cancelled" =>
       \/ pc'[q] = "ending" /\ ending'[q] = "cancelled"
       \/ pc'[q] = "over"

LEMMA CalmKeeps ==
  ASSUME NEW q \in Runs, StopOf(q), Calm(q), RowStep(q), ~Finish(q)
  PROVE  StopOf(q)'
<1>1. row[q] # "absent" \/ q \notin tasks' \union cancelling' \union stopped'
  BY DEF StopOf, Calm
<1>2. row[q] # "absent" =>
        /\ row'[q] # "absent"
        /\ row'[q] \in Active => row[q] \in Active
        /\ row'[q] \in {"completed", "failed"} => row[q] = row'[q]
  BY DEF RowStep, Active, Terminal
<1> QED BY <1>1, <1>2 DEF StopOf, Calm

\* The steps of run r that stop nothing are calm for every run.
LEMMA RunIsCalm ==
  ASSUME TInv, Stopping, NEW r \in Runs, NEW q \in Runs,
         \/ RunStep(r) /\ ~Activate(r) /\ ~Finish(r)
         \/ Register(r) \/ PrepareFails(r) \/ Consume(r) \/ StoreRaises(r)
  PROVE  Calm(q)
<1> USE DEF serviceVars, ledgerVars, InGraph, Started
<1>0. TypeOK /\ AccountOf(r) BY DEF TInv, Accounts
<1>1. CASE Register(r)
  <2>1. pc[r] = "none"
    BY <1>0, <1>1 DEF Register, AccountOf
  <2> QED BY <1>0, <1>1, <2>1 DEF Register, Calm, TypeOK
<1>2. CASE Prepare(r) \/ Consume(r)
  <2>1. /\ pc[r] \in {"preparing", "offered"}
        /\ \A x \in Runs \ {r} : pc'[x] = pc[x] /\ ending'[x] = ending[x]
    BY <1>0, <1>2 DEF Prepare, Consume, Leave, TypeOK
  <2>2. r \notin cancelling \union tasks
    BY <2>1 DEF Stopping, StopOf
  <2> QED BY <1>2, <2>1, <2>2 DEF Prepare, Consume, Calm
<1>3. CASE PrepareFails(r) \/ NodeRefused(r) \/ ToolRaises(r) \/ CloseTurn(r) \/ StoreRaises(r)
  <2>1. /\ pc[r] \in Places \ {"none", "over", "ending"} /\ pc'[r] = "ending"
        /\ \A x \in Runs \ {r} : pc'[x] = pc[x] /\ ending'[x] = ending[x]
        /\ UNCHANGED <<tasks, cancelling, stopped>>
    BY <1>0, <1>3 DEF PrepareFails, NodeRefused, Lost, ToolRaises, CloseTurn, StoreRaises, Leave, TypeOK, Places
  <2> QED BY <2>1 DEF Calm
<1>4. CASE CancelDelivered(r)
  <2>1. /\ pc'[r] = "ending" /\ ending'[r] = "cancelled" /\ pc[r] # "over"
        /\ \A x \in Runs \ {r} : pc'[x] = pc[x] /\ ending'[x] = ending[x]
        /\ cancelling' = cancelling \ {r} /\ UNCHANGED <<tasks, stopped>>
    BY <1>0, <1>4 DEF CancelDelivered, Leave, TypeOK
  <2> QED BY <2>1 DEF Calm
<1>5. CASE CallLlm(r) \/ LlmRefused(r) \/ LlmReturns(r) \/ LlmFails(r)
  <2>1. /\ pc[r] \in {"llm", "chat"} /\ pc'[r] \in {"chat", "tools", "memory", "finalize"}
        /\ \A x \in Runs \ {r} : pc'[x] = pc[x]
        /\ UNCHANGED <<tasks, cancelling, stopped, ending>>
    BY <1>0, <1>5 DEF CallLlm, LlmRefused, LlmReturns, LlmFails, LeaveLlm, AfterLlm, TypeOK
  <2> QED BY <2>1 DEF Calm
<1>6. CASE ExecuteTool(r) \/ ToolReturns(r)
  <2>1. /\ pc[r] \in {"tools", "executing"} /\ pc'[r] \in {"tools", "executing", "memory", "ending"}
        /\ \A x \in Runs \ {r} : pc'[x] = pc[x] /\ ending'[x] = ending[x]
        /\ UNCHANGED <<tasks, cancelling, stopped>>
    BY <1>0, <1>6 DEF ExecuteTool, ToolReturns, ToolResult, Leave, TypeOK
  <2> QED BY <2>1 DEF Calm
<1>7. CASE UpdateMemory(r) \/ Finalize(r)
  <2>1. /\ pc[r] \in {"memory", "finalize"} /\ pc'[r] \in {"memory", "llm", "finalize", "finalized"}
        /\ \A x \in Runs \ {r} : pc'[x] = pc[x]
        /\ UNCHANGED <<tasks, cancelling, stopped, ending>>
    BY <1>0, <1>7 DEF UpdateMemory, Finalize, AfterMemory, TypeOK
  <2> QED BY <2>1 DEF Calm
<1>8. CASE ToolRepeats(r) \/ CloseStream(r)
  BY <1>8 DEF ToolRepeats, CloseStream, Calm
<1> QED BY <1>1, <1>2, <1>3, <1>4, <1>5, <1>6, <1>7, <1>8 DEF RunStep

LEMMA ActivateStops ==
  ASSUME TInv, Stopping, NEW r \in Runs, Activate(r), NEW q \in Runs, RowStep(q)
  PROVE  StopOf(q)'
<1>0. TypeOK /\ StopOf(q) /\ StopOf(r) BY DEF TInv, Stopping
<1>1. pc[r] = "activating" /\ r \notin tasks \union cancelling
  BY <1>0 DEF Activate, StopOf, Started, InGraph
<1>2. CASE q # r
  <2>1. Calm(q)
    BY <1>0, <1>2 DEF Activate, Leave, Calm, TypeOK
  <2>2. row'[q] = row[q]
    BY <1>0, <1>2 DEF Activate, TypeOK
  <2> QED BY <1>0, <2>1, <2>2 DEF Calm, StopOf
<1>3. CASE q = r
  <2>1. row[r] \in Active => r \notin stopped
    BY <1>0, <1>1 DEF StopOf
  <2>2. CASE row[r] = "pending" /\ row' = [row EXCEPT ![r] = "running"] /\ pc' = [pc EXCEPT ![r] = "llm"]
    BY <1>0, <1>1, <1>3, <2>1, <2>2 DEF Activate, StopOf, TypeOK, Active, Started, InGraph
  <2>3. CASE row' = row /\ tasks' = tasks
    <3>1. pc'[r] \in {"over", "ending"} \/ row[r] = "pending"
      BY <1>0 DEF Activate, Leave, TypeOK
    <3> QED BY <1>0, <1>1, <1>3, <2>1, <2>3, <3>1 DEF Activate, StopOf, Active
  <2> QED BY <2>2, <2>3 DEF Activate
<1> QED BY <1>2, <1>3

LEMMA FinishStops ==
  ASSUME TInv, Stopping, NEW r \in Runs, Finish(r), NEW q \in Runs
  PROVE  StopOf(q)'
<1>0. TypeOK /\ StopOf(q) /\ ending[q] \in Outcomes BY DEF TInv, Stopping, TypeOK
<1>1. /\ row' = row \/ (row[r] \in Active /\ row' = [row EXCEPT ![r] = ending[r]])
      /\ pc[r] = "ending" /\ r \notin cancelling /\ tasks' = tasks \ {r}
      /\ UNCHANGED <<cancelling, stopped>>
  BY DEF Finish, RecordIf, Forget, Holds
<1>2. \A x \in Runs : /\ pc'[x] = IF x = r THEN "over" ELSE pc[x]
                      /\ x # r => ending'[x] = ending[x]
  BY <1>0, <1>1 DEF Finish, Over, TypeOK
<1>3. CASE q # r
  BY <1>0, <1>1, <1>2, <1>3 DEF StopOf, TypeOK
<1>4. CASE q = r
  <2>1. r \in stopped /\ row[r] \in Active => ending[r] = "cancelled"
    BY <1>0, <1>1, <1>4 DEF StopOf
  <2>2. row'[r] # "absent" \/ row[r] = "absent"
    BY <1>0, <1>1, <1>4 DEF TypeOK, Outcomes
  <2>3. r \in stopped => row'[r] \notin {"completed", "failed"}
    BY <1>0, <1>1, <1>4, <2>1 DEF StopOf, TypeOK
  <2> QED BY <1>0, <1>1, <1>2, <1>4, <2>2, <2>3 DEF StopOf
<1> QED BY <1>3, <1>4

LEMMA CancelStops ==
  ASSUME TInv, Stopping, NEW r \in Runs, CancelTask(r) \/ CancelPending(r), NEW q \in Runs
  PROVE  StopOf(q)'
<1> USE DEF runVars
<1>0. TypeOK /\ StopOf(q) BY DEF TInv, Stopping
<1>1. CASE CancelTask(r)
  BY <1>0, <1>1 DEF CancelTask, StopOf, ledgerVars
<1>2. CASE CancelPending(r)
  <2>1. CASE Holds(r)
    BY <1>0, <1>2, <2>1 DEF CancelPending, RecordIf, Forget, StopOf, TypeOK, Active
  <2>2. CASE ~Holds(r)
    BY <1>0, <1>2, <2>2 DEF CancelPending, RecordIf, Forget, StopOf
  <2> QED BY <2>1, <2>2
<1> QED BY <1>1, <1>2

\* Heartbeats, shutdowns, deletions and the clock are calm.
LEMMA ServiceIsCalm ==
  ASSUME TInv, Stopping, NEW q \in Runs,
         \/ \E p \in Processes : Heartbeat(p) \/ CloseService(p) \/ Shutdown(p) \/ Crash(p)
         \/ \E s \in Sessions : DeleteSession(s)
         \/ TimePasses \/ UNCHANGED vars
  PROVE  Calm(q)
<1> USE DEF runVars, serviceVars, ledgerVars
<1>0. TypeOK /\ StopOf(q) BY DEF TInv, Stopping
<1>1. ASSUME NEW p \in Processes, Heartbeat(p) PROVE Calm(q)
  BY <1>1 DEF Heartbeat, Of, Calm
<1>2. ASSUME NEW p \in Processes, CloseService(p) PROVE Calm(q)
  BY <1>2 DEF CloseService, Of, Calm
<1>3. ASSUME NEW p \in Processes, Gone(p) PROVE Calm(q)
  <2>1. /\ pc'[q] = IF q \in Of(p, Runs) /\ pc[q] # "none" THEN "over" ELSE pc[q]
        /\ q \notin Of(p, Runs) => ending'[q] = ending[q]
    BY <1>0, <1>3 DEF Gone, Over, TypeOK
  <2> QED BY <1>0, <1>3, <2>1 DEF Gone, Calm, StopOf, Started, InGraph
<1>4. CASE (\E s \in Sessions : DeleteSession(s)) \/ TimePasses \/ UNCHANGED vars
  BY <1>4 DEF DeleteSession, TimePasses, vars, Calm
<1> QED BY <1>1, <1>2, <1>3, <1>4 DEF Shutdown, Crash

LEMMA NextStopping == ASSUME TInv, Stopping, [Next]_vars PROVE Stopping'
<1> SUFFICES ASSUME NEW q \in Runs PROVE StopOf(q)'
  BY DEF Stopping
<1>0. StopOf(q) /\ RowStep(q)
  BY Rows DEF Stopping
<1>1. CASE Finish(q)
  BY <1>1, FinishStops
<1>2. CASE ~Finish(q)
  <2>1. Calm(q) => StopOf(q)'
    BY <1>0, <1>2, CalmKeeps
  <2>2. ASSUME NEW r \in Runs, RunStep(r) PROVE StopOf(q)'
    BY <1>0, <2>1, <2>2, RunIsCalm, ActivateStops, FinishStops
  <2>3. ASSUME NEW r \in Runs, Register(r) \/ PrepareFails(r) \/ Consume(r) \/ StoreRaises(r)
        PROVE  StopOf(q)'
    BY <2>1, <2>3, RunIsCalm
  <2>4. ASSUME NEW r \in Runs, CancelTask(r) \/ CancelPending(r) PROVE StopOf(q)'
    BY <2>4, CancelStops
  <2> QED BY <2>1, <2>2, <2>3, <2>4, ServiceIsCalm DEF Next
<1> QED BY <1>1, <1>2

\* A run whose stop was acknowledged, before or after it began, is never recorded as
\* completed or failed: the cancellation overtakes every other way out.
THEOREM StopsAreHonoured == Spec => []StopIsHonoured
<1>1. Init => Stopping
  BY DEF Init, Stopping, StopOf
<1>2. TInv /\ Stopping /\ [Next]_vars => Stopping'
  BY NextStopping
<1>3. TInv /\ Stopping => StopIsHonoured
  BY DEF TInv, TypeOK, Stopping, StopOf, StopIsHonoured
<1> QED BY AlwaysTInv, <1>1, <1>2, <1>3, PTL DEF Spec

-----------------------------------------------------------------------------
(* The dialogue *)

\* The unique index: at most one unfinished foreground run in a session.
OneForeground ==
  \A r, q \in Foreground :
    session[r] = session[q] /\ row[r] \in Active /\ row[q] \in Active => r = q

\* Messages belong to runs of their session, and after those of an unfinished
\* foreground run there are none of another one.
LogOf(s) ==
  /\ \A i \in DOMAIN log[s] : session[log[s][i].run] = s /\ row[log[s][i].run] # "absent"
  /\ \A i, j \in DOMAIN log[s] :
       (/\ i < j /\ log[s][i].run \in Foreground /\ log[s][j].run \in Foreground
        /\ row[log[s][i].run] \in Active) => log[s][j].run = log[s][i].run
  /\ \A i, j, k \in DOMAIN log[s] :
       (/\ i < j /\ j < k /\ log[s][i].run = log[s][k].run
        /\ log[s][i].run \in Foreground /\ log[s][j].run \in Foreground)
          => log[s][j].run = log[s][i].run

Dialogue == OneForeground /\ \A s \in Sessions : LogOf(s)

\* Only a run that holds its row writes, and writing is all that step does to the
\* ledger.
LogStep ==
  \/ log' = log
  \/ \E r \in Runs, kind \in Kinds : Holds(r) /\ Written(r, kind) /\ row' = row
  \/ \E s \in Sessions : log' = [log EXCEPT ![s] = <<>>]

LEMMA Logs == ASSUME TInv, [Next]_vars PROVE LogStep
<1>0. TypeOK BY DEF TInv
<1>1. ASSUME NEW r \in Runs, RunStep(r) PROVE LogStep
  <2>1. CASE Prepare(r)
    BY <2>1 DEF Prepare, LogStep, Kinds
  <2>2. CASE UpdateMemory(r)
    <3>1. turn[r].writes # <<>> => Head(turn[r].writes) \in Kinds
      BY <1>0 DEF TypeOK, TurnState
    <3> QED BY <2>2, <3>1 DEF UpdateMemory, MayGo, LogStep
  <2>3. CASE Finalize(r)
    BY <2>3 DEF Finalize, MayGo, LogStep, Kinds
  <2>4. CASE log' = log
    BY <2>4 DEF LogStep
  <2> QED BY <1>1, <2>1, <2>2, <2>3, <2>4 DEF RunStep, Activate, NodeRefused, Lost, CallLlm, LlmRefused,
        LlmReturns, LlmFails, ExecuteTool, ToolReturns, ToolRaises, ToolRepeats, CloseTurn,
        CancelDelivered, Finish, CloseStream, ledgerVars
<1>2. CASE \E s \in Sessions : DeleteSession(s)
  BY <1>2 DEF DeleteSession, LogStep
<1>3. CASE log' = log
  BY <1>3 DEF LogStep
<1> QED BY <1>1, <1>2, <1>3 DEF Next, vars, ledgerVars, Register, PrepareFails, Consume, StoreRaises,
      CancelTask, CancelPending, Heartbeat, CloseService, Shutdown, Crash, Gone, TimePasses

LEMMA SessionsStay == ASSUME [Next]_vars PROVE session' = session
BY ZenonT(60) DEF Next, vars, RunStep, Prepare, NodeRefused, Lost, CallLlm, LlmRefused, LlmReturns, LlmFails,
   ExecuteTool, ToolReturns, ToolRaises, ToolRepeats, UpdateMemory, Finalize, CloseTurn, CancelDelivered,
   Finish, CloseStream,
   Activate, Register, PrepareFails, Consume, StoreRaises, CancelTask, CancelPending, Heartbeat,
   CloseService, Shutdown, Crash, Gone, TimePasses, DeleteSession, ledgerVars

\* Unfinished rows come from registration alone, which finds no other one.
LEMMA ActiveBefore ==
  ASSUME NEW r \in Runs, RowStep(r), row'[r] \in Active PROVE row[r] \in Active \/ Register(r)
<1>1. CASE Finish(r) /\ row[r] \in Active BY <1>1
<1> QED BY <1>1 DEF RowStep, Active

LEMMA ForegroundKept ==
  ASSUME TInv, OneForeground, [Next]_vars PROVE OneForeground'
<1>0. TypeOK /\ session' = session /\ Foreground \subseteq Runs
  BY SessionsStay, AgentConstants DEF TInv
<1>1. ASSUME NEW r \in Foreground, NEW q \in Foreground, session[r] = session[q], Register(r),
             row'[q] \in Active
      PROVE  r = q
  <2>1. Reconciled[q] \notin Active
    BY <1>0, <1>1 DEF Register, Busy
  <2>2. q # r => row'[q] = Reconciled[q]
    BY <1>0, <1>1, ReconciledType DEF Register, TypeOK
  <2> QED BY <1>1, <2>1, <2>2
<1> SUFFICES ASSUME NEW r \in Foreground, NEW q \in Foreground, session[r] = session[q],
                    row'[r] \in Active, row'[q] \in Active
             PROVE  r = q
  BY <1>0 DEF OneForeground
<1>2. (row[r] \in Active \/ Register(r)) /\ (row[q] \in Active \/ Register(q))
  BY <1>0, Rows, ActiveBefore
<1> QED BY <1>1, <1>2 DEF OneForeground

LEMMA ElementType ==
  ASSUME NEW S, NEW q \in Seq(S), NEW i \in DOMAIN q PROVE q[i] \in S
OBVIOUS

LEMMA LogKept ==
  ASSUME TInv, Dialogue, [Next]_vars, NEW s \in Sessions PROVE LogOf(s)'
<1>0. /\ TypeOK /\ LogOf(s) /\ OneForeground /\ session' = session /\ Foreground \subseteq Runs
      /\ log[s] \in Seq([run : Runs, kind : Kinds])
  BY SessionsStay, AgentConstants DEF TInv, Dialogue, TypeOK
<1>1. ASSUME NEW i \in DOMAIN log[s]
      PROVE  /\ log[s][i].run \in Runs /\ row'[log[s][i].run] # "absent"
             /\ row'[log[s][i].run] \in Active => row[log[s][i].run] \in Active
  <2>a. log[s][i] \in [run : Runs, kind : Kinds]
    BY <1>0, ElementType
  <2>b. row[log[s][i].run] # "absent"
    BY <1>0 DEF LogOf
  <2>1. log[s][i].run \in Runs /\ row[log[s][i].run] # "absent"
    BY <2>a, <2>b
  <2>2. RowStep(log[s][i].run)
    BY <2>1, Rows
  <2>3. ending[log[s][i].run] \in Outcomes
    BY <1>0, <2>1 DEF TypeOK
  <2> QED BY <2>1, <2>2, <2>3 DEF RowStep, Active, Terminal, Outcomes
<1>2. CASE log'[s] = log[s]
  BY <1>0, <1>1, <1>2 DEF LogOf
<1>3. CASE log'[s] = <<>>
  BY <1>3 DEF LogOf
<1>4. ASSUME NEW r \in Runs, NEW kind \in Kinds, Holds(r), session[r] = s, row' = row,
             log'[s] = Append(log[s], [run |-> r, kind |-> kind])
      PROVE  LogOf(s)'
  <2> DEFINE n == Len(log[s])
  <2>1. /\ n \in Nat /\ DOMAIN log[s] = 1..n /\ DOMAIN log'[s] = 1..(n + 1)
        /\ log'[s][n + 1] = [run |-> r, kind |-> kind]
        /\ \A i \in 1..n : log'[s][i] = log[s][i]
    BY <1>0, <1>4
  <2>2. log'[s][n + 1].run = r /\ row[r] \in Active
    BY <1>4, <2>1 DEF Holds
  <2> HIDE DEF n
  <2>3. \A i \in 1..(n + 1) : i \in 1..n \/ i = n + 1
    BY <2>1
  <2>4. \A i \in DOMAIN log'[s] : session[log'[s][i].run] = s /\ row[log'[s][i].run] # "absent"
    BY <1>0, <1>4, <2>1, <2>2, <2>3 DEF LogOf, Active
  <2>5. ASSUME NEW i \in DOMAIN log'[s], NEW j \in DOMAIN log'[s], i < j,
               log'[s][i].run \in Foreground, log'[s][j].run \in Foreground,
               row[log'[s][i].run] \in Active
        PROVE  log'[s][j].run = log'[s][i].run
    <3>1. i \in 1..n
      BY <2>1, <2>5
    <3>2. CASE j \in 1..n
      <4>1. log'[s][i] = log[s][i] /\ log'[s][j] = log[s][j]
        BY <2>1, <3>1, <3>2
      <4>2. i \in DOMAIN log[s] /\ j \in DOMAIN log[s]
        BY <2>1, <3>1, <3>2
      <4>3. /\ log[s][i].run \in Foreground /\ log[s][j].run \in Foreground
            /\ row[log[s][i].run] \in Active
        BY <2>5, <4>1
      <4>4. log[s][j].run = log[s][i].run
        BY <1>0, <2>5, <4>2, <4>3 DEF LogOf
      <4> QED BY <4>1, <4>4
    <3>3. CASE j = n + 1
      <4>1. session[log'[s][i].run] = s
        BY <1>0, <2>1, <3>1 DEF LogOf
      <4> QED BY <1>0, <1>4, <2>2, <2>5, <3>3, <4>1 DEF OneForeground
    <3> QED BY <2>1, <2>3, <3>2, <3>3
  <2>6. ASSUME NEW i \in DOMAIN log'[s], NEW j \in DOMAIN log'[s], NEW k \in DOMAIN log'[s],
               i < j, j < k, log'[s][i].run = log'[s][k].run,
               log'[s][i].run \in Foreground, log'[s][j].run \in Foreground
        PROVE  log'[s][j].run = log'[s][i].run
    <3>1. i \in 1..n /\ j \in 1..n
      BY <2>1, <2>6
    <3>2. CASE k \in 1..n
      <4>1. log'[s][i] = log[s][i] /\ log'[s][j] = log[s][j] /\ log'[s][k] = log[s][k]
        BY <2>1, <3>1, <3>2
      <4>2. i \in DOMAIN log[s] /\ j \in DOMAIN log[s] /\ k \in DOMAIN log[s]
        BY <2>1, <3>1, <3>2
      <4>3. /\ log[s][i].run = log[s][k].run
            /\ log[s][i].run \in Foreground /\ log[s][j].run \in Foreground
        BY <2>6, <4>1
      <4>4. log[s][j].run = log[s][i].run
        BY <1>0, <2>6, <4>2, <4>3 DEF LogOf
      <4> QED BY <4>1, <4>4
    <3>3. CASE k = n + 1
      <4>1. row[log'[s][i].run] \in Active
        BY <2>2, <2>6, <3>3
      <4> QED BY <2>5, <2>6, <4>1
    <3> QED BY <2>1, <2>3, <3>2, <3>3
  <2>7. session' = session /\ row' = row
    BY <1>0, <1>4
  <2>8. \A i \in DOMAIN log'[s] : session'[log'[s][i].run] = s /\ row'[log'[s][i].run] # "absent"
    BY <2>4, <2>7
  <2>9. \A i, j \in DOMAIN log'[s] :
          (/\ i < j /\ log'[s][i].run \in Foreground /\ log'[s][j].run \in Foreground
           /\ row'[log'[s][i].run] \in Active) => log'[s][j].run = log'[s][i].run
    BY <2>5, <2>7
  <2> QED BY <2>6, <2>8, <2>9 DEF LogOf
<1>5. CASE \E r \in Runs, kind \in Kinds : Holds(r) /\ Written(r, kind) /\ row' = row
  <2>1. PICK r \in Runs, kind \in Kinds : Holds(r) /\ Written(r, kind) /\ row' = row
    BY <1>5
  <2>2. CASE session[r] = s
    <3>1. log'[s] = Append(log[s], [run |-> r, kind |-> kind])
      BY <1>0, <2>1, <2>2 DEF Written, TypeOK
    <3> QED BY <1>4, <2>1, <2>2, <3>1
  <2>3. CASE session[r] # s
    <3>1. log'[s] = log[s]
      BY <1>0, <2>1, <2>3 DEF Written, TypeOK
    <3> QED BY <1>2, <3>1
  <2> QED BY <2>2, <2>3
<1>6. CASE \E x \in Sessions : log' = [log EXCEPT ![x] = <<>>]
  <2>1. log'[s] = <<>> \/ log'[s] = log[s]
    BY <1>0, <1>6 DEF TypeOK
  <2> QED BY <1>2, <1>3, <2>1
<1> QED BY <1>2, <1>5, <1>6, Logs DEF LogStep

\* The messages of two foreground runs of a session never mix, whatever leases expire,
\* runs are cancelled and coroutines go on after their row was given up.
THEOREM DialoguesAreUnmixed == Spec => []DialogueIsUnmixed
<1>1. Init => Dialogue
  BY AgentConstants DEF Init, Dialogue, OneForeground, LogOf, Active
<1>2. TInv /\ Dialogue /\ [Next]_vars => Dialogue'
  BY ForegroundKept, LogKept DEF Dialogue
<1>3. Dialogue => DialogueIsUnmixed
  BY DEF Dialogue, LogOf, DialogueIsUnmixed
<1> QED BY AlwaysTInv, <1>1, <1>2, <1>3, PTL DEF Spec

-----------------------------------------------------------------------------
(* The answer *)

Unanswered(q) ==
  \A i \in DOMAIN log[session[q]] :
    log[session[q]][i].run = q => log[session[q]][i].kind # "final"

\* The last message of run q, and no other of its messages, is a final one.
Answered(q) ==
  \E last \in DOMAIN log[session[q]] :
    /\ log[session[q]][last].run = q
    /\ \A i \in DOMAIN log[session[q]] : log[session[q]][i].run = q =>
         i <= last /\ (log[session[q]][i].kind = "final" <=> i = last)

\* TurnPolicy will not send the turn of q back to work: each reason to end is one
\* that stays.
Settled(q) ==
  \/ IsCancelled(q)
  \/ turn[q].error
  \/ turn[q].final /\ turn[q].pending = 0
  \/ turn[q].iterations >= MaxIterations
  \/ turn[q].late
  \/ turn[q].exhausted

NoFinal(writes) == \A i \in DOMAIN writes : writes[i] # "final"

BeforeAnswer == Outside \union Working \union {"finalize"}

\* The answer of run q, by where its coroutine stands.
AnswerOf(q) ==
  /\ pc[q] = "finalize" => Settled(q)
  /\ pc[q] \in BeforeAnswer => Unanswered(q)
  /\ NoFinal(turn[q].writes)
  /\ row[q] \in Active /\ (pc[q] = "finalized" \/ (pc[q] = "ending" /\ ending[q] = "completed"))
       => Answered(q)
  /\ row[q] = "completed" => Answered(q)

Answers == \A q \in Runs : AnswerOf(q)

\* A message of run r leaves the answers of the others alone; one of its own is its
\* answer if it is a final one.
LEMMA MessageAppended ==
  ASSUME TypeOK, session' = session, NEW q \in Runs, NEW r \in Runs, NEW kind \in Kinds,
         log'[session[q]] = Append(log[session[q]], [run |-> r, kind |-> kind])
  PROVE  /\ r # q => /\ Unanswered(q) => Unanswered(q)'
                     /\ Answered(q) => Answered(q)'
         /\ r = q /\ kind # "final" /\ Unanswered(q) => Unanswered(q)'
         /\ r = q /\ kind = "final" /\ Unanswered(q) => Answered(q)'
<1> DEFINE s == session[q]
           n == Len(log[s])
<1>0. log[s] \in Seq([run : Runs, kind : Kinds])
  BY DEF TypeOK
<1>1. /\ n \in Nat /\ DOMAIN log[s] = 1..n /\ DOMAIN log'[s] = 1..(n + 1)
      /\ log'[s][n + 1] = [run |-> r, kind |-> kind]
      /\ \A i \in 1..n : log'[s][i] = log[s][i]
  BY <1>0
<1>2. log'[s][n + 1].run = r /\ log'[s][n + 1].kind = kind
  BY <1>1
<1>3. s = session'[q]
  OBVIOUS
<1>u. Unanswered(q)' = \A i \in DOMAIN log'[s] : log'[s][i].run = q => log'[s][i].kind # "final"
  BY <1>3 DEF Unanswered
<1>v. Answered(q)' = \E last \in DOMAIN log'[s] :
         /\ log'[s][last].run = q
         /\ \A i \in DOMAIN log'[s] : log'[s][i].run = q =>
              i <= last /\ (log'[s][i].kind = "final" <=> i = last)
  BY <1>3 DEF Answered
<1> HIDE DEF n
<1>4. \A i \in 1..(n + 1) : i \in 1..n \/ i = n + 1
  BY <1>1
<1>5. Unanswered(q) => \A i \in 1..n : log'[s][i].run = q => log'[s][i].kind # "final"
  BY <1>1 DEF Unanswered
<1>6. ASSUME Unanswered(q), r # q \/ kind # "final" PROVE Unanswered(q)'
  BY <1>1, <1>2, <1>4, <1>5, <1>6, <1>u
<1>7. ASSUME Answered(q), r # q PROVE Answered(q)'
  <2>0. PICK last \in DOMAIN log[s] :
          /\ log[s][last].run = q
          /\ \A i \in DOMAIN log[s] : log[s][i].run = q =>
               i <= last /\ (log[s][i].kind = "final" <=> i = last)
    BY <1>7, Zenon DEF Answered
  <2>1. /\ last \in 1..n /\ last \in DOMAIN log'[s] /\ DOMAIN log[s] = 1..n
        /\ log'[s][last].run = q
    BY <1>1, <2>0
  <2>3. ASSUME NEW i \in DOMAIN log'[s], log'[s][i].run = q
        PROVE  i <= last /\ (log'[s][i].kind = "final" <=> i = last)
    <3>1. i \in 1..n
      BY <1>1, <1>2, <1>4, <1>7, <2>3
    <3>2. log'[s][i] = log[s][i] /\ i \in DOMAIN log[s]
      BY <1>1, <3>1
    <3> QED BY <2>0, <2>3, <3>2, Zenon
  <2>4. \A i \in DOMAIN log'[s] : log'[s][i].run = q =>
          i <= last /\ (log'[s][i].kind = "final" <=> i = last)
    BY <2>3, Zenon
  <2> QED BY <1>v, <2>1, <2>4, Zenon
<1>8. ASSUME Unanswered(q), r = q, kind = "final" PROVE Answered(q)'
  <2> DEFINE last == n + 1
  <2>1. /\ last \in DOMAIN log'[s] /\ log'[s][last].run = q /\ log'[s][last].kind = "final"
        /\ \A i \in DOMAIN log'[s] : i <= last /\ (i # last => i \in 1..n)
    BY <1>1, <1>2, <1>4, <1>8
  <2> HIDE DEF last
  <2>2. \A i \in DOMAIN log'[s] : log'[s][i].run = q =>
          i <= last /\ (log'[s][i].kind = "final" <=> i = last)
    BY <1>5, <1>8, <2>1
  <2> QED BY <1>v, <2>1, <2>2, Zenon
<1> QED BY <1>6, <1>7, <1>8

\* Equal logs say the same about an answer.
LEMMA MessagesUntouched ==
  ASSUME session' = session, NEW q \in Runs, log'[session[q]] = log[session[q]]
  PROVE  Unanswered(q)' = Unanswered(q) /\ Answered(q)' = Answered(q)
BY DEF Unanswered, Answered

LEMMA NewTurnHasNoFinal == NoFinal(NewTurn.writes)
BY DEF NoFinal, NewTurn

\* A step of somebody else, or one that ends the coroutine of q.
Bystander(q) ==
  /\ \/ /\ pc'[q] = pc[q] /\ turn'[q] = turn[q] /\ ending'[q] = ending[q]
        /\ pc[q] = "finalize" /\ IsCancelled(q) => IsCancelled(q)'
     \/ pc'[q] = (IF pc[q] = "none" THEN "none" ELSE "over") /\ turn'[q] = NewTurn
  /\ \/ log'[session[q]] = log[session[q]]
     \/ \E r \in Runs, kind \in Kinds :
          r # q /\ log'[session[q]] = Append(log[session[q]], [run |-> r, kind |-> kind])
     \/ log'[session[q]] = <<>> /\ row'[q] \notin Active \union {"completed"}
  /\ row'[q] \in Active => row[q] \in Active
  /\ row'[q] = "completed" => row[q] = "completed"

LEMMA BystanderKeeps ==
  ASSUME TypeOK, session' = session, NEW q \in Runs, AnswerOf(q), Bystander(q)
  PROVE  AnswerOf(q)'
<1>1. NoFinal(turn'[q].writes)
  BY NewTurnHasNoFinal DEF Bystander, AnswerOf
<1>2. pc'[q] = "finalize" => Settled(q)'
  <2>1. pc'[q] = "finalize" => /\ pc[q] = "finalize" /\ turn'[q] = turn[q]
                               /\ IsCancelled(q) => IsCancelled(q)'
    BY DEF Bystander
  <2> QED BY <2>1 DEF AnswerOf, Settled
<1>3. pc'[q] \in BeforeAnswer => pc[q] \in BeforeAnswer
  BY DEF Bystander, BeforeAnswer, Outside, Working
<1>4. /\ pc'[q] = "finalized" => pc[q] = "finalized"
      /\ pc'[q] = "ending" => pc[q] = "ending" /\ ending'[q] = ending[q]
  BY DEF Bystander
<1>5. Unanswered(q) => Unanswered(q)'
  <2>1. CASE log'[session[q]] = <<>>
    BY <2>1 DEF Unanswered
  <2> QED BY <2>1, MessageAppended, MessagesUntouched DEF Bystander
<1>6. row'[q] \in Active \union {"completed"} => (Answered(q) => Answered(q)')
  <2>1. CASE row'[q] \in Active \union {"completed"}
    BY <2>1, MessageAppended, MessagesUntouched DEF Bystander
  <2> QED BY <2>1
<1> QED BY <1>1, <1>2, <1>3, <1>4, <1>5, <1>6 DEF AnswerOf, Bystander

\* TurnPolicy ends a turn exactly for the reasons in Settled.
LEMMA DecisionSettles ==
  ASSUME NEW t \in TurnState, NEW c \in BOOLEAN
  PROVE  LET reasons == \/ c \/ t.error \/ (t.final /\ t.pending = 0)
                        \/ t.iterations >= MaxIterations \/ t.late \/ t.exhausted
             d == Decision(t, c)
         IN  /\ reasons <=> d \notin {"execute_tools", "continue"}
             /\ d = "stop" => t.final
             /\ d \in {"cancelled", "error", "stop", "iteration_limit", "deadline",
                       "budget_exhausted", "execute_tools", "continue"}
<1>1. /\ t.error \in BOOLEAN /\ t.final \in BOOLEAN /\ t.late \in BOOLEAN /\ t.exhausted \in BOOLEAN
      /\ t.pending \in Nat /\ t.iterations \in Nat /\ MaxIterations \in Nat
  BY AgentConstants DEF TurnState
<1> QED BY <1>1 DEF Decision

LEMMA EvaluatedTurn ==
  ASSUME NEW t \in TurnState, NEW u \in Evaluated(t)
  PROVE  /\ u \in TurnState /\ u.writes = t.writes /\ u.error = t.error /\ u.final = t.final
         /\ u.pending = t.pending /\ u.iterations = t.iterations /\ u.exhausted = t.exhausted
         /\ t.late => u.late
BY DEF Evaluated, TurnState

LEMMA NoFinalAppend ==
  ASSUME NEW w \in Seq(Kinds), NoFinal(w), NEW kind \in Kinds \ {"final"}
  PROVE  NoFinal(Append(w, kind))
<1> DEFINE n == Len(w)
<1>1. /\ n \in Nat /\ DOMAIN w = 1..n /\ DOMAIN Append(w, kind) = 1..(n + 1)
      /\ Append(w, kind)[n + 1] = kind /\ \A i \in 1..n : Append(w, kind)[i] = w[i]
  OBVIOUS
<1> HIDE DEF n
<1>2. \A i \in 1..(n + 1) : i \in 1..n \/ i = n + 1
  BY <1>1
<1> QED BY <1>1, <1>2 DEF NoFinal

LEMMA NoFinalTail ==
  ASSUME NEW w \in Seq(Kinds), NoFinal(w), w # <<>>
  PROVE  NoFinal(Tail(w)) /\ Head(w) \in Kinds \ {"final"}
<1> DEFINE n == Len(w)
<1>1. /\ n \in Nat /\ n > 0 /\ DOMAIN w = 1..n /\ DOMAIN Tail(w) = 1..(n - 1)
      /\ Head(w) = w[1] /\ \A i \in 1..(n - 1) : Tail(w)[i] = w[i + 1]
      /\ Head(w) \in Kinds
  OBVIOUS
<1> HIDE DEF n
<1>2. 1 \in 1..n /\ \A i \in 1..(n - 1) : i + 1 \in 1..n
  BY <1>1
<1> QED BY <1>1, <1>2 DEF NoFinal

\* The coroutine leaves with anything but a result.
LEMMA LeaveAnswers ==
  ASSUME TypeOK, session' = session, NEW r \in Runs, AnswerOf(r), UNCHANGED <<row, log, turn>>,
         \E status \in {"failed", "cancelled"} : Leave(r, status)
  PROVE  AnswerOf(r)'
<1>1. pc'[r] = "ending" /\ ending'[r] # "completed"
  BY DEF Leave, TypeOK
<1>2. Unanswered(r)' = Unanswered(r) /\ Answered(r)' = Answered(r)
  BY MessagesUntouched
<1> QED BY <1>1, <1>2 DEF AnswerOf, BeforeAnswer, Outside, Working

\* The coroutine goes on, before its answer.
LEMMA GoOnAnswers ==
  ASSUME TypeOK, session' = session, NEW r \in Runs, AnswerOf(r),
         pc[r] \in BeforeAnswer, pc'[r] \in BeforeAnswer,
         pc'[r] = "finalize" => Settled(r)',
         NoFinal(turn'[r].writes),
         row'[r] = "completed" => row[r] = "completed",
         \/ log'[session[r]] = log[session[r]]
         \/ \E kind \in Kinds \ {"final"} :
              /\ Holds(r) /\ row' = row
              /\ log'[session[r]] = Append(log[session[r]], [run |-> r, kind |-> kind])
  PROVE  AnswerOf(r)'
<1>0. pc'[r] # "finalized" /\ pc'[r] # "ending"
  BY DEF BeforeAnswer, Outside, Working
<1>1. CASE log'[session[r]] = log[session[r]]
  <2>1. Unanswered(r)' = Unanswered(r) /\ Answered(r)' = Answered(r)
    BY <1>1, MessagesUntouched
  <2> QED BY <1>0, <2>1 DEF AnswerOf
<1>2. ASSUME NEW kind \in Kinds \ {"final"}, Holds(r), row' = row,
             log'[session[r]] = Append(log[session[r]], [run |-> r, kind |-> kind])
      PROVE  AnswerOf(r)'
  <2>1. Unanswered(r)'
    BY <1>2, MessageAppended DEF AnswerOf
  <2>2. row'[r] # "completed"
    BY <1>2 DEF Holds, Active
  <2> QED BY <1>0, <2>1, <2>2 DEF AnswerOf
<1> QED BY <1>1, <1>2

\* A turn whose evaluation ends it is settled.
LEMMA EndIsSettled ==
  ASSUME TypeOK, NEW r \in Runs, NEW t \in TurnState, turn' = [turn EXCEPT ![r] = t],
         UNCHANGED <<fenced, cancelling>>,
         Decision(t, IsCancelled(r)) \notin {"execute_tools", "continue"}
  PROVE  Settled(r)'
<1>1. IsCancelled(r) \in BOOLEAN
  BY DEF IsCancelled
<1>2. \/ IsCancelled(r) \/ t.error \/ (t.final /\ t.pending = 0)
      \/ t.iterations >= MaxIterations \/ t.late \/ t.exhausted
  BY <1>1, DecisionSettles
<1>3. turn'[r] = t /\ (IsCancelled(r) => IsCancelled(r)')
  BY DEF TypeOK, IsCancelled
<1> QED BY <1>2, <1>3 DEF Settled

LEMMA LeaveLlmAnswers ==
  ASSUME TypeOK, NEW r \in Runs, AnswerOf(r), pc[r] \in {"llm", "chat"},
         NEW t \in TurnState, NoFinal(t.writes), LeaveLlm(r, t),
         UNCHANGED <<row, session, log, fenced, cancelling>>
  PROVE  AnswerOf(r)'
<1>1. PICK u \in Evaluated(t) :
        /\ turn' = [turn EXCEPT ![r] = u]
        /\ pc' = [pc EXCEPT ![r] = AfterLlm(Decision(u, IsCancelled(r)))]
  BY DEF LeaveLlm
<1>2. u \in TurnState /\ u.writes = t.writes
  BY EvaluatedTurn
<1>3. turn'[r] = u /\ pc'[r] = AfterLlm(Decision(u, IsCancelled(r)))
  BY <1>1 DEF TypeOK
<1>4. pc'[r] \in {"tools", "memory", "finalize"}
  BY <1>3 DEF AfterLlm
<1>5. pc'[r] = "finalize" => Decision(u, IsCancelled(r)) \notin {"execute_tools", "continue"}
  BY <1>3 DEF AfterLlm
<1>6. pc'[r] = "finalize" => Settled(r)'
  BY <1>1, <1>2, <1>5, EndIsSettled
<1>7. pc[r] \in BeforeAnswer /\ pc'[r] \in BeforeAnswer
  BY <1>4 DEF BeforeAnswer, Working
<1>8. NoFinal(turn'[r].writes)
  BY <1>2, <1>3
<1> QED BY <1>6, <1>7, <1>8, GoOnAnswers

LEMMA ToolResultAnswers ==
  ASSUME TypeOK, NEW r \in Runs, AnswerOf(r), pc[r] \in {"tools", "executing"},
         NEW terminal \in BOOLEAN, ToolResult(r, terminal), UNCHANGED <<row, session, log>>
  PROVE  AnswerOf(r)'
<1>0. turn[r] \in TurnState /\ turn[r].writes \in Seq(Kinds) /\ NoFinal(turn[r].writes)
  BY DEF TypeOK, TurnState, AnswerOf
<1>1. turn'[r].writes = Append(turn[r].writes, "result")
  BY <1>0 DEF ToolResult, TypeOK, TurnState
<1>2. NoFinal(turn'[r].writes)
  BY <1>0, <1>1, NoFinalAppend DEF Kinds
<1>3. pc'[r] \in {"memory", "tools"}
  BY DEF ToolResult, TypeOK
<1>4. pc[r] \in BeforeAnswer /\ pc'[r] \in BeforeAnswer /\ pc'[r] # "finalize"
  BY <1>3 DEF BeforeAnswer, Working
<1> QED BY <1>2, <1>4, GoOnAnswers

\* What another run's coroutine does to run q.
Apart(r, q) ==
  /\ pc'[q] = pc[q] /\ turn'[q] = turn[q] /\ ending'[q] = ending[q]
  /\ IsCancelled(q) => IsCancelled(q)'
  /\ log' = log \/ \E kind \in Kinds : Written(r, kind)

LEMMA OthersApart ==
  ASSUME TypeOK, NEW r \in Runs, NEW q \in Runs \ {r},
         \/ RunStep(r) \/ Register(r) \/ PrepareFails(r) \/ Consume(r) \/ StoreRaises(r)
         \/ CancelTask(r) \/ CancelPending(r)
  PROVE  Apart(r, q)
<1> USE DEF serviceVars, ledgerVars, runVars
<1>1. CASE Register(r) \/ Consume(r) \/ CancelTask(r) \/ CancelPending(r) \/ Activate(r)
  BY <1>1 DEF Register, Consume, CancelTask, CancelPending, Activate, Leave, Apart, IsCancelled, TypeOK
<1>2. CASE Prepare(r)
  BY <1>2 DEF Prepare, Leave, Apart, IsCancelled, TypeOK, Kinds
<1>3. CASE PrepareFails(r) \/ NodeRefused(r) \/ ToolRaises(r) \/ CloseTurn(r) \/ StoreRaises(r)
  BY <1>3 DEF PrepareFails, NodeRefused, Lost, ToolRaises, CloseTurn, StoreRaises, Leave, Apart,
     IsCancelled, TypeOK
<1>4. CASE CancelDelivered(r)
  BY <1>4 DEF CancelDelivered, Leave, Apart, IsCancelled, TypeOK
<1>5. CASE CallLlm(r) \/ LlmRefused(r) \/ LlmReturns(r) \/ LlmFails(r)
  <2>1. /\ pc'[q] = pc[q] /\ turn'[q] = turn[q]
        /\ UNCHANGED <<ending, fenced, cancelling, log>>
    BY <1>5 DEF CallLlm, LlmRefused, LlmReturns, LlmFails, LeaveLlm, TypeOK
  <2> QED BY <2>1 DEF Apart, IsCancelled
<1>6. CASE ExecuteTool(r) \/ ToolReturns(r)
  <2>1. /\ pc'[q] = pc[q] /\ turn'[q] = turn[q] /\ ending'[q] = ending[q]
        /\ UNCHANGED <<fenced, cancelling, log>>
    <3>1. ASSUME NEW terminal \in BOOLEAN, ToolResult(r, terminal)
          PROVE  pc'[q] = pc[q] /\ turn'[q] = turn[q]
      BY <3>1 DEF ToolResult, TypeOK
    <3>2. CASE ExecuteTool(r)
      BY <3>1, <3>2 DEF ExecuteTool, TypeOK
    <3>3. CASE ToolReturns(r)
      BY <3>1, <3>3 DEF ToolReturns, Leave, TypeOK
    <3> QED BY <1>6, <3>2, <3>3
  <2> QED BY <2>1 DEF Apart, IsCancelled
<1>7. CASE UpdateMemory(r)
  <2>1. turn[r].writes # <<>> => Head(turn[r].writes) \in Kinds
    BY DEF TypeOK, TurnState
  <2> QED BY <1>7, <2>1 DEF UpdateMemory, Apart, IsCancelled, TypeOK
<1>8. CASE Finalize(r)
  BY <1>8 DEF Finalize, Apart, IsCancelled, TypeOK, Kinds
<1>9. CASE Finish(r)
  BY <1>9 DEF Finish, Over, Apart, IsCancelled, TypeOK
<1>10. CASE ToolRepeats(r) \/ CloseStream(r)
  BY <1>10 DEF ToolRepeats, CloseStream, Apart, IsCancelled, TypeOK
<1> QED BY <1>1, <1>2, <1>3, <1>4, <1>5, <1>6, <1>7, <1>8, <1>9, <1>10 DEF RunStep

LEMMA OthersStandBy ==
  ASSUME TInv, session' = session, NEW r \in Runs, NEW q \in Runs \ {r}, Apart(r, q), RowStep(q)
  PROVE  Bystander(q)
<1>0. TypeOK /\ AccountOf(q) BY DEF TInv, Accounts
<1>1. ~Register(q) /\ ~Finish(q)
  BY <1>0 DEF Apart, Register, Finish, Over, AccountOf, TypeOK
<1>2. /\ row'[q] \in Active => row[q] \in Active
      /\ row'[q] = "completed" => row[q] = "completed"
  BY <1>1 DEF RowStep, Active, Terminal
<1>3. \/ log'[session[q]] = log[session[q]]
      \/ \E kind \in Kinds :
           log'[session[q]] = Append(log[session[q]], [run |-> r, kind |-> kind])
  BY <1>0 DEF Apart, Written, TypeOK
<1> QED BY <1>2, <1>3 DEF Apart, Bystander

\* Cancellations, heartbeats, ends of processes, deletions and the clock.
LEMMA ServiceStandsBy ==
  ASSUME TInv, [Next]_vars, NEW q \in Runs,
         \/ CancelTask(q) \/ CancelPending(q)
         \/ \E p \in Processes : Heartbeat(p) \/ CloseService(p) \/ Shutdown(p) \/ Crash(p)
         \/ \E s \in Sessions : DeleteSession(s)
         \/ TimePasses \/ UNCHANGED vars
  PROVE  Bystander(q)
<1> USE DEF runVars, serviceVars, ledgerVars
<1>0. TypeOK /\ AccountOf(q) /\ RowStep(q) BY Rows DEF TInv, Accounts
<1>a. ASSUME pc'[q] = pc[q] PROVE (row'[q] \in Active => row[q] \in Active)
                                  /\ (row'[q] = "completed" => row[q] = "completed")
  <2>1. ~Register(q) /\ ~Finish(q)
    BY <1>0, <1>a DEF Register, Finish, Over, AccountOf, TypeOK
  <2> QED BY <1>0, <2>1 DEF RowStep, Active, Terminal
<1>1. CASE CancelTask(q) \/ CancelPending(q) \/ TimePasses \/ UNCHANGED vars
  BY <1>1, <1>a DEF CancelTask, CancelPending, TimePasses, vars, Bystander, IsCancelled
<1>2. CASE \E p \in Processes : Heartbeat(p) \/ CloseService(p)
  BY <1>2, <1>a DEF Heartbeat, CloseService, Bystander, IsCancelled
<1>3. ASSUME NEW p \in Processes, Shutdown(p) \/ Crash(p) PROVE Bystander(q)
  <2>1. \/ q \in Of(p, Runs) /\ pc'[q] = (IF pc[q] = "none" THEN "none" ELSE "over") /\ turn'[q] = NewTurn
        \/ /\ q \notin Of(p, Runs) /\ pc'[q] = pc[q] /\ turn'[q] = turn[q] /\ ending'[q] = ending[q]
           /\ IsCancelled(q) => IsCancelled(q)'
    BY <1>0, <1>3 DEF Shutdown, Crash, Gone, Over, TypeOK, IsCancelled
  <2>2. row'[q] = row[q] \/ row'[q] = "not_started"
    BY <1>0, <1>3 DEF Shutdown, Crash, TypeOK
  <2>3. log' = log
    BY <1>3 DEF Shutdown, Crash, Gone
  <2> QED BY <2>1, <2>2, <2>3 DEF Bystander, Active
<1>4. ASSUME NEW s \in Sessions, DeleteSession(s) PROVE Bystander(q)
  <2>1. log'[session[q]] = log[session[q]] \/ (session[q] = s /\ log'[session[q]] = <<>>)
    BY <1>0, <1>4 DEF DeleteSession, TypeOK
  <2>2. session[q] = s => row'[q] \notin Active \union {"completed"}
    BY <1>0, <1>4 DEF DeleteSession, TypeOK, Active, Terminal
  <2> QED BY <1>4, <1>a, <2>1, <2>2 DEF DeleteSession, Bystander, IsCancelled
<1> QED BY <1>1, <1>2, <1>3, <1>4

\* finalize never ends a turn without its message.
LEMMA FinalizeAnswers ==
  ASSUME TypeOK, NEW r \in Runs, AnswerOf(r), Finalize(r) PROVE AnswerOf(r)'
<1>0. turn[r] \in TurnState /\ IsCancelled(r) \in BOOLEAN /\ Settled(r) /\ Unanswered(r)
      /\ session' = session /\ row' = row /\ Holds(r)
  BY DEF Finalize, MayGo, AnswerOf, TypeOK, IsCancelled, BeforeAnswer
<1>1. PICK t \in Evaluated(turn[r]) :
       LET d == Decision(t, IsCancelled(r))
           failed == d \in {"cancelled", "error", "iteration_limit", "deadline"} IN
       /\ turn' = [turn EXCEPT ![r] = [t EXCEPT !.error = failed]]
       /\ \/ /\ failed \/ t.final \/ d = "budget_exhausted"
             /\ Written(r, "final")
          \/ /\ ~(failed \/ t.final \/ d = "budget_exhausted")
             /\ UNCHANGED log
  BY DEF Finalize
<1> DEFINE d == Decision(t, IsCancelled(r))
<1>2. /\ t \in TurnState /\ t.writes = turn[r].writes /\ t.error = turn[r].error
      /\ t.final = turn[r].final /\ t.pending = turn[r].pending
      /\ t.iterations = turn[r].iterations /\ t.exhausted = turn[r].exhausted
      /\ turn[r].late => t.late
  BY <1>0, EvaluatedTurn
<1>3. \/ IsCancelled(r) \/ t.error \/ (t.final /\ t.pending = 0)
      \/ t.iterations >= MaxIterations \/ t.late \/ t.exhausted
  BY <1>0, <1>2 DEF Settled
<1>4. /\ d \notin {"execute_tools", "continue"}
      /\ d = "stop" => t.final
      /\ d \in {"cancelled", "error", "stop", "iteration_limit", "deadline",
                "budget_exhausted", "execute_tools", "continue"}
  BY <1>0, <1>2, <1>3, DecisionSettles
<1> HIDE DEF d
<1>5. Written(r, "final")
  BY <1>1, <1>4 DEF d
<1>6. log'[session[r]] = Append(log[session[r]], [run |-> r, kind |-> "final"])
  BY <1>5 DEF Written, TypeOK
<1>7. Answered(r)'
  BY <1>0, <1>6, MessageAppended DEF Kinds
<1>8. turn'[r].writes = t.writes
  BY <1>1, <1>2 DEF TypeOK, TurnState
<1>9. pc'[r] = "finalized"
  BY DEF Finalize, TypeOK
<1> QED BY <1>2, <1>7, <1>8, <1>9 DEF AnswerOf, BeforeAnswer, Outside, Working

LEMMA UpdateMemoryAnswers ==
  ASSUME TypeOK, NEW r \in Runs, AnswerOf(r), UpdateMemory(r) PROVE AnswerOf(r)'
<1> USE DEF serviceVars
<1>0. /\ turn[r] \in TurnState /\ turn[r].writes \in Seq(Kinds) /\ NoFinal(turn[r].writes)
      /\ session' = session /\ row' = row /\ Holds(r) /\ pc[r] = "memory"
      /\ UNCHANGED <<fenced, cancelling>>
  BY DEF UpdateMemory, MayGo, AnswerOf, TypeOK, TurnState
<1>1. ASSUME turn[r].writes # <<>>, Written(r, Head(turn[r].writes)),
             turn' = [turn EXCEPT ![r].writes = Tail(@)], pc' = pc
      PROVE  AnswerOf(r)'
  <2>1. NoFinal(Tail(turn[r].writes)) /\ Head(turn[r].writes) \in Kinds \ {"final"}
    BY <1>0, <1>1, NoFinalTail
  <2>2. turn'[r].writes = Tail(turn[r].writes)
    BY <1>0, <1>1 DEF TypeOK, TurnState
  <2>3. log'[session[r]] = Append(log[session[r]], [run |-> r, kind |-> Head(turn[r].writes)])
    BY <1>1 DEF Written, TypeOK
  <2>4. pc[r] \in BeforeAnswer /\ pc'[r] \in BeforeAnswer /\ pc'[r] # "finalize"
    BY <1>0, <1>1 DEF BeforeAnswer, Working
  <2>5. NoFinal(turn'[r].writes)
    BY <2>1, <2>2
  <2> QED BY <1>0, <2>1, <2>3, <2>4, <2>5, GoOnAnswers
<1>2. ASSUME NEW t \in Evaluated(turn[r]), turn' = [turn EXCEPT ![r] = t],
             pc' = [pc EXCEPT ![r] = AfterMemory(Decision(t, IsCancelled(r)))], log' = log
      PROVE  AnswerOf(r)'
  <2>1. t \in TurnState /\ t.writes = turn[r].writes
    BY <1>0, EvaluatedTurn
  <2>2. turn'[r] = t /\ pc'[r] = AfterMemory(Decision(t, IsCancelled(r)))
    BY <1>2 DEF TypeOK
  <2>3. pc'[r] \in {"llm", "finalize"}
    BY <2>2 DEF AfterMemory
  <2>4. pc'[r] = "finalize" => Decision(t, IsCancelled(r)) \notin {"execute_tools", "continue"}
    BY <2>2 DEF AfterMemory
  <2>5. pc'[r] = "finalize" => Settled(r)'
    BY <1>0, <1>2, <2>1, <2>4, EndIsSettled
  <2>6. pc[r] \in BeforeAnswer /\ pc'[r] \in BeforeAnswer
    BY <1>0, <2>3 DEF BeforeAnswer, Working
  <2>7. NoFinal(turn'[r].writes)
    BY <1>0, <2>1, <2>2
  <2> QED BY <1>0, <1>2, <2>5, <2>6, <2>7, GoOnAnswers
<1> QED BY <1>1, <1>2 DEF UpdateMemory

LEMMA LlmAnswers ==
  ASSUME TypeOK, NEW r \in Runs, AnswerOf(r),
         CallLlm(r) \/ LlmRefused(r) \/ LlmReturns(r) \/ LlmFails(r)
  PROVE  AnswerOf(r)'
<1> USE DEF serviceVars, ledgerVars
<1>0. /\ turn[r] \in TurnState /\ turn[r].writes \in Seq(Kinds) /\ NoFinal(turn[r].writes)
      /\ UNCHANGED <<row, session, log, fenced, cancelling>> /\ pc[r] \in {"llm", "chat"}
  BY DEF CallLlm, LlmRefused, LlmReturns, LlmFails, AnswerOf, TypeOK, TurnState
<1>a. ASSUME NEW t \in TurnState, NoFinal(t.writes), LeaveLlm(r, t) PROVE AnswerOf(r)'
  BY <1>0, <1>a, LeaveLlmAnswers
<1>1. CASE CallLlm(r)
  <2>1. CASE pc' = [pc EXCEPT ![r] = "chat"] /\ UNCHANGED turn
    <3>1. pc[r] \in BeforeAnswer /\ pc'[r] \in BeforeAnswer /\ pc'[r] # "finalize"
      BY <1>0, <2>1 DEF BeforeAnswer, Working, TypeOK
    <3>2. NoFinal(turn'[r].writes)
      BY <1>0, <2>1
    <3> QED BY <1>0, <3>1, <3>2, GoOnAnswers
  <2>2. CASE LeaveLlm(r, [turn[r] EXCEPT !.exhausted = TRUE, !.pending = 0])
    <3> DEFINE t == [turn[r] EXCEPT !.exhausted = TRUE, !.pending = 0]
    <3>1. t \in TurnState /\ t.writes = turn[r].writes
      BY <1>0 DEF TurnState
    <3> QED BY <1>0, <1>a, <2>2, <3>1
  <2> QED BY <1>1, <2>1, <2>2 DEF CallLlm
<1>2. CASE LlmRefused(r)
  <2>1. CASE LeaveLlm(r, [turn[r] EXCEPT !.error = TRUE])
    <3> DEFINE t == [turn[r] EXCEPT !.error = TRUE]
    <3>1. t \in TurnState /\ t.writes = turn[r].writes
      BY <1>0 DEF TurnState
    <3> QED BY <1>0, <1>a, <2>1, <3>1
  <2>2. CASE LeaveLlm(r, [turn[r] EXCEPT !.iterations = @ + 1, !.final = TRUE, !.pending = 0])
    <3> DEFINE t == [turn[r] EXCEPT !.iterations = @ + 1, !.final = TRUE, !.pending = 0]
    <3>0. turn[r].iterations + 1 \in Nat
      BY <1>0 DEF TurnState
    <3>1. t \in TurnState /\ t.writes = turn[r].writes
      BY <1>0, <3>0 DEF TurnState
    <3> QED BY <1>0, <1>a, <2>2, <3>1
  <2> QED BY <1>2, <2>1, <2>2 DEF LlmRefused
<1>3. CASE LlmReturns(r)
  <2>1. PICK n \in 0..MaxCalls :
       LeaveLlm(r, [turn[r] EXCEPT !.iterations = @ + 1, !.final = TRUE, !.pending = n,
                                   !.writes = IF n = 0 THEN @ ELSE Append(@, "calls")])
    BY <1>3 DEF LlmReturns
  <2> DEFINE w == IF n = 0 THEN turn[r].writes ELSE Append(turn[r].writes, "calls")
             t == [turn[r] EXCEPT !.iterations = @ + 1, !.final = TRUE, !.pending = n,
                                   !.writes = IF n = 0 THEN @ ELSE Append(@, "calls")]
  <2>2. n \in Nat /\ w \in Seq(Kinds) /\ turn[r].iterations + 1 \in Nat
    BY <1>0, AgentConstants DEF Kinds, TurnState
  <2>3. NoFinal(w)
    BY <1>0, NoFinalAppend DEF Kinds
  <2>4. t.writes = w /\ t = [turn[r] EXCEPT !.iterations = @ + 1, !.final = TRUE, !.pending = n, !.writes = w]
    BY <1>0 DEF TurnState
  <2>5. t \in TurnState
    <3> HIDE DEF w, t
    <3> QED BY <1>0, <2>2, <2>4 DEF TurnState
  <2> QED BY <1>a, <2>1, <2>3, <2>4, <2>5
<1>4. CASE LlmFails(r)
  <2> DEFINE t == [turn[r] EXCEPT !.error = TRUE]
  <2>1. t \in TurnState /\ t.writes = turn[r].writes
    BY <1>0 DEF TurnState
  <2> QED BY <1>0, <1>4, <1>a, <2>1 DEF LlmFails
<1> QED BY <1>1, <1>2, <1>3, <1>4

\* The run keeps or earns its answer with every step of its own.
LEMMA OwnStepAnswers ==
  ASSUME TInv, session' = session, NEW r \in Runs, AnswerOf(r), RowStep(r),
         RunStep(r) \/ Register(r) \/ PrepareFails(r) \/ Consume(r) \/ StoreRaises(r)
  PROVE  AnswerOf(r)'
<1> USE DEF serviceVars, ledgerVars
<1>0. TypeOK /\ AccountOf(r) /\ NoFinal(turn[r].writes)
  BY DEF TInv, Accounts, AnswerOf
<1>1. CASE Register(r) \/ Consume(r) \/ (Prepare(r) /\ Holds(r))
  <2>1. /\ pc[r] \in BeforeAnswer /\ pc'[r] \in BeforeAnswer /\ pc'[r] # "finalize"
        /\ turn' = turn
    BY <1>0, <1>1 DEF Register, Consume, Prepare, AccountOf, BeforeAnswer, Outside, TypeOK
  <2>2. row'[r] = "completed" => row[r] = "completed"
    BY <1>0, <1>1 DEF Register, Consume, Prepare, TypeOK, Reconciled
  <2>3. \/ log'[session[r]] = log[session[r]]
        \/ /\ Holds(r) /\ row' = row
           /\ log'[session[r]] = Append(log[session[r]], [run |-> r, kind |-> "user"])
    BY <1>0, <1>1 DEF Register, Consume, Prepare, Written, TypeOK
  <2>4. \/ log'[session[r]] = log[session[r]]
        \/ \E kind \in Kinds \ {"final"} :
             /\ Holds(r) /\ row' = row
             /\ log'[session[r]] = Append(log[session[r]], [run |-> r, kind |-> kind])
    BY <2>3 DEF Kinds
  <2> QED BY <1>0, <2>1, <2>2, <2>4, GoOnAnswers
<1>2. CASE \/ (Prepare(r) /\ ~Holds(r)) \/ PrepareFails(r) \/ NodeRefused(r) \/ ToolRaises(r)
           \/ StoreRaises(r) \/ CancelDelivered(r)
           \/ (ToolReturns(r) /\ ~Holds(r)) \/ (CloseTurn(r) /\ ~Holds(r))
  <2>1. UNCHANGED <<row, log, turn>> /\ \E status \in {"failed", "cancelled"} : Leave(r, status)
    BY <1>2 DEF Prepare, PrepareFails, NodeRefused, Lost, ToolRaises, StoreRaises, CancelDelivered,
       ToolReturns, CloseTurn
  <2> QED BY <1>0, <2>1, LeaveAnswers
<1>3. CASE Activate(r)
  <2>1. CASE Leave(r, "failed") /\ UNCHANGED row
    BY <1>0, <1>3, <2>1, LeaveAnswers DEF Activate
  <2>2. CASE row' = [row EXCEPT ![r] = "running"] /\ pc' = [pc EXCEPT ![r] = "llm"]
    <3>1. /\ pc[r] \in BeforeAnswer /\ pc'[r] \in BeforeAnswer /\ pc'[r] # "finalize"
          /\ turn' = turn /\ log' = log /\ row'[r] # "completed"
      BY <1>0, <1>3, <2>2 DEF Activate, BeforeAnswer, Outside, Working, TypeOK
    <3> QED BY <1>0, <3>1, GoOnAnswers
  <2>3. CASE pc' = [pc EXCEPT ![r] = "over"] /\ UNCHANGED row
    <3>1. pc'[r] = "over" /\ turn' = turn /\ log' = log
      BY <1>0, <1>3, <2>3 DEF Activate, TypeOK
    <3>2. Answered(r)' = Answered(r)
      BY <3>1, MessagesUntouched
    <3> QED BY <2>3, <3>1, <3>2 DEF AnswerOf, BeforeAnswer, Outside, Working
  <2> QED BY <1>3, <2>1, <2>2, <2>3 DEF Activate
<1>4. CASE CallLlm(r) \/ LlmRefused(r) \/ LlmReturns(r) \/ LlmFails(r)
  BY <1>0, <1>4, LlmAnswers
<1>5. CASE ExecuteTool(r) \/ ToolRepeats(r) \/ (ToolReturns(r) /\ Holds(r))
  <2>1. UNCHANGED <<row, session, log>> /\ pc[r] \in {"tools", "executing"}
    BY <1>5 DEF ExecuteTool, ToolRepeats, ToolReturns
  <2>2. CASE \E terminal \in BOOLEAN : ToolResult(r, terminal)
    BY <1>0, <2>1, <2>2, ToolResultAnswers
  <2>3. CASE /\ pc'[r] = "executing"
             /\ turn' = [turn EXCEPT ![r].tries = 1] \/ turn' = [turn EXCEPT ![r].tries = @ + 1]
    <3>1. pc[r] \in BeforeAnswer /\ pc'[r] \in BeforeAnswer /\ pc'[r] # "finalize"
      BY <1>0, <2>1, <2>3 DEF BeforeAnswer, Working, TypeOK
    <3>2. turn'[r].writes = turn[r].writes
      BY <1>0, <2>3 DEF TypeOK, TurnState
    <3>3. NoFinal(turn'[r].writes)
      BY <1>0, <3>2 DEF AnswerOf
    <3> QED BY <1>0, <2>1, <3>1, <3>3, GoOnAnswers
  <2>4. ToolRepeats(r) => pc'[r] = "executing"
    BY DEF ToolRepeats
  <2>5. pc' = [pc EXCEPT ![r] = "executing"] => pc'[r] = "executing"
    BY <1>0 DEF TypeOK
  <2> QED BY <1>5, <2>2, <2>3, <2>4, <2>5 DEF ExecuteTool, ToolRepeats, ToolReturns
<1>6. CASE UpdateMemory(r)
  BY <1>0, <1>6, UpdateMemoryAnswers
<1>7. CASE Finalize(r)
  BY <1>0, <1>7, FinalizeAnswers
<1>8. CASE CloseTurn(r) /\ Holds(r)
  <2>1. /\ pc[r] = "finalized" /\ pc'[r] = "ending" /\ row[r] \in Active
        /\ UNCHANGED <<row, log, turn>>
    BY <1>0, <1>8 DEF CloseTurn, Leave, Holds, TypeOK
  <2>2. Answered(r)' = Answered(r) /\ Answered(r)
    BY <2>1, MessagesUntouched DEF AnswerOf
  <2> QED BY <2>1, <2>2 DEF AnswerOf, BeforeAnswer, Outside, Working
<1>9. CASE Finish(r)
  <2>1. pc[r] = "ending" /\ pc'[r] = "over" /\ turn'[r] = NewTurn /\ log' = log
    BY <1>0, <1>9 DEF Finish, Over, TypeOK
  <2>2. row'[r] = row[r] \/ (row[r] \in Active /\ row'[r] = ending[r])
    BY <1>0, <1>9 DEF Finish, RecordIf, Holds, TypeOK
  <2>3. Answered(r)' = Answered(r)
    BY <2>1, MessagesUntouched
  <2>4. row'[r] = "completed" => Answered(r)
    BY <2>1, <2>2 DEF AnswerOf
  <2> QED BY <2>1, <2>3, <2>4, NewTurnHasNoFinal DEF AnswerOf, BeforeAnswer, Outside, Working
<1>10. CASE CloseStream(r)
  <2>1. /\ pc'[r] = "over" /\ turn' = turn /\ log' = log /\ row' = row
    BY <1>10 DEF CloseStream, ledgerVars
  <2>2. Answered(r)' = Answered(r)
    BY <2>1, MessagesUntouched
  <2> QED BY <2>1, <2>2 DEF AnswerOf, BeforeAnswer, Outside, Working
<1> QED BY <1>1, <1>2, <1>3, <1>4, <1>5, <1>6, <1>7, <1>8, <1>9, <1>10 DEF RunStep

LEMMA NextAnswers == ASSUME TInv, Answers, [Next]_vars PROVE Answers'
<1> SUFFICES ASSUME NEW q \in Runs PROVE AnswerOf(q)'
  BY DEF Answers
<1>0. TypeOK /\ AnswerOf(q) /\ RowStep(q) /\ session' = session
  BY Rows, SessionsStay DEF Answers, TInv
<1>1. Bystander(q) => AnswerOf(q)'
  BY <1>0, BystanderKeeps
<1>2. ASSUME NEW r \in Runs,
             \/ RunStep(r) \/ Register(r) \/ PrepareFails(r) \/ Consume(r) \/ StoreRaises(r)
             \/ CancelTask(r) \/ CancelPending(r)
      PROVE  AnswerOf(q)'
  <2>1. CASE r = q
    BY <1>0, <1>1, <1>2, <2>1, OwnStepAnswers, ServiceStandsBy
  <2>2. CASE r # q
    <3>1. Apart(r, q)
      BY <1>0, <1>2, <2>2, OthersApart
    <3> QED BY <1>0, <1>1, <2>2, <3>1, OthersStandBy
  <2> QED BY <2>1, <2>2
<1> QED BY <1>1, <1>2, ServiceStandsBy DEF Next

\* A run recorded as completed has stored its answer, once and as its last message:
\* whatever ends the turn (limit, deadline, budget, error, cancellation, a terminal
\* tool), finalize writes it before the row can say completed, and nothing of the run
\* is written after it.
THEOREM CompletedIsAnswered == Spec => []CompletedHasAnswer
<1>1. Init => Answers
  BY NewTurnHasNoFinal DEF Init, Answers, AnswerOf, Unanswered, Active
<1>2. TInv /\ Answers /\ [Next]_vars => Answers'
  BY NextAnswers
<1>3. Answers => CompletedHasAnswer
  <2> SUFFICES ASSUME Answers, NEW r \in Runs, row[r] = "completed"
               PROVE  LET mine == {i \in DOMAIN log[session[r]] : log[session[r]][i].run = r} IN
                      \E last \in mine :
                        \A i \in mine : i <= last /\ (log[session[r]][i].kind = "final" <=> i = last)
    BY DEF CompletedHasAnswer
  <2>1. Answered(r)
    BY DEF Answers, AnswerOf
  <2>2. PICK last \in DOMAIN log[session[r]] :
          /\ log[session[r]][last].run = r
          /\ \A i \in DOMAIN log[session[r]] : log[session[r]][i].run = r =>
               i <= last /\ (log[session[r]][i].kind = "final" <=> i = last)
    BY <2>1, Zenon DEF Answered
  <2> DEFINE mine == {i \in DOMAIN log[session[r]] : log[session[r]][i].run = r}
  <2>3. last \in mine
    BY <2>2
  <2>4. ASSUME NEW i \in mine
        PROVE  i <= last /\ (log[session[r]][i].kind = "final" <=> i = last)
    <3>1. i \in DOMAIN log[session[r]] /\ log[session[r]][i].run = r
      OBVIOUS
    <3> QED BY <2>2, <3>1, Zenon
  <2> HIDE DEF mine
  <2>5. \E l \in mine : \A i \in mine : i <= l /\ (log[session[r]][i].kind = "final" <=> i = l)
    BY <2>3, <2>4, Zenon
  <2> QED BY <2>5 DEF mine
<1> QED BY AlwaysTInv, <1>1, <1>2, <1>3, PTL DEF Spec

=============================================================================

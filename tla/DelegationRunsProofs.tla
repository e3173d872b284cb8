----------------------- MODULE DelegationRunsProofs -----------------------
(***************************************************************************)
(* Proofs about DelegationRuns for every set of delegations, members,       *)
(* callers and bounds.  Two lemmas say what one step may do to a delegation *)
(* and to a member (DelegationStep, MemberStep); the safety properties      *)
(* follow from them and from what a ticker knows when it settles a join.    *)
(***************************************************************************)
EXTENDS DelegationRuns, TLAPS

DelegationStates == ActiveStates \union TerminalStates \union {"absent", "deleted"}
MemberStates == MemberTerminal \union {"pending", "running", "absent"}
CallState == [on : Delegations \union {None}, ticks : 0..MaxTicks, outcome : Outcome \union {None}]

\* The rows of the members come and go with their delegation.
RowsTogether ==
  \A d \in Delegations : \A m \in MembersOf(d) :
    status[d] \in {"absent", "deleted"} => mstatus[m] = "absent"

\* A verdict that is about to be written.
VerdictKnown == \A t \in Tickers : pc[t] = "settle" => verdict[t] # None

TInv == TypeOK /\ RowsTogether /\ CancelWins /\ VerdictKnown

-----------------------------------------------------------------------------
(* Operators *)

LEMMA MemberOwner ==
  /\ \A m \in Members : m[1] \in Delegations /\ m \in MembersOf(m[1])
  /\ \A d \in Delegations : \A m \in MembersOf(d) : m \in Members /\ m[1] = d
BY DEF Members, MembersOf

LEMMA ResultSetType == ASSUME NEW d PROVE ResultSet(d) \in {None, "succeeded", "failed"}
BY DEF ResultSet, Join

LEMMA GotoType ==
  ASSUME pc \in [Tickers -> Places], NEW t \in Tickers, NEW place \in Places, Goto(t, place)
  PROVE  /\ pc' \in [Tickers -> Places] /\ pc'[t] = place
         /\ \A u \in Tickers \ {t} : pc'[u] = pc[u]
BY DEF Goto

LEMMA RestType == ASSUME NEW t PROVE Rest(t) \in Places \ {"settle"}
BY DEF Rest, Places

SeenState == [Delegations -> ActiveStates \union TerminalStates \union {None}]

LEMMA AdvanceType ==
  ASSUME TypeOK, NEW t \in Tickers, NEW place \in Places \ {"settle"}, NEW after \in Places \ {"settle"},
         Advance(t, place, after)
  PROVE  /\ pc' \in [Tickers -> Places] /\ pc'[t] # "settle"
         /\ \A u \in Tickers \ {t} : pc'[u] = pc[u] /\ seen'[u] = seen[u]
         /\ seen' \in [Tickers -> SeenState]
<1>1. seen[t] \in SeenState
  BY DEF TypeOK, SeenState
<1>2. [seen[t] EXCEPT ![Current(t)] = None] \in SeenState
  BY <1>1 DEF SeenState
<1>3. seen' \in [Tickers -> SeenState] /\ \A u \in Tickers \ {t} : seen'[u] = seen[u]
  BY <1>2 DEF Advance, TypeOK, SeenState
<1>4. PICK x \in Places \ {"settle"} : Goto(t, x)
  BY DEF Advance
<1> QED BY <1>3, <1>4, GotoType DEF TypeOK

LEMMA ListType ==
  ASSUME TypeOK, NEW t \in Tickers, NEW S, \A d \in S : d \in Delegations => status[d] \notin {"absent", "deleted"},
         NEW place \in Places \ {"settle"}, NEW after \in Places \ {"settle"}, List(t, S, place, after)
  PROVE  /\ pc' \in [Tickers -> Places] /\ pc'[t] # "settle"
         /\ \A u \in Tickers \ {t} : pc'[u] = pc[u] /\ seen'[u] = seen[u]
         /\ seen' \in [Tickers -> SeenState]
<1>1. [d \in Delegations |-> IF d \in S THEN status[d] ELSE None] \in SeenState
  BY DEF TypeOK, SeenState
<1>2. seen' \in [Tickers -> SeenState] /\ \A u \in Tickers \ {t} : seen'[u] = seen[u]
  BY <1>1 DEF List, TypeOK, SeenState
<1>3. PICK x \in Places \ {"settle"} : Goto(t, x)
  BY DEF List
<1> QED BY <1>2, <1>3, GotoType DEF TypeOK

LEMMA CancelMembersType ==
  ASSUME TypeOK, NEW d, CancelMembers(d)
  PROVE  /\ mstatus' \in [Members -> MemberStates] /\ version' \in [Members -> Nat]
         /\ lapsed' \in SUBSET {m \in Members : mstatus'[m] = "running"}
         /\ \A m \in Members : \/ mstatus'[m] = mstatus[m] /\ version'[m] = version[m]
                               \/ mstatus[m] \in {"pending", "running"} /\ mstatus'[m] = "cancelled"
<1> DEFINE hit == {m \in MembersOf(d) : mstatus[m] \in {"pending", "running"}}
<1>1. /\ mstatus' = [m \in Members |-> IF m \in hit THEN "cancelled" ELSE mstatus[m]]
      /\ version' = [m \in Members |-> IF m \in hit THEN version[m] + 1 ELSE version[m]]
      /\ lapsed' = lapsed \ hit
  BY DEF CancelMembers
<1>2. \A m \in hit : mstatus[m] \in {"pending", "running"}
  OBVIOUS
<1> HIDE DEF hit
<1> QED BY <1>1, <1>2 DEF TypeOK, MemberStates, MemberTerminal

-----------------------------------------------------------------------------
(* What one step may do *)

DelegationStep(d) ==
  \/ status'[d] = status[d] /\ (outbox'[d] = outbox[d] \/ outbox[d] # None)
  \/ /\ outbox'[d] = outbox[d]
     /\ \/ status[d] = "absent" /\ status'[d] = "pending"
        \/ status[d] = "pending" /\ status'[d] = "running"
        \/ status[d] = "running" /\ status'[d] = "joining"
        \/ status[d] = "cancelling" /\ status'[d] = "cancelled"
        \/ status[d] \in ActiveStates /\ status'[d] = "expired"
        \/ \E t \in Tickers : Settle(t) /\ d = Current(t) /\ status[d] = "joining" /\ status'[d] = verdict[t]
  \/ status[d] \in ActiveStates \ {"cancelling"} /\ status'[d] = "cancelling"
  \/ /\ status[d] \in ActiveStates \union TerminalStates /\ status'[d] = "deleted"
     /\ outbox'[d] = None /\ \A m \in MembersOf(d) : mstatus'[m] = "absent"

MemberStep(m) ==
  \/ mstatus'[m] = mstatus[m] /\ version'[m] = version[m] /\ result'[m] = result[m]
  \/ /\ result'[m] = result[m]
     /\ \/ /\ mstatus[m] \in {"pending", "running"}
           /\ mstatus'[m] \in {"pending", "running", "cancelled"} \ {mstatus[m]}
        \/ status[m[1]] = "absent" /\ status'[m[1]] = "pending" /\ mstatus'[m] = "pending"
  \/ /\ mstatus[m] = "running" /\ mstatus'[m] \in MemberTerminal
     /\ result'[m] = [status |-> mstatus'[m], version |-> version[m]]
     /\ version'[m] = version[m] + 1
  \/ status'[m[1]] = "deleted" /\ mstatus'[m] = "absent" /\ result'[m] = NoResult

LEMMA DelegationSteps ==
  ASSUME TypeOK, [Next]_vars, NEW d \in Delegations
  PROVE  DelegationStep(d)
<1>0. /\ status \in [Delegations -> DelegationStates]
      /\ outbox \in [Delegations -> {None, "pending", "acked"}]
      /\ mstatus \in [Members -> MemberStates]
  BY DEF TypeOK, DelegationStates, MemberStates
<1>a. CASE status' = status /\ outbox' = outbox
  BY <1>a DEF DelegationStep
<1>1. ASSUME NEW t \in Tickers, TickStep(t) PROVE DelegationStep(d)
  <2>1. CASE MarkExpired(t)
    BY <1>0, <2>1 DEF MarkExpired, Outdated, DelegationStep
  <2>2. CASE Confirm(t) \/ SettleCancel(t)
    BY <1>0, <2>2 DEF Confirm, SettleCancel, FinalizeCancelled, DelegationStep
  <2>3. CASE Ack(t)
    BY <1>0, <2>3 DEF Ack, DelegationStep, None
  <2>4. CASE Request(t)
    BY <1>0, <2>4 DEF Request, RequestCancel, DelegationStep
  <2>5. CASE AdvanceToJoining(t)
    BY <1>0, <2>5 DEF AdvanceToJoining, DelegationStep
  <2>6. CASE Settle(t)
    <3>1. status' = [status EXCEPT ![Current(t)] = IF status[Current(t)] = "joining" THEN verdict[t] ELSE @]
          /\ outbox' = outbox
      BY <2>6 DEF Settle, Joinable
    <3>2. status'[d] = status[d] \/ (d = Current(t) /\ status[d] = "joining" /\ status'[d] = verdict[t])
      BY <1>0, <3>1
    <3> QED BY <2>6, <3>1, <3>2 DEF DelegationStep
  <2> QED BY <1>1, <1>a, <2>1, <2>2, <2>3, <2>4, <2>5, <2>6
      DEF TickStep, MarkStale, ListOutbox, Deliver, ListPending, Inspect, Withdraw, Gathered,
          ListActive, ListMembers, Evaluate, tableVars
<1>2. ASSUME NEW t \in Tickers, NEW m \in Members, WorkerStep(t, m) PROVE DelegationStep(d)
  <2>1. CASE StartDelegation(t, m)
    BY <1>0, <2>1 DEF StartDelegation, DelegationStep
  <2> QED BY <1>2, <1>a, <2>1 DEF WorkerStep, Claim, RecheckKill, Abandon, Executed, FinishMember, tableVars
<1>3. ASSUME NEW c \in Callers, NEW e \in Delegations, Delegate(c, e) PROVE DelegationStep(d)
  BY <1>0, <1>3 DEF Delegate, DelegationStep
<1>4. ASSUME NEW e \in Delegations, UserCancel(e) PROVE DelegationStep(d)
  BY <1>0, <1>4 DEF UserCancel, RequestCancel, DelegationStep
<1>5. ASSUME NEW e \in Delegations, DeleteSession(e) PROVE DelegationStep(d)
  BY <1>0, <1>5, MemberOwner DEF DeleteSession, DelegationStep
<1> QED BY <1>a, <1>1, <1>2, <1>3, <1>4, <1>5
    DEF Next, vars, tableVars, CallerStep, Drive, ReadResult, TickStops, WorkerRaises, AskCancel,
        DeadlinePasses, LeasePasses, Wake, SetKillSwitch, Restart

LEMMA MemberSteps ==
  ASSUME TypeOK, [Next]_vars, NEW m \in Members
  PROVE  MemberStep(m)
<1>0. /\ status \in [Delegations -> DelegationStates]
      /\ mstatus \in [Members -> MemberStates] /\ version \in [Members -> Nat]
      /\ result \in [Members -> [status : MemberTerminal \union {None}, version : Nat]]
  BY DEF TypeOK, DelegationStates, MemberStates
<1>a. CASE mstatus' = mstatus /\ version' = version /\ result' = result
  BY <1>a DEF MemberStep
<1>b. ASSUME NEW d, CancelMembers(d), result' = result PROVE MemberStep(m)
  BY <1>b, CancelMembersType DEF MemberStep
<1>1. ASSUME NEW t \in Tickers, TickStep(t) PROVE MemberStep(m)
  <2>1. CASE MarkStale(t)
    BY <1>0, <2>1 DEF MarkStale, Reclaimed, Lapsed, MemberStep
  <2> QED BY <1>1, <1>a, <1>b, <2>1
      DEF TickStep, MarkExpired, ListOutbox, Deliver, Confirm, Ack, ListPending, Inspect, Request,
          Withdraw, Gathered, ListActive, ListMembers, SettleCancel, AdvanceToJoining, Evaluate,
          Settle, tableVars
<1>2. ASSUME NEW t \in Tickers, NEW n \in Members, WorkerStep(t, n) PROVE MemberStep(m)
  <2>1. CASE Claim(t, n)
    BY <1>0, <2>1 DEF Claim, MemberStep
  <2>2. CASE FinishMember(t, n)
    BY <1>0, <2>2 DEF FinishMember, Owns, MemberStep
  <2> QED BY <1>2, <1>a, <1>b, <2>1, <2>2
      DEF WorkerStep, StartDelegation, RecheckKill, Abandon, Executed, tableVars
<1>3. ASSUME NEW c \in Callers, NEW e \in Delegations, Delegate(c, e) PROVE MemberStep(m)
  BY <1>0, <1>3, MemberOwner DEF Delegate, MemberStep
<1>4. ASSUME NEW e \in Delegations, DeleteSession(e) PROVE MemberStep(m)
  BY <1>0, <1>4, MemberOwner DEF DeleteSession, MemberStep
<1> QED BY <1>a, <1>1, <1>2, <1>3, <1>4
    DEF Next, vars, tableVars, CallerStep, Drive, ReadResult, TickStops, WorkerRaises, AskCancel,
        UserCancel, DeadlinePasses, LeasePasses, Wake, SetKillSwitch, Restart

-----------------------------------------------------------------------------
(* Types *)

TableTypes ==
  /\ status \in [Delegations -> DelegationStates]
  /\ overdue \in SUBSET Delegations
  /\ outbox \in [Delegations -> {None, "pending", "acked"}]
  /\ mstatus \in [Members -> MemberStates]
  /\ version \in [Members -> Nat]
  /\ lapsed \in SUBSET {m \in Members : mstatus[m] = "running"}
  /\ result \in [Members -> [status : MemberTerminal \union {None}, version : Nat]]

WorkerState == [step : Steps, version : Nat]

LocalTypes ==
  /\ kill \in BOOLEAN
  /\ pc \in [Tickers -> Places]
  /\ seen \in [Tickers -> SeenState]
  /\ verdict \in [Tickers -> {None, "succeeded", "failed"}]
  /\ worker \in [Tickers -> [Members -> WorkerState]]
  /\ call \in [Callers -> CallState]
  /\ faults \in 0..MaxFaults

AskedTypes == asked \in [Delegations -> {None, "checked", "taken", "late"}]

LEMMA TypeParts == /\ TypeOK <=> TableTypes /\ LocalTypes /\ AskedTypes
                   /\ TypeOK' <=> TableTypes' /\ LocalTypes' /\ AskedTypes'
BY DEF TypeOK, TableTypes, LocalTypes, AskedTypes, DelegationStates, MemberStates, SeenState, WorkerState, CallState

LEMMA TablesStep == ASSUME TInv, [Next]_vars PROVE TableTypes'
<1>0. TypeOK /\ TableTypes /\ VerdictKnown
  BY TypeParts DEF TInv
<1>a. CASE UNCHANGED tableVars
  BY <1>0, <1>a DEF TableTypes, tableVars
<1>b. ASSUME NEW d, CancelMembers(d), UNCHANGED <<status, overdue, outbox, result>> PROVE TableTypes'
  BY <1>0, <1>b, CancelMembersType DEF TableTypes
<1>1. ASSUME NEW t \in Tickers, TickStep(t) PROVE TableTypes'
  <2>1. CASE MarkExpired(t)
    BY <1>0, <2>1 DEF MarkExpired, TableTypes, DelegationStates, TerminalStates
  <2>2. CASE Confirm(t) \/ SettleCancel(t)
    BY <1>0, <2>2 DEF Confirm, SettleCancel, FinalizeCancelled, TableTypes, DelegationStates, TerminalStates
  <2>3. CASE Ack(t)
    BY <1>0, <2>3 DEF Ack, TableTypes
  <2>4. CASE Request(t)
    BY <1>0, <2>4 DEF Request, RequestCancel, TableTypes, DelegationStates, ActiveStates
  <2>5. CASE AdvanceToJoining(t)
    BY <1>0, <2>5 DEF AdvanceToJoining, TableTypes, DelegationStates, ActiveStates
  <2>6. CASE Settle(t)
    <3>1. verdict[t] \in {"succeeded", "failed"}
      BY <1>0, <2>6 DEF TypeOK, VerdictKnown, Settle
    <3> QED BY <1>0, <2>6, <3>1 DEF Settle, TableTypes, DelegationStates, TerminalStates
  <2>7. CASE MarkStale(t)
    BY <1>0, <2>7 DEF MarkStale, Reclaimed, Lapsed, TableTypes, MemberStates
  <2> QED BY <1>1, <1>a, <1>b, <2>1, <2>2, <2>3, <2>4, <2>5, <2>6, <2>7
      DEF TickStep, ListOutbox, Deliver, ListPending, Inspect, Withdraw, Gathered, ListActive,
          ListMembers, Evaluate
<1>2. ASSUME NEW t \in Tickers, NEW m \in Members, WorkerStep(t, m) PROVE TableTypes'
  <2>1. CASE Claim(t, m)
    BY <1>0, <2>1 DEF Claim, TableTypes, MemberStates
  <2>2. CASE StartDelegation(t, m)
    BY <1>0, <2>2, MemberOwner DEF StartDelegation, TableTypes, DelegationStates, ActiveStates
  <2>3. CASE FinishMember(t, m)
    <3>1. worker[t][m].version \in Nat
      BY <1>0 DEF TypeOK
    <3>2. CASE UNCHANGED <<mstatus, version, lapsed, result>>
      BY <1>0, <2>3, <3>2 DEF FinishMember, TableTypes
    <3>3. ASSUME NEW r \in MemberTerminal,
                 mstatus' = [mstatus EXCEPT ![m] = r], version' = [version EXCEPT ![m] = @ + 1],
                 lapsed' = lapsed \ {m},
                 result' = [result EXCEPT ![m] = [status |-> r, version |-> worker[t][m].version]]
          PROVE  TableTypes'
      <4>1. mstatus' \in [Members -> MemberStates] /\ version' \in [Members -> Nat]
        BY <1>0, <3>3 DEF TableTypes, MemberStates
      <4>2. lapsed' \in SUBSET {n \in Members : mstatus'[n] = "running"}
        BY <1>0, <3>3 DEF TableTypes
      <4>3. result' \in [Members -> [status : MemberTerminal \union {None}, version : Nat]]
        BY <1>0, <3>1, <3>3 DEF TableTypes
      <4> QED BY <1>0, <2>3, <4>1, <4>2, <4>3 DEF FinishMember, TableTypes
    <3> QED BY <2>3, <3>2, <3>3 DEF FinishMember
  <2> QED BY <1>2, <1>a, <1>b, <2>1, <2>2, <2>3 DEF WorkerStep, RecheckKill, Abandon, Executed
<1>3. ASSUME NEW c \in Callers, NEW e \in Delegations, Delegate(c, e) PROVE TableTypes'
  <2>1. lapsed \in SUBSET {m \in Members : mstatus[m] = "running" /\ m \notin MembersOf(e)} \/ status[e] # "absent"
    BY <1>0, MemberOwner DEF TInv, RowsTogether, TableTypes
  <2> QED BY <1>0, <1>3, <2>1 DEF Delegate, TableTypes, DelegationStates, ActiveStates, MemberStates
<1>4. ASSUME NEW e \in Delegations, UserCancel(e) PROVE TableTypes'
  BY <1>0, <1>4 DEF UserCancel, RequestCancel, TableTypes, DelegationStates, ActiveStates
<1>5. ASSUME NEW e \in Delegations, DeleteSession(e) PROVE TableTypes'
  <2>1. NoResult \in [status : MemberTerminal \union {None}, version : Nat]
    BY DEF NoResult
  <2> QED BY <1>0, <1>5, <2>1 DEF DeleteSession, TableTypes, DelegationStates, MemberStates
<1>6. ASSUME NEW e \in Delegations, DeadlinePasses(e) PROVE TableTypes'
  BY <1>0, <1>6 DEF DeadlinePasses, TableTypes
<1>7. ASSUME NEW m \in Members, LeasePasses(m) PROVE TableTypes'
  BY <1>0, <1>7 DEF LeasePasses, TableTypes
<1> QED BY <1>a, <1>1, <1>2, <1>3, <1>4, <1>5, <1>6, <1>7
    DEF Next, vars, CallerStep, Drive, ReadResult, TickStops, WorkerRaises, AskCancel, Wake,
        SetKillSwitch, Restart

LEMMA BecomesType ==
  ASSUME LocalTypes, NEW t \in Tickers, NEW m \in Members, NEW w \in WorkerState, Becomes(t, m, w)
  PROVE  worker' \in [Tickers -> [Members -> WorkerState]]
<1>1. worker[t] \in [Members -> WorkerState] BY DEF LocalTypes
<1>2. [worker[t] EXCEPT ![m] = w] \in [Members -> WorkerState] BY <1>1
<1> QED BY <1>2 DEF Becomes, LocalTypes

LEMMA NothingType == /\ NothingSeen \in SeenState /\ NoWorker \in WorkerState /\ NoCall \in CallState
                     /\ NoWorkers \in [Members -> WorkerState]
<1>1. NothingSeen \in SeenState BY DEF NothingSeen, SeenState
<1>2. NoWorker \in WorkerState BY DEF NoWorker, WorkerState, Steps
<1>3. NoCall \in CallState BY DelegationConstants DEF NoCall, CallState
<1>4. NoWorkers \in [Members -> WorkerState] BY <1>2 DEF NoWorkers
<1> QED BY <1>1, <1>2, <1>3, <1>4

\* A ticker about to settle was so before, with the same list and verdict, or has just
\* read the result set.
Settling ==
  \A t \in Tickers : pc'[t] = "settle" =>
    \/ pc[t] = "settle" /\ seen'[t] = seen[t] /\ verdict'[t] = verdict[t]
    \/ Evaluate(t) /\ ResultSet(Current(t)) # None

LEMMA StopType ==
  ASSUME LocalTypes, NEW T, Stop(T)
  PROVE  /\ pc' \in [Tickers -> Places] /\ seen' \in [Tickers -> SeenState]
         /\ verdict' \in [Tickers -> {None, "succeeded", "failed"}]
         /\ worker' \in [Tickers -> [Members -> WorkerState]]
         /\ call' \in [Callers -> CallState]
         /\ Settling
<1>1. pc' \in [Tickers -> Places] BY DEF Stop, LocalTypes, Places
<1>2. seen' \in [Tickers -> SeenState] BY NothingType DEF Stop, LocalTypes
<1>3. verdict' \in [Tickers -> {None, "succeeded", "failed"}] BY DEF Stop, LocalTypes
<1>4. worker' \in [Tickers -> [Members -> WorkerState]] BY NothingType DEF Stop, LocalTypes
<1>5. \A c \in Callers : [call[c] EXCEPT !.outcome = "raised"] \in CallState
  BY DEF LocalTypes, CallState, Outcome
<1>6. call' \in [Callers -> CallState] BY <1>5 DEF Stop, LocalTypes
<1>7. Settling BY DEF Settling, Stop
<1> QED BY <1>1, <1>2, <1>3, <1>4, <1>6, <1>7

LEMMA TickLocals ==
  ASSUME TInv, NEW t \in Tickers, TickStep(t)
  PROVE  LocalTypes' /\ Settling
<1>0. TypeOK /\ TableTypes /\ LocalTypes /\ VerdictKnown /\ RowsTogether /\ CancelWins
  BY TypeParts DEF TInv
<1> DEFINE Ticked == /\ pc' \in [Tickers -> Places] /\ pc'[t] # "settle"
                     /\ \A u \in Tickers \ {t} : pc'[u] = pc[u] /\ seen'[u] = seen[u]
                     /\ seen' \in [Tickers -> SeenState]
<1>a. ASSUME Ticked, UNCHANGED <<kill, verdict, worker, call, faults>> PROVE LocalTypes' /\ Settling
  BY <1>0, <1>a DEF LocalTypes, Settling
<1>b. ASSUME NEW place \in Places \ {"settle"}, Goto(t, place), UNCHANGED seen PROVE Ticked
  BY <1>0, <1>b, GotoType DEF LocalTypes
<1>c. ASSUME NEW place \in Places \ {"settle"}, NEW after \in Places \ {"settle"}, Advance(t, place, after)
      PROVE  Ticked
  BY <1>0, <1>c, AdvanceType
<1>d. /\ {"stale", "outbox", "deliver", "confirm", "ack", "claim", "inspect", "request", "withdraw",
          "gather", "join", "members", "settle_cancel", "advance", "evaluate"} \subseteq Places \ {"settle"}
      /\ Rest(t) \in Places \ {"settle"}
  BY RestType DEF Places
<1> HIDE DEF Ticked
<1>1. CASE MarkExpired(t)
  BY <1>1, <1>a, <1>b, <1>d DEF MarkExpired
<1>2. CASE MarkStale(t)
  BY <1>2, <1>a, <1>b, <1>d DEF MarkStale
<1>3. CASE ListOutbox(t)
  <2> DEFINE S == {d \in Delegations : outbox[d] = "pending" /\ status[d] # "deleted"}
  <2>1. \A d \in S : d \in Delegations => status[d] \notin {"absent", "deleted"}
    BY <1>0 DEF CancelWins, None
  <2>2. List(t, S, "deliver", "claim")
    BY <1>3 DEF ListOutbox
  <2> HIDE DEF S
  <2>3. Ticked
    BY <1>0, <1>d, <2>1, <2>2, ListType DEF Ticked
  <2> QED BY <1>3, <1>a, <2>3 DEF ListOutbox
<1>4. CASE Deliver(t)
  BY <1>4, <1>a, <1>b, <1>d DEF Deliver
<1>5. CASE Confirm(t)
  BY <1>5, <1>a, <1>b, <1>d DEF Confirm
<1>6. CASE Ack(t)
  BY <1>6, <1>a, <1>c, <1>d DEF Ack
<1>7. CASE ListPending(t)
  <2>1. CASE kill
    <3> DEFINE S == {d \in Delegations : MembersOf(d) \intersect Waiting # {}}
    <3>1. \A d \in S : d \in Delegations => status[d] \notin {"absent", "deleted"}
      BY <1>0 DEF RowsTogether, Waiting
    <3>2. List(t, S, "inspect", "join") /\ UNCHANGED <<kill, verdict, worker, call, faults>>
      BY <1>7, <2>1 DEF ListPending
    <3> HIDE DEF S
    <3>3. Ticked
      BY <1>0, <1>d, <3>1, <3>2, ListType DEF Ticked
    <3> QED BY <1>a, <3>2, <3>3
  <2>2. CASE ~kill
    <3>1. PICK x \in {"join", "gather"} : Goto(t, x)
      BY <1>7, <2>2 DEF ListPending
    <3>2. UNCHANGED <<seen, kill, verdict, call, faults>>
      BY <1>7, <2>2 DEF ListPending
    <3>3. Ticked
      BY <1>b, <1>d, <3>1, <3>2
    <3>4. [NoWorker EXCEPT !.step = "listed"] \in WorkerState /\ NoWorker \in WorkerState
      BY NothingType DEF WorkerState, Steps
    <3>5. [m \in Members |-> IF m \in Waiting THEN [NoWorker EXCEPT !.step = "listed"] ELSE NoWorker]
            \in [Members -> WorkerState]
      BY <3>4
    <3>6. worker' \in [Tickers -> [Members -> WorkerState]]
      BY <1>0, <1>7, <2>2, <3>5 DEF ListPending, LocalTypes
    <3> QED BY <1>0, <3>2, <3>3, <3>6 DEF Ticked, LocalTypes, Settling
  <2> QED BY <2>1, <2>2
<1>8. CASE Inspect(t)
  <2>1. Ticked
    BY <1>8, <1>b, <1>c, <1>d DEF Inspect
  <2> QED BY <1>8, <1>a, <2>1 DEF Inspect
<1>9. CASE Request(t)
  BY <1>9, <1>a, <1>b, <1>d DEF Request
<1>10. CASE Withdraw(t)
  BY <1>10, <1>a, <1>c, <1>d DEF Withdraw
<1>11. CASE Gathered(t)
  BY <1>11, <1>a, <1>b, <1>d DEF Gathered
<1>12. CASE ListActive(t)
  <2> DEFINE S == {d \in Delegations : status[d] \in Listed}
  <2>1. \A d \in S : d \in Delegations => status[d] \notin {"absent", "deleted"}
    BY DEF Listed, ActiveStates
  <2>2. List(t, S, "members", Rest(t))
    BY <1>12 DEF ListActive
  <2> HIDE DEF S
  <2>3. Ticked
    BY <1>0, <1>d, <2>1, <2>2, ListType DEF Ticked
  <2> QED BY <1>12, <1>a, <2>3 DEF ListActive
<1>13. CASE ListMembers(t)
  <2>1. Ticked
    BY <1>13, <1>b, <1>c, <1>d DEF ListMembers
  <2> QED BY <1>13, <1>a, <2>1 DEF ListMembers
<1>14. CASE SettleCancel(t)
  BY <1>14, <1>a, <1>c, <1>d DEF SettleCancel
<1>15. CASE AdvanceToJoining(t)
  BY <1>15, <1>a, <1>b, <1>d DEF AdvanceToJoining
<1>16. CASE Evaluate(t)
  <2>1. /\ verdict' \in [Tickers -> {None, "succeeded", "failed"}]
        /\ \A u \in Tickers \ {t} : verdict'[u] = verdict[u]
        /\ verdict'[t] = ResultSet(Current(t))
    BY <1>0, <1>16, ResultSetType DEF Evaluate, LocalTypes
  <2>2. CASE ResultSet(Current(t)) = None
    <3>1. Ticked
      BY <1>16, <2>2, <1>c, <1>d DEF Evaluate
    <3> QED BY <1>0, <1>16, <2>1, <3>1 DEF Evaluate, Ticked, LocalTypes, Settling
  <2>3. CASE ResultSet(Current(t)) # None
    <3>1. Goto(t, "settle") /\ UNCHANGED seen /\ "settle" \in Places
      BY <1>16, <2>3 DEF Evaluate, Places
    <3>2. pc' \in [Tickers -> Places] /\ \A u \in Tickers \ {t} : pc'[u] = pc[u]
      BY <1>0, <3>1, GotoType DEF LocalTypes
    <3> QED BY <1>0, <1>16, <2>1, <2>3, <3>1, <3>2 DEF Evaluate, LocalTypes, Settling
  <2> QED BY <2>2, <2>3
<1>17. CASE Settle(t)
  <2>1. /\ verdict' \in [Tickers -> {None, "succeeded", "failed"}]
        /\ \A u \in Tickers \ {t} : verdict'[u] = verdict[u]
    BY <1>0, <1>17 DEF Settle, LocalTypes
  <2>2. Ticked
    BY <1>17, <1>c, <1>d DEF Settle
  <2> QED BY <1>0, <1>17, <2>1, <2>2 DEF Settle, Ticked, LocalTypes, Settling
<1> QED BY <1>1, <1>2, <1>3, <1>4, <1>5, <1>6, <1>7, <1>8, <1>9, <1>10, <1>11, <1>12, <1>13,
           <1>14, <1>15, <1>16, <1>17 DEF TickStep

LEMMA LocalsStep == ASSUME TInv, [Next]_vars PROVE LocalTypes' /\ Settling
<1>0. TypeOK /\ LocalTypes /\ VerdictKnown
  BY TypeParts DEF TInv
<1>a. CASE UNCHANGED <<kill, tickVars, worker, call, faults>>
  BY <1>0, <1>a DEF LocalTypes, Settling, tickVars
<1>b. ASSUME NEW t \in Tickers, NEW m \in Members, NEW w \in WorkerState, Becomes(t, m, w),
             UNCHANGED <<kill, tickVars, call>>, faults' \in 0..MaxFaults
      PROVE  LocalTypes' /\ Settling
  <2>1. worker' \in [Tickers -> [Members -> WorkerState]]
    BY <1>0, <1>b, BecomesType
  <2> QED BY <1>0, <1>b, <2>1 DEF LocalTypes, Settling, tickVars
<1>c. ASSUME NEW c \in Callers, NEW place \in Places \ {"settle"}, Goto(c, place),
             call' \in [Callers -> CallState], UNCHANGED <<seen, verdict, kill, worker, faults>>
      PROVE  LocalTypes' /\ Settling
  <2>1. c \in Tickers BY DEF Tickers
  <2>2. pc' \in [Tickers -> Places] /\ pc'[c] # "settle" /\ \A u \in Tickers \ {c} : pc'[u] = pc[u]
    BY <1>0, <1>c, <2>1, GotoType DEF LocalTypes
  <2> QED BY <1>0, <1>c, <2>2 DEF LocalTypes, Settling
<1>d. Fault => faults' \in 0..MaxFaults
  BY <1>0, DelegationConstants DEF Fault, LocalTypes
<1>1. ASSUME NEW t \in Tickers, NEW m \in Members, WorkerStep(t, m) \/ WorkerRaises(t, m)
      PROVE  LocalTypes' /\ Settling
  <2>0. worker[t][m] \in WorkerState /\ NoWorker \in WorkerState /\ faults \in 0..MaxFaults
    BY <1>0, NothingType DEF LocalTypes
  <2>1. CASE Claim(t, m)
    <3>1. version[m] + 1 \in Nat
      BY <1>0 DEF TypeOK
    <3>2. [NoWorker EXCEPT !.step = "claimed", !.version = version[m] + 1] \in WorkerState
      BY <2>0, <3>1 DEF WorkerState, Steps
    <3>3. PICK w \in WorkerState : Becomes(t, m, w)
      BY <2>0, <2>1, <3>2 DEF Claim
    <3> QED BY <1>b, <2>0, <2>1, <3>3 DEF Claim
  <2>2. ASSUME NEW x \in Steps PROVE [worker[t][m] EXCEPT !.step = x] \in WorkerState
    BY <2>0 DEF WorkerState
  <2>3. CASE StartDelegation(t, m) \/ RecheckKill(t, m) \/ Executed(t, m)
    <3>1. PICK x \in Steps : Becomes(t, m, [worker[t][m] EXCEPT !.step = x])
      BY <2>3 DEF StartDelegation, RecheckKill, Executed, Steps
    <3> QED BY <1>b, <2>0, <2>2, <2>3, <3>1 DEF StartDelegation, RecheckKill, Executed
  <2>4. CASE Abandon(t, m) \/ FinishMember(t, m) \/ WorkerRaises(t, m)
    BY <1>b, <1>d, <2>0, <2>4 DEF Abandon, FinishMember, WorkerRaises
  <2> QED BY <1>1, <2>1, <2>3, <2>4 DEF WorkerStep
<1>2. ASSUME NEW c \in Callers, NEW e \in Delegations, Delegate(c, e) PROVE LocalTypes' /\ Settling
  <2>1. [call[c] EXCEPT !.on = e] \in CallState
    BY <1>0 DEF LocalTypes, CallState
  <2>2. call' \in [Callers -> CallState]
    BY <1>0, <1>2, <2>1 DEF Delegate, LocalTypes
  <2> QED BY <1>2, <1>c, <2>2 DEF Delegate, Goto, Places
<1>3. ASSUME NEW c \in Callers, CallerStep(c) PROVE LocalTypes' /\ Settling
  <2>1. call[c] \in CallState
    BY <1>0 DEF LocalTypes
  <2>2. ASSUME NEW o \in Outcome, Answer(c, o), UNCHANGED <<seen, verdict, kill, worker, faults>>
        PROVE  LocalTypes' /\ Settling
    <3>1. [call[c] EXCEPT !.outcome = o] \in CallState
      BY <2>1 DEF CallState
    <3>2. call' \in [Callers -> CallState]
      BY <1>0, <2>2, <3>1 DEF Answer, LocalTypes
    <3> QED BY <1>c, <2>2, <3>2 DEF Answer, Goto, Places
  <2>3. CASE Drive(c)
    <3>1. CASE \E o \in Outcome : Answer(c, o)
      BY <2>2, <2>3, <3>1 DEF Drive
    <3>2. CASE call[c].ticks < MaxTicks /\ call' = [call EXCEPT ![c].ticks = @ + 1] /\ Goto(c, "expire")
      <4>1. call[c].ticks + 1 \in 0..MaxTicks
        BY <2>1, <3>2, DelegationConstants DEF CallState
      <4>2. [call[c] EXCEPT !.ticks = call[c].ticks + 1] \in CallState
        BY <2>1, <4>1 DEF CallState
      <4>3. call' = [call EXCEPT ![c] = [call[c] EXCEPT !.ticks = call[c].ticks + 1]]
        BY <1>0, <3>2 DEF LocalTypes, CallState
      <4>4. call' \in [Callers -> CallState]
        BY <1>0, <4>2, <4>3 DEF LocalTypes
      <4> QED BY <1>c, <2>3, <3>2, <4>4 DEF Drive, Places
    <3>3. CASE UNCHANGED call /\ Goto(c, "read")
      BY <1>0, <1>c, <2>3, <3>3 DEF Drive, Places, LocalTypes
    <3> QED BY <2>3, <3>1, <3>2, <3>3 DEF Drive, Outcome, Goto
  <2>4. CASE ReadResult(c)
    <3>1. PICK o \in Outcome : Answer(c, o)
      BY <2>4, ResultSetType DEF ReadResult, Outcome
    <3> QED BY <2>2, <2>4, <3>1 DEF ReadResult
  <2> QED BY <1>3, <2>3, <2>4 DEF CallerStep
<1>4. CASE Wake
  <2>1. Loop \in Tickers /\ "expire" \in Places \ {"settle"} BY DEF Tickers, Places
  <2>2. Goto(Loop, "expire") BY <1>4 DEF Wake, Goto
  <2>3. pc' \in [Tickers -> Places] /\ pc'[Loop] # "settle" /\ \A u \in Tickers \ {Loop} : pc'[u] = pc[u]
    BY <1>0, <2>1, <2>2, GotoType DEF LocalTypes
  <2> QED BY <1>0, <1>4, <2>3 DEF Wake, LocalTypes, Settling
<1>5. CASE SetKillSwitch
  BY <1>0, <1>5, <1>d DEF SetKillSwitch, tickVars, LocalTypes, Settling
<1>6. ASSUME NEW T, Stop(T), kill' \in BOOLEAN, Fault PROVE LocalTypes' /\ Settling
  BY <1>0, <1>6, <1>d, StopType DEF LocalTypes
<1>7. ASSUME NEW t \in Tickers, TickStops(t) PROVE LocalTypes' /\ Settling
  BY <1>0, <1>6, <1>7 DEF TickStops, LocalTypes
<1>8. CASE Restart
  BY <1>6, <1>8 DEF Restart
<1>9. ASSUME NEW m \in Members, LeasePasses(m) PROVE LocalTypes' /\ Settling
  BY <1>0, <1>9, <1>d DEF LeasePasses, tickVars, LocalTypes, Settling
<1> QED BY <1>a, <1>1, <1>2, <1>3, <1>4, <1>5, <1>7, <1>8, <1>9, TickLocals
    DEF Next, vars, AskCancel, UserCancel, DeadlinePasses, DeleteSession

\* A request of the user is taken only by moving its delegation to cancelling.
LEMMA AskedStep ==
  ASSUME TypeOK, [Next]_vars
  PROVE  /\ AskedTypes'
         /\ \A d \in Delegations :
              asked'[d] = "taken" => asked[d] = "taken" \/ status'[d] = "cancelling"
<1>0. AskedTypes /\ status \in [Delegations -> DelegationStates]
  BY DEF TypeOK, AskedTypes, DelegationStates
<1>a. CASE asked' = asked BY <1>0, <1>a DEF AskedTypes
<1>1. ASSUME NEW e \in Delegations, AskCancel(e) \/ UserCancel(e)
      PROVE  /\ AskedTypes'
             /\ \A d \in Delegations :
                  asked'[d] = "taken" => asked[d] = "taken" \/ status'[d] = "cancelling"
  <2>1. CASE AskCancel(e) BY <1>0, <2>1 DEF AskCancel, AskedTypes
  <2>2. CASE UserCancel(e)
    <3>1. PICK x \in {None, "taken", "late"} :
            /\ asked' = [asked EXCEPT ![e] = x]
            /\ x = "taken" => status[e] \in ActiveStates
      BY <2>2 DEF UserCancel, None
    <3>2. status[e] \in ActiveStates => status'[e] = "cancelling"
      BY <1>0, <2>2 DEF UserCancel, RequestCancel
    <3> QED BY <1>0, <3>1, <3>2 DEF AskedTypes
  <2> QED BY <1>1, <2>1, <2>2
<1>2. CASE Restart BY <1>0, <1>2 DEF Restart, AskedTypes, None
<1>3. ASSUME NEW t \in Tickers, TickStep(t) PROVE asked' = asked
  BY <1>3 DEF TickStep, MarkExpired, MarkStale, ListOutbox, Deliver, Confirm, Ack, ListPending,
              Inspect, Request, Withdraw, Gathered, ListActive, ListMembers, SettleCancel,
              AdvanceToJoining, Evaluate, Settle
<1>4. ASSUME NEW t \in Tickers, NEW m \in Members, WorkerStep(t, m) \/ WorkerRaises(t, m)
      PROVE  asked' = asked
  BY <1>4 DEF WorkerStep, Claim, StartDelegation, RecheckKill, Abandon, Executed, FinishMember,
              WorkerRaises
<1> QED BY <1>a, <1>1, <1>2, <1>3, <1>4
    DEF Next, vars, CallerStep, Drive, ReadResult, Delegate, TickStops, DeadlinePasses,
        DeleteSession, LeasePasses, Wake, SetKillSwitch

-----------------------------------------------------------------------------
LEMMA TInvInit == Init => TInv
<1> SUFFICES ASSUME Init PROVE TInv OBVIOUS
<1>1. TableTypes
  <2>1. NoResult \in [status : MemberTerminal \union {None}, version : Nat]
    BY DEF NoResult
  <2> QED BY <2>1 DEF Init, TableTypes, DelegationStates, MemberStates
<1>2. LocalTypes
  <2>1. seen \in [Tickers -> SeenState] /\ worker \in [Tickers -> [Members -> WorkerState]]
        /\ call \in [Callers -> CallState]
    BY NothingType DEF Init
  <2>2. pc \in [Tickers -> Places] /\ verdict \in [Tickers -> {None, "succeeded", "failed"}]
    BY DEF Init, Places
  <2>3. kill \in BOOLEAN
    BY Zenon DEF Init
  <2>4. faults \in 0..MaxFaults
    BY DelegationConstants DEF Init
  <2> QED BY <2>1, <2>2, <2>3, <2>4 DEF LocalTypes
<1>3. RowsTogether /\ CancelWins /\ VerdictKnown
  BY MemberOwner DEF Init, RowsTogether, CancelWins, VerdictKnown, None
<1>4. AskedTypes BY DEF Init, AskedTypes
<1> QED BY <1>1, <1>2, <1>3, <1>4, TypeParts DEF TInv

LEMMA TInvStep == TInv /\ [Next]_vars => TInv'
<1> SUFFICES ASSUME TInv, [Next]_vars PROVE TInv' OBVIOUS
<1>0. TypeOK /\ RowsTogether /\ CancelWins /\ VerdictKnown BY DEF TInv
<1>1. TypeOK' /\ VerdictKnown'
  <2>1. \A t \in Tickers : Evaluate(t) => verdict'[t] = ResultSet(Current(t))
    BY <1>0 DEF TypeOK, Evaluate
  <2>2. VerdictKnown'
    BY <1>0, <2>1, LocalsStep DEF Settling, VerdictKnown
  <2> QED BY <1>0, <2>2, TablesStep, LocalsStep, AskedStep, TypeParts
<1>2. CancelWins'
  <2>1. ASSUME NEW d \in Delegations, outbox'[d] # None
        PROVE  status'[d] \in {"cancelling", "cancelled", "expired"}
    <3>1. DelegationStep(d) BY <1>0, DelegationSteps
    <3> QED BY <1>0, <2>1, <3>1 DEF DelegationStep, CancelWins
  <2>2. ASSUME NEW d \in Delegations, asked'[d] = "taken"
        PROVE  status'[d] \in {"cancelling", "cancelled", "expired", "deleted"}
    <3>1. DelegationStep(d) BY <1>0, DelegationSteps
    <3>2. asked[d] = "taken" \/ status'[d] = "cancelling" BY <1>0, <2>2, AskedStep
    <3> QED BY <1>0, <3>1, <3>2 DEF DelegationStep, CancelWins, ActiveStates
  <2> QED BY <2>1, <2>2 DEF CancelWins
<1>3. RowsTogether'
  <2>1. ASSUME NEW d \in Delegations, NEW m \in MembersOf(d), status'[d] \in {"absent", "deleted"}
        PROVE  mstatus'[m] = "absent"
    <3>1. DelegationStep(d) BY <1>0, DelegationSteps
    <3>2. MemberStep(m) /\ m[1] = d BY <1>0, MemberOwner, MemberSteps
    <3>3. CASE status'[d] = status[d]
      BY <1>0, <2>1, <3>2, <3>3 DEF MemberStep, RowsTogether
    <3>4. CASE status'[d] # status[d]
      <4>1. \A t \in Tickers : Settle(t) => verdict[t] \in {"succeeded", "failed"}
        BY <1>0 DEF Settle, VerdictKnown, TypeOK
      <4> QED BY <2>1, <3>1, <3>4, <4>1 DEF DelegationStep
    <3> QED BY <3>3, <3>4
  <2> QED BY <2>1 DEF RowsTogether, MembersOf
<1> QED BY <1>1, <1>2, <1>3 DEF TInv

LEMMA AlwaysTInv == Spec => []TInv
BY TInvInit, TInvStep, PTL DEF Spec

\* Types, and that only a running member has a lease that can lapse.
THEOREM TypeCorrect == Spec => []TypeOK
<1>1. TInv => TypeOK BY DEF TInv
<1> QED BY AlwaysTInv, <1>1, PTL

\* A cancellation that request_cancel found a delegation for is never lost to a join under
\* way: no ticker, with whatever it listed before, moves a cancelling delegation to
\* succeeded or failed.
THEOREM CancellationWins == Spec => []CancelWins
<1>1. TInv => CancelWins BY DEF TInv
<1> QED BY AlwaysTInv, <1>1, PTL

\* Every statement of the registry keeps to the two transition tables, although none
\* consults them.
THEOREM TablesAreKept == Spec => StepsFollowTables
<1>1. ASSUME TInv, [Next]_vars, NEW d \in Delegations
      PROVE  \/ status'[d] = status[d] \/ status'[d] = "deleted" \/ status[d] = "absent"
             \/ status[d] \in ActiveStates /\ status'[d] \in DelegationTable[status[d]]
  <2>1. DelegationStep(d) BY <1>1, DelegationSteps DEF TInv
  <2>2. \A t \in Tickers : Settle(t) => verdict[t] \in {"succeeded", "failed"}
    BY <1>1 DEF TInv, Settle, VerdictKnown, TypeOK
  <2> QED BY <2>1, <2>2 DEF DelegationStep, DelegationTable, ActiveStates
<1>2. ASSUME TInv, [Next]_vars, NEW m \in Members
      PROVE  \/ mstatus'[m] = mstatus[m] \/ mstatus'[m] = "absent" \/ mstatus[m] = "absent"
             \/ mstatus[m] \in {"pending", "running"} /\ mstatus'[m] \in MemberTable[mstatus[m]]
  <2>1. MemberStep(m) BY <1>2, MemberSteps DEF TInv
  <2>2. status[m[1]] = "absent" => mstatus[m] = "absent"
    BY <1>2, MemberOwner DEF TInv, RowsTogether
  <2> QED BY <2>1, <2>2 DEF MemberStep, MemberTable, MemberTerminal
<1>3. TInv /\ [Next]_vars =>
        [/\ \A d \in Delegations :
              \/ status'[d] = status[d] \/ status'[d] = "deleted" \/ status[d] = "absent"
              \/ status[d] \in ActiveStates /\ status'[d] \in DelegationTable[status[d]]
         /\ \A m \in Members :
              \/ mstatus'[m] = mstatus[m] \/ mstatus'[m] = "absent" \/ mstatus[m] = "absent"
              \/ /\ mstatus[m] \in {"pending", "running"}
                 /\ mstatus'[m] \in MemberTable[mstatus[m]]]_vars
  BY <1>1, <1>2
<1> QED BY AlwaysTInv, <1>3, PTL DEF Spec, StepsFollowTables

-----------------------------------------------------------------------------
(* Results and joins *)

\* The result of a member whose last claim is over.
ResultOf(m) ==
  result[m] # NoResult => /\ result[m].status = mstatus[m] /\ mstatus[m] \in MemberTerminal
                          /\ result[m].version + 1 = version[m]

LEMMA ResultStep ==
  ASSUME TInv, [Next]_vars, NEW m \in Members, ResultOf(m)
  PROVE  ResultOf(m)'
<1>1. MemberStep(m) BY MemberSteps DEF TInv
<1>2. status[m[1]] = "absent" => mstatus[m] = "absent"
  BY MemberOwner DEF TInv, RowsTogether
<1>3. version[m] \in Nat BY DEF TInv, TypeOK
<1> QED BY <1>1, <1>2, <1>3 DEF MemberStep, ResultOf, MemberTerminal

\* A member's adopted result is that of its last claim: a late worker of a claim that
\* was reclaimed or cancelled changes nothing.
THEOREM ResultsAreCurrent == Spec => []ResultIsOfLastClaim
<1> DEFINE Results == \A m \in Members : ResultOf(m)
<1>1. Init => Results BY DEF Init, ResultOf
<1>2. TInv /\ Results /\ [Next]_vars => Results' BY ResultStep
<1>3. Results => ResultIsOfLastClaim BY DEF ResultOf, ResultIsOfLastClaim
<1> HIDE DEF Results
<1> QED BY AlwaysTInv, <1>1, <1>2, <1>3, PTL DEF Spec

\* Delegation d is joined for good: every member is terminal, and v is their join.
Joined(d, v) == AllTerminal(d) /\ v = Join(d)

\* What a ticker that is about to settle knows of its delegation, unless it is gone.
SettleKnows ==
  \A t \in Tickers : pc[t] = "settle" =>
    \A d \in Delegations : d = Current(t) => status[d] = "deleted" \/ (status[d] # "absent" /\ Joined(d, verdict[t]))

LEMMA JoinedStays ==
  ASSUME TInv, [Next]_vars, NEW d \in Delegations, NEW CONSTANT v, Joined(d, v), status[d] # "absent"
  PROVE  status'[d] = "deleted" \/ (status'[d] # "absent" /\ Joined(d, v)')
<1>1. status'[d] # "absent"
  <2>1. DelegationStep(d) BY DelegationSteps DEF TInv
  <2>2. \A t \in Tickers : Settle(t) => verdict[t] \in {"succeeded", "failed"}
    BY DEF TInv, Settle, VerdictKnown, TypeOK
  <2> QED BY <2>1, <2>2 DEF DelegationStep
<1> SUFFICES ASSUME status'[d] # "deleted" PROVE Joined(d, v)'
  BY <1>1
<1>2. \A m \in MembersOf(d) : mstatus'[m] = mstatus[m]
  <2> TAKE m \in MembersOf(d)
  <2>1. MemberStep(m) /\ m[1] = d BY MemberSteps, MemberOwner DEF TInv
  <2>2. mstatus[m] \in MemberTerminal BY DEF Joined, AllTerminal, Finished
  <2> QED BY <2>1, <2>2 DEF MemberStep, MemberTerminal
<1>3. AllTerminal(d)' BY <1>2 DEF Joined, AllTerminal, Finished, MembersOf
<1>4. Join(d)' = Join(d)
  <2>1. {m \in MembersOf(d) : mstatus'[m] = "succeeded"} = {m \in MembersOf(d) : mstatus[m] = "succeeded"}
    BY <1>2
  <2> QED BY <2>1 DEF Join, MembersOf
<1> QED BY <1>3, <1>4 DEF Joined

JInv ==
  /\ SettleKnows
  /\ \A d \in Delegations : status[d] \in {"succeeded", "failed"} => Joined(d, status[d])

LEMMA JInvStep == TInv /\ JInv /\ [Next]_vars => JInv'
<1> SUFFICES ASSUME TInv, JInv, [Next]_vars PROVE JInv' OBVIOUS
<1>1. ASSUME NEW t \in Tickers, pc'[t] = "settle", NEW d \in Delegations, d = Current(t)'
      PROVE  status'[d] = "deleted" \/ (status'[d] # "absent" /\ Joined(d, verdict[t])')
  <2>1. CASE pc[t] = "settle" /\ seen'[t] = seen[t] /\ verdict'[t] = verdict[t]
    <3>1. d = Current(t) BY <1>1, <2>1 DEF Current
    <3>2. status[d] = "deleted" \/ (status[d] # "absent" /\ Joined(d, verdict[t]))
      BY <2>1, <3>1 DEF JInv, SettleKnows
    <3>3. CASE status[d] = "deleted"
      <4>1. DelegationStep(d) BY DelegationSteps DEF TInv
      <4> QED BY <3>3, <4>1 DEF DelegationStep, ActiveStates, TerminalStates
    <3>4. CASE status[d] # "absent" /\ Joined(d, verdict[t])
      <4>1. PICK v : v = verdict[t] OBVIOUS
      <4>2. status'[d] = "deleted" \/ (status'[d] # "absent" /\ Joined(d, v)')
        BY <3>4, <4>1, JoinedStays
      <4> QED BY <2>1, <4>1, <4>2 DEF Joined
    <3> QED BY <3>2, <3>3, <3>4
  <2>2. CASE Evaluate(t) /\ ResultSet(Current(t)) # None
    <3>1. d = Current(t) /\ verdict'[t] = ResultSet(d) /\ status' = status /\ mstatus' = mstatus
      BY <1>1, <2>2 DEF TInv, TypeOK, Evaluate, Current, tableVars
    <3>2. status[d] # "absent" /\ Joined(d, ResultSet(d))
      BY <2>2, <3>1 DEF ResultSet, Joined, ActiveStates, TerminalStates
    <3> QED BY <3>1, <3>2 DEF Joined, AllTerminal, Finished, MembersOf, Join
  <2>3. Settling BY LocalsStep
  <2> QED BY <1>1, <2>1, <2>2, <2>3 DEF Settling
<1>2. ASSUME NEW d \in Delegations, status'[d] \in {"succeeded", "failed"}
      PROVE  Joined(d, status[d])'
  <2>1. DelegationStep(d) BY DelegationSteps DEF TInv
  <2>2. status[d] # "absent" /\ Joined(d, status'[d])
    <3>1. CASE status'[d] = status[d]
      BY <1>2, <3>1 DEF JInv
    <3>2. ASSUME NEW t \in Tickers, Settle(t), d = Current(t), status[d] = "joining", status'[d] = verdict[t]
          PROVE  status[d] # "absent" /\ Joined(d, status'[d])
      BY <3>2 DEF JInv, SettleKnows, Settle
    <3> QED BY <1>2, <2>1, <3>1, <3>2 DEF DelegationStep
  <2>3. PICK v : v = status'[d] OBVIOUS
  <2>4. status'[d] = "deleted" \/ (status'[d] # "absent" /\ Joined(d, v)')
    BY <2>2, <2>3, JoinedStays
  <2> QED BY <1>2, <2>3, <2>4 DEF Joined
<1> QED BY <1>1, <1>2 DEF JInv, SettleKnows

\* A delegation has succeeded or failed only by the join of members that are all
\* terminal, and no later step of a member makes the verdict wrong.
THEOREM JoinsAreSound == Spec => []JoinIsSound
<1>1. Init => JInv BY DEF Init, JInv, SettleKnows
<1>2. JInv => JoinIsSound BY DEF JInv, JoinIsSound, Joined, AllTerminal, Finished
<1> QED BY AlwaysTInv, JInvStep, <1>1, <1>2, PTL DEF Spec

=============================================================================

-------------------------- MODULE AgentRunsProofs --------------------------
(***************************************************************************)
(* Proofs about AgentRuns for every set of runs, sessions and processes and *)
(* every limit.  Accounts is what the type of the budget needs to be kept:  *)
(* a reservation in force while a call is out, the executions it has paid   *)
(* for, and a call waiting while tools are executed.  It bounds the calls.  Alongside, Stopping says *)
(* how far a stop has got, and Dialogue who may still write.                *)
(***************************************************************************)
EXTENDS AgentRuns, TLAPS

Outside == {"none", "preparing", "offered", "activating"}
Working == {"llm", "chat", "tools", "executing", "memory"}
NoCalls == [llm |-> 0, tool |-> 0]

\* The account and the calls of one run, by where its coroutine stands.
AccountOf(r) ==
  /\ row[r] = "absent" => pc[r] = "none"
  /\ pc[r] \in Outside => account[r] = NoAccount /\ calls[r] = NoCalls
  /\ pc[r] \in Working => /\ calls[r].llm <= account[r].llm
                          /\ calls[r].tool <= Attempts * account[r].tool
                          /\ account[r].llm <= MaxLlmCalls
                          /\ account[r].tool <= MaxToolCalls
  /\ pc[r] = "chat" => account[r].llm > 0
  /\ pc[r] = "executing" => /\ account[r].tool > 0
                            /\ calls[r].tool <= Attempts * (account[r].tool - 1) + turn[r].tries
  /\ pc[r] \in {"tools", "executing"} => turn[r].pending > 0
  /\ calls[r].llm <= MaxLlmCalls /\ calls[r].tool <= Attempts * MaxToolCalls

Accounts == \A r \in Runs : AccountOf(r)

TInv == TypeOK /\ Accounts

-----------------------------------------------------------------------------
(* Operators *)

LEMMA NewTurnType == NewTurn \in TurnState
BY DEF NewTurn, TurnState, Kinds, Attempts

LEMMA NoAccountType == NoAccount \in AccountState
BY DEF NoAccount, AccountState

LEMMA ReconciledType ==
  ASSUME row \in [Runs -> RowStatus]
  PROVE  /\ Reconciled \in [Runs -> RowStatus]
         /\ \A r \in Runs : Reconciled[r] = row[r] \/ row[r] \in Active
         /\ \A r \in Runs : Reconciled[r] \in Active => row[r] \in Active
         /\ \A r \in Runs : row[r] \in Active => Reconciled[r] \in Active \union {"not_started", "interrupted"}
BY DEF Reconciled, Expired, RowStatus, Active, Terminal

\* After the model call: tools only with a call waiting, and never after an error.
LEMMA LeaveLlmStep ==
  ASSUME TypeOK, NEW r \in Runs, NEW t \in TurnState, LeaveLlm(r, t)
  PROVE  /\ turn' \in [Runs -> TurnState]
         /\ pc' \in [Runs -> Places]
         /\ pc'[r] \in {"tools", "memory", "finalize"}
         /\ pc'[r] = "tools" => turn'[r].pending > 0
         /\ t.error => pc'[r] = "finalize"
         /\ \A q \in Runs \ {r} : pc'[q] = pc[q] /\ turn'[q] = turn[q]
<1>1. PICK u \in Evaluated(t) :
        /\ turn' = [turn EXCEPT ![r] = u]
        /\ pc' = [pc EXCEPT ![r] = AfterLlm(Decision(u, IsCancelled(r)))]
  BY DEF LeaveLlm
<1>2. u \in TurnState /\ u.error = t.error
  BY DEF Evaluated, TurnState
<1>3. /\ AfterLlm(Decision(u, IsCancelled(r))) \in {"tools", "memory", "finalize"}
      /\ AfterLlm(Decision(u, IsCancelled(r))) = "tools" => u.pending > 0
      /\ u.error => AfterLlm(Decision(u, IsCancelled(r))) = "finalize"
  <2>1. u.pending \in Nat /\ u.error \in BOOLEAN
    BY <1>2 DEF TurnState
  <2> QED BY <2>1 DEF AfterLlm, Decision
<1> QED BY <1>1, <1>2, <1>3 DEF TypeOK, Places

-----------------------------------------------------------------------------
(* Types and accounts are kept: one lemma per action *)

LEMMA InitTInv == Init => TInv
<1> SUFFICES ASSUME Init PROVE TInv
  OBVIOUS
<1>1. TypeOK
  <2>1. <<>> \in Seq([run : Runs, kind : Kinds])
    OBVIOUS
  <2>2. log \in [Sessions -> Seq([run : Runs, kind : Kinds])]
    BY <2>1 DEF Init
  <2>3. 0 \in 0..Lease
    BY AgentConstants
  <2> QED
    BY <2>2, <2>3, NewTurnType, NoAccountType DEF Init, TypeOK, RowStatus, Active, Outcomes, Places
<1>2. ASSUME NEW r \in Runs PROVE AccountOf(r)
  <2>1. /\ pc[r] = "none" /\ account[r] = NoAccount
        /\ calls[r] = NoCalls /\ NoCalls.llm = 0 /\ NoCalls.tool = 0
    BY DEF Init, NoCalls
  <2> QED BY <2>1, AgentConstants DEF AccountOf, Outside, Working, Attempts
<1> QED BY <1>1, <1>2 DEF TInv, Accounts

\* A step of one run leaves the others' accounts as they are.
Alone(r) ==
  \A q \in Runs \ {r} :
    /\ pc'[q] = pc[q] /\ turn'[q] = turn[q]
    /\ account'[q] = account[q] /\ calls'[q] = calls[q]
    /\ row'[q] = "absent" => row[q] = "absent"

LEMMA AloneAccounts ==
  ASSUME Accounts, NEW r \in Runs, Alone(r), AccountOf(r)' PROVE Accounts'
<1> SUFFICES ASSUME NEW q \in Runs, q # r PROVE AccountOf(q)'
  BY DEF Accounts
<1>1. AccountOf(q) BY DEF Accounts
<1> QED BY <1>1 DEF Alone, AccountOf

LEMMA RegisterKeeps ==
  ASSUME TInv, NEW r \in Runs, Register(r) PROVE TInv'
<1> USE DEF Register
<1>1. TypeOK'
  <2>1. row' \in [Runs -> RowStatus]
    BY ReconciledType DEF TInv, TypeOK, RowStatus, Active
  <2>2. Lease \in 0..Lease
    BY AgentConstants
  <2>3. lease' \in [Runs -> 0..Lease]
    BY <2>2 DEF TInv, TypeOK, FromNow
  <2> QED BY <2>1, <2>3 DEF TInv, TypeOK, Places
<1>2. Alone(r)
  BY ReconciledType DEF TInv, TypeOK, Alone, Active
<1>3. AccountOf(r)'
  <2>1. AccountOf(r) /\ pc[r] = "none"
    BY DEF TInv, Accounts, AccountOf
  <2>2. pc'[r] = "preparing" /\ row'[r] = "pending"
    BY ReconciledType DEF TInv, TypeOK
  <2> QED BY <2>1, <2>2 DEF AccountOf, Outside, Working
<1> QED BY <1>1, <1>2, <1>3, AloneAccounts DEF TInv

\* The steps of a coroutine outside the ledger: what they must keep.
LEMMA CoroutineKeeps ==
  ASSUME TInv, NEW r \in Runs, Alone(r), AccountOf(r)',
         UNCHANGED <<row, session, process, lease, bindings, tasks, fenced, up, stopped>>,
         log' \in [Sessions -> Seq([run : Runs, kind : Kinds])],
         cancelling' \in SUBSET Runs,
         pc' \in [Runs -> Places], turn' \in [Runs -> TurnState],
         ending' \in [Runs -> Outcomes], account' \in [Runs -> AccountState],
         calls' \in [Runs -> [llm : Nat, tool : Nat]]
  PROVE  TInv'
<1>1. TypeOK'
  BY DEF TInv, TypeOK
<1> QED BY <1>1, AloneAccounts DEF TInv

\* Leaving with a status: the coroutine is past its calls.
LEMMA LeaveStep ==
  ASSUME TypeOK, NEW r \in Runs, NEW status \in Outcomes, Leave(r, status)
  PROVE  /\ pc' \in [Runs -> Places] /\ ending' \in [Runs -> Outcomes]
         /\ pc'[r] = "ending" /\ ending'[r] = status
         /\ \A q \in Runs \ {r} : pc'[q] = pc[q] /\ ending'[q] = ending[q]
BY DEF TypeOK, Leave, Places

LEMMA WrittenType ==
  ASSUME TypeOK, NEW r \in Runs, NEW kind \in Kinds, Written(r, kind)
  PROVE  log' \in [Sessions -> Seq([run : Runs, kind : Kinds])]
<1>1. session[r] \in Sessions /\ log[session[r]] \in Seq([run : Runs, kind : Kinds])
  BY DEF TypeOK
<1>2. [run |-> r, kind |-> kind] \in [run : Runs, kind : Kinds]
  OBVIOUS
<1>3. Append(log[session[r]], [run |-> r, kind |-> kind]) \in Seq([run : Runs, kind : Kinds])
  BY <1>1, <1>2
<1> QED BY <1>1, <1>3 DEF TypeOK, Written

LEMMA PrepareKeeps ==
  ASSUME TInv, NEW r \in Runs, Prepare(r) PROVE TInv'
<1> USE DEF serviceVars
<1>0. TypeOK /\ AccountOf(r) BY DEF TInv, Accounts
<1>1. CASE /\ Holds(r) /\ Written(r, "user") /\ UNCHANGED ending
           /\ pc' = [pc EXCEPT ![r] = IF r \in Streamed THEN "offered" ELSE "activating"]
  <2>1. log' \in [Sessions -> Seq([run : Runs, kind : Kinds])]
    BY <1>0, <1>1, WrittenType DEF Kinds
  <2>2. Alone(r) /\ AccountOf(r)' /\ pc' \in [Runs -> Places]
    BY <1>0, <1>1 DEF Prepare, Alone, AccountOf, Outside, Working, TypeOK, Places
  <2> QED BY <1>0, <1>1, <2>1, <2>2, CoroutineKeeps DEF Prepare, TypeOK
<1>2. CASE Leave(r, "failed") /\ UNCHANGED log
  <2>1. /\ pc' \in [Runs -> Places] /\ ending' \in [Runs -> Outcomes]
        /\ pc'[r] = "ending" /\ \A q \in Runs \ {r} : pc'[q] = pc[q]
    BY <1>0, <1>2, LeaveStep DEF Outcomes
  <2>2. Alone(r) /\ AccountOf(r)'
    BY <1>0, <2>1 DEF Prepare, Alone, AccountOf, Outside, Working
  <2> QED BY <1>0, <1>2, <2>1, <2>2, CoroutineKeeps DEF Prepare, TypeOK
<1> QED BY <1>1, <1>2 DEF Prepare

\* The exits from a coroutine that touch nothing but the account.
Exit(r) ==
  /\ pc[r] \notin {"none", "over"}
  /\ \E status \in Outcomes : Leave(r, status)
  /\ account' \in [Runs -> AccountState]
  /\ \A q \in Runs \ {r} : account'[q] = account[q]
  /\ cancelling' \in SUBSET Runs
  /\ UNCHANGED <<ledgerVars, bindings, tasks, fenced, up, turn, calls, stopped>>

LEMMA ExitKeeps ==
  ASSUME TInv, NEW r \in Runs, Exit(r) PROVE TInv'
<1>0. TypeOK /\ AccountOf(r) BY DEF TInv, Accounts
<1>1. /\ pc' \in [Runs -> Places] /\ ending' \in [Runs -> Outcomes]
      /\ pc'[r] = "ending" /\ \A q \in Runs \ {r} : pc'[q] = pc[q]
  BY <1>0, LeaveStep DEF Exit
<1>2. Alone(r) /\ AccountOf(r)'
  BY <1>0, <1>1 DEF Exit, ledgerVars, Alone, AccountOf, Outside, Working
<1> QED BY <1>0, <1>1, <1>2, CoroutineKeeps DEF Exit, ledgerVars, TypeOK

LEMMA ExitActions ==
  ASSUME TInv, NEW r \in Runs,
         \/ PrepareFails(r) \/ NodeRefused(r) \/ ToolRaises(r)
         \/ CloseTurn(r) \/ StoreRaises(r) \/ CancelDelivered(r)
  PROVE  Exit(r)
<1> USE DEF serviceVars, Exit
<1>0. TypeOK /\ AccountOf(r) BY DEF TInv, Accounts
<1>1. CASE PrepareFails(r)
  BY <1>0, <1>1 DEF PrepareFails, TypeOK, Outcomes
<1>2. CASE NodeRefused(r)
  BY <1>0, <1>2 DEF NodeRefused, Lost, TypeOK, Outcomes
<1>3. CASE ToolRaises(r)
  <2>1. account[r].tool - 1 \in Nat
    BY <1>0, <1>3 DEF ToolRaises, AccountOf, TypeOK, AccountState
  <2>2. account' \in [Runs -> AccountState]
    BY <1>0, <1>3, <2>1 DEF ToolRaises, TypeOK, AccountState
  <2> QED BY <1>0, <1>3, <2>2 DEF ToolRaises, TypeOK, Outcomes
<1>4. CASE CloseTurn(r)
  <2>1. account' \in [Runs -> AccountState]
    BY <1>0, <1>4, NoAccountType DEF CloseTurn, TypeOK
  <2> QED BY <1>0, <1>4, <2>1 DEF CloseTurn, TypeOK, Outcomes
<1>5. CASE StoreRaises(r)
  BY <1>0, <1>5 DEF StoreRaises, TypeOK, Outcomes
<1>6. CASE CancelDelivered(r)
  <2>1. account' \in [Runs -> AccountState]
    BY <1>0, <1>6, NoAccountType DEF CancelDelivered, TypeOK
  <2> QED BY <1>0, <1>6, <2>1 DEF CancelDelivered, TypeOK, Outcomes, InGraph
<1> QED BY <1>1, <1>2, <1>3, <1>4, <1>5, <1>6

LEMMA ConsumeKeeps ==
  ASSUME TInv, NEW r \in Runs, Consume(r) PROVE TInv'
<1> USE DEF serviceVars, ledgerVars
<1>0. TypeOK /\ AccountOf(r) BY DEF TInv, Accounts
<1>1. Alone(r) /\ AccountOf(r)' /\ pc' \in [Runs -> Places]
  BY <1>0 DEF Consume, Alone, AccountOf, Outside, Working, TypeOK, Places
<1> QED BY <1>0, <1>1, CoroutineKeeps DEF Consume, TypeOK

LEMMA ActivateKeeps ==
  ASSUME TInv, NEW r \in Runs, Activate(r) PROVE TInv'
<1>0. TypeOK /\ AccountOf(r) /\ pc[r] = "activating" /\ row[r] # "absent"
  BY DEF TInv, Accounts, Activate, AccountOf
<1>a. account[r] = NoAccount /\ calls[r] = NoCalls
  BY <1>0 DEF AccountOf, Outside
<1>1. CASE row[r] = "pending" /\ MayGo(r)
  <2>1. /\ row' = [row EXCEPT ![r] = "running"] /\ lease' = [lease EXCEPT ![r] = Lease]
        /\ tasks' = tasks \union {r} /\ account' = [account EXCEPT ![r].open = TRUE]
        /\ pc' = [pc EXCEPT ![r] = "llm"] /\ UNCHANGED ending
    BY <1>1 DEF Activate, FromNow, MayGo, Holds, Active
  <2>2. Lease \in 0..Lease
    BY AgentConstants
  <2>3. account' \in [Runs -> AccountState]
    BY <1>0, <2>1 DEF TypeOK, AccountState
  <2>4. row' \in [Runs -> RowStatus] /\ lease' \in [Runs -> 0..Lease]
    BY <1>0, <2>1, <2>2 DEF TypeOK, RowStatus, Active
  <2>5. TypeOK'
    BY <1>0, <2>1, <2>3, <2>4 DEF Activate, TypeOK, Places
  <2>6. Alone(r)
    BY <1>0, <2>1 DEF Activate, TypeOK, Alone
  <2>7. /\ pc'[r] = "llm" /\ row'[r] = "running" /\ calls'[r] = NoCalls
        /\ account'[r].llm = 0 /\ account'[r].tool = 0
    BY <1>0, <1>a, <2>1 DEF Activate, TypeOK, NoAccount, NoCalls
  <2>8. AccountOf(r)'
    BY <2>7, AgentConstants DEF AccountOf, Outside, Working, NoCalls, Attempts
  <2> QED BY <2>5, <2>6, <2>8, AloneAccounts DEF TInv
<1>2. CASE pc' = [pc EXCEPT ![r] = "over"] /\ UNCHANGED <<row, lease, tasks, account, ending>>
  <2>1. TypeOK' /\ Alone(r)
    BY <1>0, <1>2 DEF Activate, TypeOK, Places, Alone
  <2>2. AccountOf(r)'
    BY <1>0, <1>a, <1>2 DEF Activate, AccountOf, TypeOK, Outside, Working, NoAccount
  <2> QED BY <2>1, <2>2, AloneAccounts DEF TInv
<1>3. CASE Leave(r, "failed") /\ UNCHANGED <<row, lease, tasks, account>>
  <2>1. Exit(r)
    BY <1>0, <1>3 DEF Activate, Exit, TypeOK, Outcomes, ledgerVars
  <2> QED BY <2>1, ExitKeeps
<1> QED BY <1>1, <1>2, <1>3 DEF Activate

\* A reservation and the call it is for.
LEMMA ReserveLlm ==
  ASSUME TypeOK, NEW r \in Runs,
         account' = [account EXCEPT ![r].open = TRUE, ![r].llm = @ + 1],
         calls' = [calls EXCEPT ![r].llm = @ + 1]
  PROVE  /\ account' \in [Runs -> AccountState] /\ calls' \in [Runs -> [llm : Nat, tool : Nat]]
         /\ account'[r].llm = account[r].llm + 1 /\ account'[r].tool = account[r].tool
         /\ calls'[r].llm = calls[r].llm + 1 /\ calls'[r].tool = calls[r].tool
         /\ account[r].llm \in Nat /\ account[r].tool \in Nat
         /\ calls[r].llm \in Nat /\ calls[r].tool \in Nat
<1>1. account \in [Runs -> AccountState] /\ calls \in [Runs -> [llm : Nat, tool : Nat]]
  BY DEF TypeOK
<1>2. account' \in [Runs -> AccountState]
  BY <1>1 DEF AccountState
<1>3. calls' \in [Runs -> [llm : Nat, tool : Nat]]
  BY <1>1
<1>4. account'[r].llm = account[r].llm + 1 /\ account'[r].tool = account[r].tool
  BY <1>1 DEF AccountState
<1>5. calls'[r].llm = calls[r].llm + 1 /\ calls'[r].tool = calls[r].tool
  BY <1>1
<1>6. /\ account[r].llm \in Nat /\ account[r].tool \in Nat
      /\ calls[r].llm \in Nat /\ calls[r].tool \in Nat
  BY <1>1 DEF AccountState
<1> QED BY <1>2, <1>3, <1>4, <1>5, <1>6

LEMMA ReserveTool ==
  ASSUME TypeOK, NEW r \in Runs,
         account' = [account EXCEPT ![r].open = TRUE, ![r].tool = @ + 1],
         calls' = [calls EXCEPT ![r].tool = @ + 1]
  PROVE  /\ account' \in [Runs -> AccountState] /\ calls' \in [Runs -> [llm : Nat, tool : Nat]]
         /\ account'[r].tool = account[r].tool + 1 /\ account'[r].llm = account[r].llm
         /\ calls'[r].tool = calls[r].tool + 1 /\ calls'[r].llm = calls[r].llm
         /\ account[r].llm \in Nat /\ account[r].tool \in Nat
         /\ calls[r].llm \in Nat /\ calls[r].tool \in Nat
<1>1. account \in [Runs -> AccountState] /\ calls \in [Runs -> [llm : Nat, tool : Nat]]
  BY DEF TypeOK
<1>2. account' \in [Runs -> AccountState]
  BY <1>1 DEF AccountState
<1>3. calls' \in [Runs -> [llm : Nat, tool : Nat]]
  BY <1>1
<1>4. account'[r].tool = account[r].tool + 1 /\ account'[r].llm = account[r].llm
  BY <1>1 DEF AccountState
<1>5. calls'[r].tool = calls[r].tool + 1 /\ calls'[r].llm = calls[r].llm
  BY <1>1
<1>6. /\ account[r].llm \in Nat /\ account[r].tool \in Nat
      /\ calls[r].llm \in Nat /\ calls[r].tool \in Nat
  BY <1>1 DEF AccountState
<1> QED BY <1>2, <1>3, <1>4, <1>5, <1>6

LEMMA CallLlmKeeps ==
  ASSUME TInv, NEW r \in Runs, CallLlm(r) PROVE TInv'
<1> USE DEF serviceVars, ledgerVars
<1>0. TypeOK /\ AccountOf(r) /\ pc[r] = "llm" /\ row[r] # "absent"
  BY DEF TInv, Accounts, CallLlm, AccountOf
<1>1. CASE account[r].llm < MaxLlmCalls
  <2>0. account[r].llm \in Nat /\ ~(account[r].llm >= MaxLlmCalls)
    BY <1>0, <1>1, AgentConstants DEF TypeOK, AccountState
  <2>1. /\ account' = [account EXCEPT ![r].open = TRUE, ![r].llm = @ + 1]
        /\ calls' = [calls EXCEPT ![r].llm = @ + 1]
        /\ pc' = [pc EXCEPT ![r] = "chat"] /\ UNCHANGED turn
    BY <2>0 DEF CallLlm
  <2>2. /\ account' \in [Runs -> AccountState] /\ calls' \in [Runs -> [llm : Nat, tool : Nat]]
        /\ account'[r].llm = account[r].llm + 1 /\ account'[r].tool = account[r].tool
        /\ calls'[r].llm = calls[r].llm + 1 /\ calls'[r].tool = calls[r].tool
        /\ account[r].llm \in Nat /\ account[r].tool \in Nat
        /\ calls[r].llm \in Nat /\ calls[r].tool \in Nat
    BY <1>0, <2>1, ReserveLlm
  <2>4. pc'[r] = "chat"
    BY <1>0, <2>1 DEF TypeOK
  <2>5. AccountOf(r)'
    BY <1>0, <1>1, <2>2, <2>4, AgentConstants DEF CallLlm, AccountOf, Outside, Working
  <2>6. Alone(r) /\ pc' \in [Runs -> Places]
    BY <1>0, <2>1 DEF CallLlm, TypeOK, Alone, Places
  <2> QED BY <1>0, <2>1, <2>2, <2>5, <2>6, CoroutineKeeps DEF CallLlm, TypeOK
<1>2. CASE account[r].llm >= MaxLlmCalls
  <2> DEFINE t == [turn[r] EXCEPT !.exhausted = TRUE, !.pending = 0]
  <2>1. LeaveLlm(r, t) /\ UNCHANGED <<account, calls>>
    BY <1>0, <1>2, AgentConstants DEF CallLlm, TypeOK, AccountState
  <2>2. t \in TurnState
    BY <1>0, ZenonT(60) DEF TypeOK, TurnState
  <2> HIDE DEF t
  <2>3. /\ turn' \in [Runs -> TurnState] /\ pc' \in [Runs -> Places]
        /\ pc'[r] \in {"tools", "memory", "finalize"}
        /\ pc'[r] = "tools" => turn'[r].pending > 0
        /\ \A q \in Runs \ {r} : pc'[q] = pc[q] /\ turn'[q] = turn[q]
    BY <1>0, <2>1, <2>2, LeaveLlmStep
  <2>4. AccountOf(r)' /\ Alone(r)
    BY <1>0, <2>1, <2>3 DEF CallLlm, AccountOf, Alone, Outside, Working
  <2> QED BY <1>0, <2>1, <2>3, <2>4, CoroutineKeeps DEF CallLlm, TypeOK
<1> QED BY <1>0, <1>1, <1>2, AgentConstants DEF TypeOK, AccountState

\* A turn that leaves call_llm without a call, or with the one it made.
LEMMA ModelAnswers ==
  ASSUME TInv, NEW r \in Runs, pc[r] \in {"llm", "chat"}, NEW t \in TurnState,
         LeaveLlm(r, t), UNCHANGED <<ledgerVars, serviceVars, ending, account, calls, stopped>>
  PROVE  TInv'
<1> USE DEF serviceVars, ledgerVars
<1>0. TypeOK /\ AccountOf(r) BY DEF TInv, Accounts
<1>1. /\ turn' \in [Runs -> TurnState] /\ pc' \in [Runs -> Places]
      /\ pc'[r] \in {"tools", "memory", "finalize"}
      /\ pc'[r] = "tools" => turn'[r].pending > 0
      /\ \A q \in Runs \ {r} : pc'[q] = pc[q] /\ turn'[q] = turn[q]
  BY <1>0, LeaveLlmStep
<1>2. AccountOf(r)' /\ Alone(r)
  BY <1>0, <1>1 DEF AccountOf, Alone, Outside, Working
<1> QED BY <1>0, <1>1, <1>2, CoroutineKeeps DEF TypeOK

LEMMA LlmRefusedKeeps ==
  ASSUME TInv, NEW r \in Runs, LlmRefused(r) PROVE TInv'
<1>0. TypeOK /\ turn[r] \in TurnState BY DEF TInv, TypeOK
<1>1. [turn[r] EXCEPT !.error = TRUE] \in TurnState
  BY <1>0 DEF TurnState
<1>2. [turn[r] EXCEPT !.iterations = @ + 1, !.final = TRUE, !.pending = 0] \in TurnState
  <2>1. turn[r].iterations + 1 \in Nat
    BY <1>0 DEF TurnState
  <2> QED BY <1>0, <2>1 DEF TurnState
<1> QED BY <1>1, <1>2, ModelAnswers DEF LlmRefused

LEMMA LlmReturnsKeeps ==
  ASSUME TInv, NEW r \in Runs, LlmReturns(r) PROVE TInv'
<1>0. TypeOK /\ turn[r] \in TurnState BY DEF TInv, TypeOK
<1> DEFINE answered(n) == [turn[r] EXCEPT !.iterations = @ + 1, !.final = TRUE, !.pending = n,
                                          !.writes = IF n = 0 THEN @ ELSE Append(@, "calls")]
<1>1. PICK n \in 0..MaxCalls : LeaveLlm(r, answered(n))
  BY DEF LlmReturns
<1>2. n \in Nat BY AgentConstants
<1>3. /\ turn[r].writes \in Seq(Kinds)
      /\ Append(turn[r].writes, "calls") \in Seq(Kinds)
  BY <1>0 DEF TurnState, Kinds
<1>4. answered(n) \in TurnState
  <2> DEFINE w == IF n = 0 THEN turn[r].writes ELSE Append(turn[r].writes, "calls")
  <2>1. w \in Seq(Kinds) /\ turn[r].iterations + 1 \in Nat
    BY <1>0, <1>3 DEF TurnState
  <2>2. answered(n) = [turn[r] EXCEPT !.iterations = @ + 1, !.final = TRUE, !.pending = n, !.writes = w]
    OBVIOUS
  <2> HIDE DEF w, answered
  <2> QED BY <1>0, <1>2, <2>1, <2>2 DEF TurnState
<1> QED BY <1>1, <1>4, ModelAnswers DEF LlmReturns

LEMMA LlmFailsKeeps ==
  ASSUME TInv, NEW r \in Runs, LlmFails(r) PROVE TInv'
<1> USE DEF serviceVars, ledgerVars
<1>0. TypeOK /\ AccountOf(r) /\ pc[r] = "chat" /\ turn[r] \in TurnState /\ account[r] \in AccountState
  BY DEF TInv, Accounts, LlmFails, TypeOK
<1> DEFINE t == [turn[r] EXCEPT !.error = TRUE]
<1>1. t \in TurnState /\ t.error
  BY <1>0 DEF TurnState
<1>2. LeaveLlm(r, t)
  BY DEF LlmFails
<1> HIDE DEF t
<1>3. /\ turn' \in [Runs -> TurnState] /\ pc' \in [Runs -> Places]
      /\ pc'[r] = "finalize"
      /\ \A q \in Runs \ {r} : pc'[q] = pc[q] /\ turn'[q] = turn[q]
  BY <1>0, <1>1, <1>2, LeaveLlmStep
<1>4. account[r].llm - 1 \in Nat
  BY <1>0 DEF AccountOf, AccountState
<1>5. account' \in [Runs -> AccountState]
  BY <1>0, <1>4 DEF LlmFails, TypeOK, AccountState
<1>6. AccountOf(r)' /\ Alone(r)
  BY <1>0, <1>3 DEF LlmFails, AccountOf, Alone, Outside, Working, TypeOK
<1> QED BY <1>0, <1>3, <1>5, <1>6, CoroutineKeeps DEF LlmFails, TypeOK

LEMMA ToolResultStep ==
  ASSUME TypeOK, NEW r \in Runs, turn[r].pending > 0, NEW terminal \in BOOLEAN,
         ToolResult(r, terminal)
  PROVE  /\ turn' \in [Runs -> TurnState] /\ pc' \in [Runs -> Places]
         /\ pc'[r] \in {"memory", "tools"}
         /\ pc'[r] = "tools" => turn'[r].pending > 0
         /\ \A q \in Runs \ {r} : pc'[q] = pc[q] /\ turn'[q] = turn[q]
<1> DEFINE left == IF terminal THEN 0 ELSE turn[r].pending - 1
<1>0. turn \in [Runs -> TurnState] /\ turn[r] \in TurnState /\ turn[r].writes \in Seq(Kinds)
  BY DEF TypeOK, TurnState
<1>1. left \in Nat
  BY <1>0 DEF TurnState
<1>2. Append(turn[r].writes, "result") \in Seq(Kinds)
  BY <1>0 DEF Kinds
<1>3. /\ turn' = [turn EXCEPT ![r].pending = left,
                              ![r].tries = 0,
                              ![r].writes = Append(@, "result"),
                              ![r].final = IF left = 0 THEN terminal ELSE @]
      /\ pc' = [pc EXCEPT ![r] = IF left = 0 THEN "memory" ELSE "tools"]
  BY DEF ToolResult
<1> HIDE DEF left
<1>4. (IF left = 0 THEN terminal ELSE turn[r].final) \in BOOLEAN
  BY <1>0 DEF TurnState
<1>5. turn' \in [Runs -> TurnState]
  BY <1>0, <1>1, <1>2, <1>3, <1>4, 0 \in 0..Attempts DEF TurnState, Attempts
<1>6. turn'[r].pending = left
  BY <1>0, <1>3 DEF TurnState
<1>7. /\ pc' \in [Runs -> Places] /\ pc'[r] = IF left = 0 THEN "memory" ELSE "tools"
      /\ \A q \in Runs \ {r} : pc'[q] = pc[q] /\ turn'[q] = turn[q]
  BY <1>0, <1>3 DEF TypeOK, Places
<1> QED BY <1>1, <1>5, <1>6, <1>7

\* A result for a call, with the budget as it was.
LEMMA ToolAnswers ==
  ASSUME TInv, NEW r \in Runs, pc[r] \in {"tools", "executing"}, NEW terminal \in BOOLEAN,
         ToolResult(r, terminal),
         UNCHANGED <<ledgerVars, serviceVars, ending, account, calls, stopped>>
  PROVE  TInv'
<1> USE DEF serviceVars, ledgerVars
<1>0. TypeOK /\ AccountOf(r) BY DEF TInv, Accounts
<1>1. /\ turn' \in [Runs -> TurnState] /\ pc' \in [Runs -> Places]
      /\ pc'[r] \in {"memory", "tools"}
      /\ pc'[r] = "tools" => turn'[r].pending > 0
      /\ \A q \in Runs \ {r} : pc'[q] = pc[q] /\ turn'[q] = turn[q]
  BY <1>0, ToolResultStep DEF AccountOf
<1>2. AccountOf(r)' /\ Alone(r)
  BY <1>0, <1>1 DEF AccountOf, Alone, Outside, Working
<1> QED BY <1>0, <1>1, <1>2, CoroutineKeeps DEF TypeOK

LEMMA TriedStep ==
  ASSUME TypeOK, NEW r \in Runs, NEW n \in 0..Attempts,
         turn' = [turn EXCEPT ![r].tries = n]
  PROVE  /\ turn' \in [Runs -> TurnState] /\ turn'[r].tries = n
         /\ turn'[r].pending = turn[r].pending
         /\ \A q \in Runs \ {r} : turn'[q] = turn[q]
<1>1. turn \in [Runs -> TurnState] /\ turn[r] \in TurnState
  BY DEF TypeOK
<1>2. [turn[r] EXCEPT !.tries = n] \in TurnState
  BY <1>1 DEF TurnState
<1>3. turn'[r] = [turn[r] EXCEPT !.tries = n]
  BY <1>1
<1> QED BY <1>1, <1>2, <1>3 DEF TurnState

LEMMA ExecuteToolKeeps ==
  ASSUME TInv, NEW r \in Runs, ExecuteTool(r) PROVE TInv'
<1>0. TypeOK /\ AccountOf(r) /\ pc[r] = "tools" /\ row[r] # "absent"
  BY DEF TInv, Accounts, ExecuteTool, AccountOf
<1>1. CASE ToolResult(r, FALSE) /\ UNCHANGED <<account, calls>>
  BY <1>0, <1>1, ToolAnswers DEF ExecuteTool
<1>2. CASE /\ account[r].tool < MaxToolCalls
           /\ account' = [account EXCEPT ![r].open = TRUE, ![r].tool = @ + 1]
           /\ calls' = [calls EXCEPT ![r].tool = @ + 1]
           /\ pc' = [pc EXCEPT ![r] = "executing"]
           /\ turn' = [turn EXCEPT ![r].tries = 1]
  <2> USE DEF serviceVars, ledgerVars
  <2>2. /\ account' \in [Runs -> AccountState] /\ calls' \in [Runs -> [llm : Nat, tool : Nat]]
        /\ account'[r].tool = account[r].tool + 1 /\ account'[r].llm = account[r].llm
        /\ calls'[r].tool = calls[r].tool + 1 /\ calls'[r].llm = calls[r].llm
        /\ account[r].llm \in Nat /\ account[r].tool \in Nat
        /\ calls[r].llm \in Nat /\ calls[r].tool \in Nat
    BY <1>0, <1>2, ReserveTool
  <2>3. /\ turn' \in [Runs -> TurnState] /\ turn'[r].tries = 1
        /\ turn'[r].pending = turn[r].pending
        /\ \A q \in Runs \ {r} : turn'[q] = turn[q]
    BY <1>0, <1>2, TriedStep, 1 \in 0..Attempts DEF Attempts
  <2>4. pc'[r] = "executing"
    BY <1>0, <1>2 DEF TypeOK
  <2>5. AccountOf(r)'
    BY <1>0, <1>2, <2>2, <2>3, <2>4, AgentConstants
       DEF ExecuteTool, AccountOf, Outside, Working, Attempts
  <2>6. Alone(r) /\ pc' \in [Runs -> Places]
    BY <1>0, <1>2, <2>3 DEF ExecuteTool, TypeOK, Alone, Places
  <2> QED BY <1>0, <1>2, <2>2, <2>3, <2>5, <2>6, CoroutineKeeps DEF ExecuteTool, TypeOK
<1> QED BY <1>1, <1>2 DEF ExecuteTool

\* The reservation of the first execution pays for the others.
LEMMA ToolRepeatsKeeps ==
  ASSUME TInv, NEW r \in Runs, ToolRepeats(r) PROVE TInv'
<1> USE DEF serviceVars, ledgerVars
<1>0. TypeOK /\ AccountOf(r) /\ pc[r] = "executing" /\ turn[r].tries \in 0..Attempts
  BY DEF TInv, Accounts, ToolRepeats, TypeOK, TurnState
<1>1. turn[r].tries + 1 \in 0..Attempts /\ turn' = [turn EXCEPT ![r].tries = turn[r].tries + 1]
  BY <1>0 DEF ToolRepeats, Attempts, TypeOK
<1>2. /\ turn' \in [Runs -> TurnState] /\ turn'[r].tries = turn[r].tries + 1
      /\ turn'[r].pending = turn[r].pending
      /\ \A q \in Runs \ {r} : turn'[q] = turn[q]
  BY <1>0, <1>1, TriedStep
<1>3. /\ calls' \in [Runs -> [llm : Nat, tool : Nat]]
      /\ calls'[r].tool = calls[r].tool + 1 /\ calls'[r].llm = calls[r].llm
      /\ calls[r].tool \in Nat /\ account[r].tool \in Nat
      /\ \A q \in Runs \ {r} : calls'[q] = calls[q]
  <2>1. calls \in [Runs -> [llm : Nat, tool : Nat]] /\ account[r] \in AccountState
    BY <1>0 DEF TypeOK
  <2> QED BY <2>1 DEF ToolRepeats, AccountState
<1>4. AccountOf(r)'
  BY <1>0, <1>2, <1>3, AgentConstants DEF ToolRepeats, AccountOf, Outside, Working, Attempts
<1>5. Alone(r)
  BY <1>2, <1>3 DEF ToolRepeats, Alone
<1> QED BY <1>0, <1>2, <1>3, <1>4, <1>5, CoroutineKeeps DEF ToolRepeats, TypeOK

LEMMA ToolReturnsKeeps ==
  ASSUME TInv, NEW r \in Runs, ToolReturns(r) PROVE TInv'
<1>1. CASE (\E terminal \in BOOLEAN : ToolResult(r, terminal)) /\ UNCHANGED ending
  BY <1>1, ToolAnswers DEF ToolReturns
<1>2. CASE Leave(r, "failed") /\ UNCHANGED turn
  <2>1. Exit(r)
    BY <1>2 DEF ToolReturns, Exit, TInv, TypeOK, Outcomes, serviceVars
  <2> QED BY <2>1, ExitKeeps
<1> QED BY <1>1, <1>2 DEF ToolReturns

LEMMA UpdateMemoryKeeps ==
  ASSUME TInv, NEW r \in Runs, UpdateMemory(r) PROVE TInv'
<1> USE DEF serviceVars
<1>0. /\ TypeOK /\ AccountOf(r) /\ pc[r] = "memory" /\ row[r] # "absent"
      /\ turn \in [Runs -> TurnState] /\ turn[r] \in TurnState
  BY DEF TInv, Accounts, UpdateMemory, AccountOf, TypeOK
<1>1. CASE /\ turn[r].writes # <<>> /\ Written(r, Head(turn[r].writes))
           /\ turn' = [turn EXCEPT ![r].writes = Tail(@)] /\ UNCHANGED pc
  <2>1. Head(turn[r].writes) \in Kinds /\ Tail(turn[r].writes) \in Seq(Kinds)
    BY <1>0, <1>1 DEF TurnState
  <2>2. log' \in [Sessions -> Seq([run : Runs, kind : Kinds])]
    BY <1>0, <1>1, <2>1, WrittenType
  <2>3. turn' \in [Runs -> TurnState]
    BY <1>0, <1>1, <2>1 DEF TurnState
  <2>4. AccountOf(r)' /\ Alone(r)
    BY <1>0, <1>1 DEF UpdateMemory, AccountOf, Alone, Outside, Working
  <2> QED BY <1>0, <1>1, <2>2, <2>3, <2>4, CoroutineKeeps DEF UpdateMemory, TypeOK
<1>2. CASE /\ \E t \in Evaluated(turn[r]) :
                /\ turn' = [turn EXCEPT ![r] = t]
                /\ pc' = [pc EXCEPT ![r] = AfterMemory(Decision(t, IsCancelled(r)))]
           /\ UNCHANGED log
  <2>1. PICK t \in Evaluated(turn[r]) :
               /\ turn' = [turn EXCEPT ![r] = t]
               /\ pc' = [pc EXCEPT ![r] = AfterMemory(Decision(t, IsCancelled(r)))]
    BY <1>2
  <2>2. t \in TurnState
    BY <1>0 DEF Evaluated, TurnState
  <2>3. AfterMemory(Decision(t, IsCancelled(r))) \in {"llm", "finalize"}
    BY DEF AfterMemory
  <2>4. /\ turn' \in [Runs -> TurnState] /\ pc' \in [Runs -> Places]
        /\ pc'[r] \in {"llm", "finalize"}
        /\ \A q \in Runs \ {r} : pc'[q] = pc[q] /\ turn'[q] = turn[q]
    BY <1>0, <2>1, <2>2, <2>3 DEF TypeOK, Places
  <2>5. AccountOf(r)' /\ Alone(r)
    BY <1>0, <2>4 DEF UpdateMemory, AccountOf, Alone, Outside, Working
  <2> QED BY <1>0, <1>2, <2>4, <2>5, CoroutineKeeps DEF UpdateMemory, TypeOK
<1> QED BY <1>1, <1>2 DEF UpdateMemory

LEMMA FinalizeKeeps ==
  ASSUME TInv, NEW r \in Runs, Finalize(r) PROVE TInv'
<1> USE DEF serviceVars
<1>0. /\ TypeOK /\ AccountOf(r) /\ pc[r] = "finalize" /\ row[r] # "absent"
      /\ turn \in [Runs -> TurnState] /\ turn[r] \in TurnState
  BY DEF TInv, Accounts, Finalize, AccountOf, TypeOK
<1> DEFINE failed(t) == Decision(t, IsCancelled(r)) \in {"cancelled", "error", "iteration_limit", "deadline"}
<1>1. PICK t \in Evaluated(turn[r]) :
        turn' = [turn EXCEPT ![r] = [t EXCEPT !.error = failed(t)]]
  BY DEF Finalize
<1>a. failed(t) \in BOOLEAN
  OBVIOUS
<1> HIDE DEF failed
<1>2. t \in TurnState
  BY <1>0 DEF Evaluated, TurnState
<1>3. turn' \in [Runs -> TurnState] /\ \A q \in Runs \ {r} : turn'[q] = turn[q]
  BY <1>0, <1>1, <1>a, <1>2 DEF TurnState
<1>4. log' \in [Sessions -> Seq([run : Runs, kind : Kinds])]
  <2>1. Written(r, "final") \/ UNCHANGED log
    BY DEF Finalize
  <2> QED BY <1>0, <2>1, WrittenType DEF Kinds, TypeOK
<1>5. AccountOf(r)' /\ Alone(r) /\ pc' \in [Runs -> Places]
  BY <1>0, <1>3 DEF Finalize, AccountOf, Alone, Outside, Working, TypeOK, Places
<1> QED BY <1>0, <1>3, <1>4, <1>5, CoroutineKeeps DEF Finalize, TypeOK

\* What the ledger keeps for a row it ends.
LEMMA RecordStep ==
  ASSUME TypeOK, NEW r \in Runs, NEW condition, NEW status \in Terminal,
         RecordIf(condition, r, status)
  PROVE  /\ row' \in [Runs -> RowStatus] /\ lease' \in [Runs -> 0..Lease]
         /\ \A q \in Runs : row'[q] = "absent" => row[q] = "absent"
<1>1. 0 \in 0..Lease
  BY AgentConstants
<1>2. row' \in [Runs -> RowStatus] /\ \A q \in Runs : row'[q] = "absent" => row[q] = "absent"
  BY DEF TypeOK, RecordIf, RowStatus, Terminal
<1>3. lease' \in [Runs -> 0..Lease]
  BY <1>1 DEF TypeOK, RecordIf
<1> QED BY <1>2, <1>3

LEMMA OverStep ==
  ASSUME TypeOK, NEW S, Over(S)
  PROVE  /\ pc' \in [Runs -> Places] /\ turn' \in [Runs -> TurnState] /\ ending' \in [Runs -> Outcomes]
         /\ \A q \in Runs : pc'[q] = IF q \in S /\ pc[q] # "none" THEN "over" ELSE pc[q]
         /\ \A q \in Runs : q \notin S => turn'[q] = turn[q]
BY NewTurnType DEF TypeOK, Over, Places, Outcomes

LEMMA FinishKeeps ==
  ASSUME TInv, NEW r \in Runs, Finish(r) PROVE TInv'
<1>0. TypeOK /\ AccountOf(r) /\ pc[r] = "ending" /\ row[r] # "absent" /\ ending[r] \in Terminal
  BY DEF TInv, Accounts, Finish, AccountOf, TypeOK, Outcomes, Terminal
<1>1. /\ row' \in [Runs -> RowStatus] /\ lease' \in [Runs -> 0..Lease]
      /\ \A q \in Runs : row'[q] = "absent" => row[q] = "absent"
  BY <1>0, RecordStep DEF Finish
<1>2. /\ pc' \in [Runs -> Places] /\ turn' \in [Runs -> TurnState] /\ ending' \in [Runs -> Outcomes]
      /\ pc'[r] = "over"
      /\ \A q \in Runs \ {r} : pc'[q] = pc[q] /\ turn'[q] = turn[q]
  BY <1>0, OverStep DEF Finish
<1>4. TypeOK'
  BY <1>0, <1>1, <1>2 DEF Finish, Forget, TypeOK
<1>5. Alone(r)
  BY <1>1, <1>2 DEF Finish, Alone
<1>6. AccountOf(r)'
  BY <1>0, <1>1, <1>2 DEF Finish, AccountOf, Outside, Working
<1> QED BY <1>4, <1>5, <1>6, AloneAccounts DEF TInv

LEMMA CloseStreamKeeps ==
  ASSUME TInv, NEW r \in Runs, CloseStream(r) PROVE TInv'
<1> USE DEF serviceVars, ledgerVars
<1>0. TypeOK /\ AccountOf(r) /\ pc[r] = "over"
  BY DEF TInv, Accounts, CloseStream
<1>1. /\ account' \in [Runs -> AccountState]
      /\ \A q \in Runs \ {r} : account'[q] = account[q]
  BY <1>0, NoAccountType DEF CloseStream, TypeOK
<1>2. AccountOf(r)' /\ Alone(r)
  BY <1>0, <1>1 DEF CloseStream, AccountOf, Alone, Outside, Working
<1> QED BY <1>0, <1>1, <1>2, CoroutineKeeps DEF CloseStream, TypeOK

\* Steps of the ledger and the services that leave every coroutine where it is.
LEMMA ServiceKeeps ==
  ASSUME TInv, UNCHANGED <<runVars, session, process>>,
         row' \in [Runs -> RowStatus], lease' \in [Runs -> 0..Lease],
         \A q \in Runs : row'[q] = "absent" => row[q] = "absent",
         log' \in [Sessions -> Seq([run : Runs, kind : Kinds])],
         bindings' \in SUBSET Runs, tasks' \in SUBSET Runs, fenced' \in SUBSET Runs,
         cancelling' \in SUBSET Runs, stopped' \in SUBSET Runs,
         up' \in [Processes -> {"up", "closing", "gone"}]
  PROVE  TInv'
<1> USE DEF runVars
<1>1. TypeOK'
  BY DEF TInv, TypeOK
<1>2. ASSUME NEW q \in Runs PROVE AccountOf(q)'
  <2>1. AccountOf(q) BY DEF TInv, Accounts
  <2> QED BY <2>1 DEF AccountOf
<1> QED BY <1>1, <1>2 DEF TInv, Accounts

LEMMA CancelTaskKeeps ==
  ASSUME TInv, NEW r \in Runs, CancelTask(r) PROVE TInv'
BY ServiceKeeps DEF CancelTask, TInv, TypeOK, ledgerVars

LEMMA CancelPendingKeeps ==
  ASSUME TInv, NEW r \in Runs, CancelPending(r) PROVE TInv'
<1>1. /\ row' \in [Runs -> RowStatus] /\ lease' \in [Runs -> 0..Lease]
      /\ \A q \in Runs : row'[q] = "absent" => row[q] = "absent"
  BY RecordStep DEF CancelPending, TInv, Terminal
<1> QED BY <1>1, ServiceKeeps DEF CancelPending, Forget, TInv, TypeOK

LEMMA HeartbeatKeeps ==
  ASSUME TInv, NEW p \in Processes, Heartbeat(p) PROVE TInv'
<1>0. TypeOK BY DEF TInv
<1>1. /\ row' \in [Runs -> RowStatus]
      /\ \A q \in Runs : row'[q] = "absent" => row[q] = "absent"
  BY <1>0, ReconciledType DEF Heartbeat, TypeOK, Active
<1>2. Lease \in 0..Lease
  BY AgentConstants
<1>3. PICK raising \in SUBSET Of(p, bindings) :
        LET lost == {r \in Of(p, tasks) : r \in raising \/ ~Holds(r)} IN
        /\ lease' = [r \in Runs |-> IF r \in Renewed(p) \ raising THEN FromNow(r) ELSE lease[r]]
        /\ fenced' = fenced \union raising \union lost
        /\ cancelling' = cancelling \union lost
        /\ bindings' = {r \in bindings : process[r] = p /\ r \notin tasks
                                            => Holds(r) /\ r \notin raising}
  BY DEF Heartbeat
<1>4. lease' \in [Runs -> 0..Lease]
  BY <1>0, <1>2, <1>3 DEF FromNow, TypeOK
<1>5. bindings' \in SUBSET Runs /\ fenced' \in SUBSET Runs /\ cancelling' \in SUBSET Runs
  BY <1>0, <1>3 DEF TypeOK, Of
<1> QED BY <1>0, <1>1, <1>4, <1>5, ServiceKeeps DEF Heartbeat, TypeOK

LEMMA TimePassesKeeps ==
  ASSUME TInv, TimePasses PROVE TInv'
<1>1. ASSUME NEW q \in Runs PROVE (IF Holds(q) THEN lease[q] - 1 ELSE lease[q]) \in 0..Lease
  BY AgentConstants DEF TInv, TypeOK, Holds
<1>2. lease' \in [Runs -> 0..Lease]
  BY <1>1 DEF TimePasses
<1> QED BY <1>2, ServiceKeeps DEF TimePasses, TInv, TypeOK, serviceVars

LEMMA CloseServiceKeeps ==
  ASSUME TInv, NEW p \in Processes, CloseService(p) PROVE TInv'
BY ServiceKeeps DEF CloseService, TInv, TypeOK, ledgerVars, Of

LEMMA GoneKeeps ==
  ASSUME TInv, NEW p \in Processes, Gone(p),
         row' \in [Runs -> RowStatus], lease' \in [Runs -> 0..Lease],
         \A q \in Runs : row'[q] = "absent" => row[q] = "absent"
  PROVE  TInv'
<1>0. TypeOK BY DEF TInv
<1>1. /\ pc' \in [Runs -> Places] /\ turn' \in [Runs -> TurnState] /\ ending' \in [Runs -> Outcomes]
      /\ \A q \in Runs : pc'[q] = IF process[q] = p /\ pc[q] # "none" THEN "over" ELSE pc[q]
      /\ \A q \in Runs : process[q] # p => turn'[q] = turn[q]
  BY <1>0, OverStep DEF Gone, Of
<1>2. /\ account' \in [Runs -> AccountState]
      /\ \A q \in Runs : account'[q] = IF process[q] = p THEN NoAccount ELSE account[q]
  BY <1>0, NoAccountType DEF Gone, TypeOK
<1>3. TypeOK'
  BY <1>0, <1>1, <1>2 DEF Gone, TypeOK, Of
<1>4. ASSUME NEW q \in Runs PROVE AccountOf(q)'
  <2>1. AccountOf(q) BY DEF TInv, Accounts
  <2> QED BY <2>1, <1>1, <1>2 DEF Gone, AccountOf, Outside, Working, NoAccount
<1> QED BY <1>3, <1>4 DEF TInv, Accounts

LEMMA ShutdownKeeps ==
  ASSUME TInv, NEW p \in Processes, Shutdown(p) PROVE TInv'
<1>0. TypeOK BY DEF TInv
<1>1. 0 \in 0..Lease BY AgentConstants
<1>2. /\ row' \in [Runs -> RowStatus]
      /\ \A q \in Runs : row'[q] = "absent" => row[q] = "absent"
  BY <1>0 DEF Shutdown, TypeOK, RowStatus, Terminal
<1>3. lease' \in [Runs -> 0..Lease]
  BY <1>0, <1>1 DEF Shutdown, TypeOK
<1> QED BY <1>2, <1>3, GoneKeeps DEF Shutdown

LEMMA CrashKeeps ==
  ASSUME TInv, NEW p \in Processes, Crash(p) PROVE TInv'
BY GoneKeeps DEF Crash, TInv, TypeOK

LEMMA DeleteSessionKeeps ==
  ASSUME TInv, NEW s \in Sessions, DeleteSession(s) PROVE TInv'
<1>0. TypeOK BY DEF TInv
<1>1. /\ row' \in [Runs -> RowStatus]
      /\ \A q \in Runs : row'[q] = "absent" => row[q] = "absent"
  BY <1>0 DEF DeleteSession, TypeOK, RowStatus
<1>2. <<>> \in Seq([run : Runs, kind : Kinds])
  OBVIOUS
<1>3. log' \in [Sessions -> Seq([run : Runs, kind : Kinds])]
  BY <1>0, <1>2 DEF DeleteSession, TypeOK
<1> QED BY <1>0, <1>1, <1>3, ServiceKeeps DEF DeleteSession, TypeOK, serviceVars

-----------------------------------------------------------------------------
LEMMA StutterKeeps == ASSUME TInv, UNCHANGED vars PROVE TInv'
BY ServiceKeeps DEF TInv, TypeOK, vars, ledgerVars, serviceVars

\* Every step keeps the types and the accounts.
LEMMA NextKeeps == ASSUME TInv, [Next]_vars PROVE TInv'
<1>1. ASSUME NEW r \in Runs, RunStep(r) PROVE TInv'
  BY <1>1, PrepareKeeps, ActivateKeeps, CallLlmKeeps, LlmRefusedKeeps, LlmReturnsKeeps,
     LlmFailsKeeps, ExecuteToolKeeps, ToolRepeatsKeeps, CloseStreamKeeps, ToolReturnsKeeps, UpdateMemoryKeeps, FinalizeKeeps,
     FinishKeeps, ExitActions, ExitKeeps DEF RunStep
<1>2. ASSUME NEW r \in Runs,
             \/ Register(r) \/ PrepareFails(r) \/ Consume(r) \/ StoreRaises(r)
             \/ CancelTask(r) \/ CancelPending(r)
      PROVE  TInv'
  BY <1>2, RegisterKeeps, ConsumeKeeps, CancelTaskKeeps, CancelPendingKeeps, ExitActions, ExitKeeps
<1>3. ASSUME NEW p \in Processes,
             Heartbeat(p) \/ CloseService(p) \/ Shutdown(p) \/ Crash(p)
      PROVE  TInv'
  BY <1>3, HeartbeatKeeps, CloseServiceKeeps, ShutdownKeeps, CrashKeeps
<1>4. ASSUME NEW s \in Sessions, DeleteSession(s) PROVE TInv'
  BY <1>4, DeleteSessionKeeps
<1> QED BY <1>1, <1>2, <1>3, <1>4, TimePassesKeeps, StutterKeeps DEF Next

LEMMA AlwaysTInv == Spec => []TInv
<1>1. TInv /\ [Next]_vars => TInv'
  BY NextKeeps
<1> QED BY InitTInv, <1>1, PTL DEF Spec

\* Tables, dictionaries, coroutines and accounts keep their types, and no lease is
\* more than lease_seconds ahead, for every number of runs, sessions and processes.
THEOREM TypeCorrect == Spec => []TypeOK
<1>1. TInv => TypeOK
  BY DEF TInv
<1> QED BY AlwaysTInv, <1>1, PTL

\* The provider is called at most max_llm_calls times and tools are reached at most
\* Attempts times for each of max_tool_calls, although a call that raises gives its
\* reservation back: the turn of that call never calls again.
THEOREM BudgetIsKept == Spec => []CallsWithinBudget
<1>1. TInv => CallsWithinBudget
  BY DEF TInv, Accounts, AccountOf, CallsWithinBudget
<1> QED BY AlwaysTInv, <1>1, PTL

=============================================================================

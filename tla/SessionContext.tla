--------------------------- MODULE SessionContext ---------------------------
(***************************************************************************)
(* What the model is shown of a session.  The stored messages only grow;    *)
(* compression appends a summary of the middle of the conversation and      *)
(* flags the messages it stands for, and the next context is the protected  *)
(* head, the latest summary and the tail.                                   *)
(*                                                                         *)
(* Two actors compress a session: a run, once, before its first model call, *)
(* and the /compress command of chat or gateway, which is not admitted as a *)
(* run and so may overlap with one.  Between reading the messages and storing   *)
(* the summary each waits for the summary model.                            *)
(***************************************************************************)
EXTENDS Naturals, Sequences, FiniteSets

CONSTANTS
  ProtectFirst,  \* protect_first_n
  ProtectLast,   \* protect_last_n
  MaxCalls,      \* bound: tool calls of one assistant message
  MaxLog,        \* bound: stored messages
  MaxCommands,   \* bound: /compress commands
  Faults         \* may a summary or its flags fail to be stored?

ASSUME ContextConstants ==
  /\ ProtectFirst \in Nat
  /\ ProtectLast \in Nat
  /\ MaxCalls \in Nat
  /\ MaxLog \in Nat
  /\ MaxCommands \in Nat
  /\ Faults \in BOOLEAN

Actors == {"run", "command"}

VARIABLES
  log,       \* the messages of the session, in the order of list_messages
  pc,        \* where each actor is
  input,     \* the message the run was started with (0: none)
  context,   \* context of each actor, as built
  plan,      \* the compression of each actor
  commands,  \* history: /compress commands so far
  clean      \* history: flags were always stored, compressions never overlapped

vars == <<log, pc, input, context, plan, commands, clean>>

-----------------------------------------------------------------------------
(* Values *)

\* A message: its role, the ids of its tool calls, the call it answers, whether it
\* has text, is_summary and is_summarized; of a summary, the messages it stands for and
\* those of them its text leaves out (history).
Message(role, calls, call, text) ==
  [role |-> role, calls |-> calls, call |-> call, text |-> text,
   summary |-> FALSE, summarized |-> FALSE, covers |-> {}, omits |-> {}]
NoCall == <<0, 0>>

\* A message of a context: its place in the log, and the calls left of it.
Entry(i) == [at |-> i, calls |-> log[i].calls]
Tool(e) == log[e.at].role = "tool"
Summary(e) == log[e.at].summary
Places(es) == {es[k].at : k \in DOMAIN es}

\* The questions and the answers of the session.
Lines == {i \in DOMAIN log : ~log[i].summary /\ log[i].role # "tool" /\ log[i].calls = {}}

NoPlan == [head |-> <<>>, tail |-> <<>>, marks |-> {}, covers |-> {}, omits |-> {}]

\* The log keeps its types, a context refers to messages that exist, and a summary stands
\* for messages that are older than itself.
TypeOK ==
  /\ Len(log) <= MaxLog
  /\ \A i \in DOMAIN log :
       /\ log[i].role \in {"user", "assistant", "tool"}
       /\ log[i].calls \subseteq {i} \X (1..MaxCalls)
       /\ (log[i].call # NoCall) = (log[i].role = "tool")
       /\ {log[i].text, log[i].summary, log[i].summarized} \subseteq BOOLEAN
       /\ \A j \in log[i].covers : j < i /\ ~log[j].summary
       /\ log[i].omits \subseteq log[i].covers
  /\ pc \in [Actors -> {"idle", "build", "decide", "store", "mark", "calling", "writing"}]
  /\ input \in 0..Len(log)
  /\ \A a \in Actors : Places(context[a]) \subseteq DOMAIN log
  /\ \A a \in Actors : plan[a].marks \union plan[a].covers \subseteq DOMAIN log
  /\ commands \in 0..MaxCommands
  /\ clean \in BOOLEAN

Init ==
  /\ log = <<>>
  /\ pc = [a \in Actors |-> "idle"]
  /\ input = 0
  /\ context = [a \in Actors |-> <<>>]
  /\ plan = [a \in Actors |-> NoPlan]
  /\ commands = 0
  /\ clean = TRUE

-----------------------------------------------------------------------------
(* The context of a session *)

Highest(S) == CHOOSE i \in S : \A j \in S : j <= i
Lowest(S) == CHOOSE i \in S : \A j \in S : i <= j

\* The elements of a sequence whose index is in S, in order.
Select(es, S) ==
  LET sel[k \in 0..Len(es)] ==
        IF k = 0 THEN <<>>
        ELSE IF k \in S THEN Append(sel[k - 1], es[k]) ELSE sel[k - 1]
  IN sel[Len(es)]

\* The messages of a set of places, in order.
InOrder(S) == Select([i \in DOMAIN log |-> Entry(i)], S)

\* _build_latest_compressed_context, of the messages in the set E
LatestContext(E) ==
  LET summaries == {i \in E : log[i].summary}
      open == {i \in E : ~log[i].summary /\ ~log[i].summarized}
      latest == Highest(summaries)
      folded == {i \in E : i < latest /\ log[i].summarized /\ ~log[i].summary}
      head == {i \in open : i < Lowest(folded)} IN
  IF summaries = {} THEN InOrder(open)
  ELSE IF folded = {} THEN InOrder({i \in E : log[i].summary => i = latest})
  ELSE InOrder(head) \o <<Entry(latest)>> \o InOrder(open \ head)

\* The message a tool message follows, over other tool messages only.
Owner(es, k) == Highest({0} \union {i \in 1..(k - 1) : ~Tool(es[i])})
Answers(es, i) ==
  {log[es[k].at].call : k \in {j \in DOMAIN es : Tool(es[j]) /\ Owner(es, j) = i}}

\* _sanitize_conversation_tool_pairs, _sanitize_tool_pairs: a result stays behind the
\* message that asked for it, a call stays with its result, a message left without calls
\* stays for its text.
Trimmed_KeepsCalls(es, i) ==
  [es[i] EXCEPT !.calls = IF @ \intersect Answers(es, i) = {} THEN {} ELSE @]
Trimmed(es, i) == [es[i] EXCEPT !.calls = @ \intersect Answers(es, i)]
Stays(es, k) ==
  IF Tool(es[k]) THEN Owner(es, k) # 0 /\ log[es[k].at].call \in es[Owner(es, k)].calls
  ELSE es[k].calls = {} \/ Trimmed(es, k).calls # {} \/ log[es[k].at].text
Sanitized(es) ==
  Select([k \in DOMAIN es |-> Trimmed(es, k)], {k \in DOMAIN es : Stays(es, k)})

-----------------------------------------------------------------------------
(* ContextCompressor *)

\* _tool_group_span: the message i with calls and the results right behind it
GroupEnd(es, i) ==
  Highest({j \in i..Len(es) :
             \A k \in (i + 1)..j : Tool(es[k]) /\ log[es[k].at].call \in es[i].calls})
Span(es, k) ==
  LET owners == {i \in 1..(k - 1) : /\ log[es[k].at].call \in es[i].calls
                                    /\ k <= GroupEnd(es, i)} IN
  IF Tool(es[k])
  THEN IF owners = {} THEN <<k, k>> ELSE <<Highest(owners), GroupEnd(es, Highest(owners))>>
  ELSE <<k, GroupEnd(es, k)>>

\* A boundary b lies behind the first b messages.
AlignBackward_Not(es, b) == b
AlignBackward(es, b) ==
  LET split == {k \in {b, b + 1} : Span(es, k)[1] <= b /\ b < Span(es, k)[2]} IN
  IF b = 0 \/ b >= Len(es) \/ split = {} THEN b ELSE Span(es, Lowest(split))[1] - 1
AlignForward(es, b) ==
  IF b < Len(es) /\ Span(es, b + 1)[1] < Span(es, b + 1)[2] THEN Span(es, b + 1)[2] ELSE b

\* Where the tail may start: behind the protected messages by count, or anywhere before
\* them that the token budget allows; at least one message is left for the middle.
TailCuts(es, headEnd) ==
  LET protected == Highest({headEnd + 1, Len(es) - ProtectLast})
      fixed(b) == IF b <= headEnd THEN AlignForward(es, headEnd + 1) ELSE b IN
  {AlignBackward(es, Highest({headEnd + 1, fixed(AlignBackward(es, b))})) :
     b \in (headEnd + 1)..protected}

\* compress: the middle up to a cut, continued from the latest summary, becomes a summary;
\* an earlier summary that would stay in the head or the tail is removed.
Kept(es, first, last) == Select(es, {k \in first..last : ~Summary(es[k])})

Previous_Dropped(es, s) == {}
Previous(es, s) == IF s = 0 THEN {} ELSE log[es[s].at].covers

\* Where the turns to summarize start: behind the previous summary, or behind the head.
FirstFolded(from, headEnd) == IF from = 0 THEN headEnd + 1 ELSE from + 1

\* What _build_static_fallback_summary and HeuristicSummarizer tell of the turns ks: the
\* first question and the last answer.
Digest(es, ks) ==
  LET said(role) == {k \in ks : log[es[k].at].role = role /\ log[es[k].at].text}
      asked == said("user")
      answered == said("assistant") IN
  {es[k].at : k \in {i \in asked : \A j \in asked : i <= j}
                      \union {i \in answered : \A j \in answered : j <= i}}

\* What the text of the new summary tells, of the turns ks and of what the previous summary
\* told: all of it in the model's reply; after an empty reply what was told before, or the
\* digest; after a failed call the digest, without what was told before, or the end of the
\* turns when they are long.
Tells(es, ks, before) ==
  LET digest == Digest(es, ks) IN
  {{es[k].at : k \in ks} \union before,
   IF before = {} THEN digest ELSE before,
   IF digest = {} THEN before ELSE digest}
  \union {{es[k].at : k \in {j \in ks : i <= j}} : i \in ks}

\* Of the messages a summary stands for, the lines its text leaves out; all of them when it
\* has no text.
Omits(covers, told) == IF told = {} THEN covers ELSE (covers \intersect Lines) \ told

Compressions(es, ids) ==
  LET headEnd == AlignForward(es, ProtectFirst)
      found == Highest({0} \union {k \in DOMAIN es : Summary(es[k])})
      from == IF found <= headEnd THEN 0 ELSE found
      first == FirstFolded(from, headEnd)
      before == IF from = 0 THEN {} ELSE log[es[from].at].covers \ log[es[from].at].omits
      cut(b, told) ==
        LET covers == {es[k].at : k \in first..b} \union Previous(es, from) IN
        [head |-> Kept(es, 1, headEnd),
         tail |-> Kept(es, b + 1, Len(es)),
         marks |-> {es[k].at : k \in (headEnd + 1)..b} \intersect ids,
         covers |-> covers,
         omits |-> Omits(covers, told)] IN
  IF Len(es) <= ProtectFirst + ProtectLast \/ headEnd >= Len(es) THEN {}
  ELSE {p \in UNION {{cut(b, told) : told \in Tells(es, first..b, before)}
                       : b \in {c \in TailCuts(es, headEnd) : headEnd < c /\ first <= c}}
        : p.head \o p.tail # <<>>}

-----------------------------------------------------------------------------
(* A turn *)

Room(n) == Len(log) + n <= MaxLog

\* The user's message is stored, then the graph prepares the context.
Ask ==
  /\ pc["run"] = "idle" /\ Room(1)
  /\ log' = Append(log, Message("user", {}, NoCall, TRUE))
  /\ input' = Len(log) + 1
  /\ pc' = [pc EXCEPT !["run"] = "build"]
  /\ UNCHANGED <<context, plan, commands, clean>>

Command ==
  /\ pc["command"] = "idle" /\ commands < MaxCommands /\ log # <<>>
  /\ commands' = commands + 1
  /\ pc' = [pc EXCEPT !["command"] = "build"]
  /\ UNCHANGED <<log, input, context, plan, clean>>

Compressing(a) == pc[a] \in {"decide", "store", "mark"}

\* build_context_state: the input of the run is left out of the history and put last.
Build(a) ==
  LET own == IF a = "run" THEN {input} ELSE {} IN
  /\ pc[a] = "build"
  /\ context' = [context EXCEPT ![a] =
       Sanitized(LatestContext(DOMAIN log \ own)) \o InOrder(own)]
  /\ pc' = [pc EXCEPT ![a] = "decide"]
  /\ clean' = (clean /\ \A b \in Actors : pc[b] # "mark")
  /\ UNCHANGED <<log, input, plan, commands>>

\* The run calls the model; the command is over.
Done(a) ==
  /\ pc' = [pc EXCEPT ![a] = IF a = "run" THEN "calling" ELSE "idle"]
  /\ plan' = [plan EXCEPT ![a] = NoPlan]

\* Below the threshold, in cooldown, or nothing to compress.
Skip(a) ==
  /\ pc[a] = "decide"
  /\ Done(a)
  /\ context' = IF a = "run" THEN context ELSE [context EXCEPT ![a] = <<>>]
  /\ UNCHANGED <<log, input, commands, clean>>

\* The summary model is asked; the flags can only be set on messages of the history.
Summarize(a) ==
  LET ids == Places(context[a]) \ (IF a = "run" THEN {input} ELSE {}) IN
  /\ pc[a] = "decide"
  /\ \E p \in Compressions(context[a], ids) : plan' = [plan EXCEPT ![a] = p]
  /\ pc' = [pc EXCEPT ![a] = "store"]
  /\ UNCHANGED <<log, input, context, commands, clean>>

SummaryOf(p) ==
  [Message("user", {}, NoCall, TRUE) EXCEPT !.summary = TRUE, !.covers = p.covers,
                                            !.omits = p.omits]

\* append_summary_message; when it fails the context stays as it was built.
StoreSummary(a) ==
  /\ pc[a] = "store" /\ Room(1)
  /\ log' = Append(log, SummaryOf(plan[a]))
  /\ pc' = [pc EXCEPT ![a] = "mark"]
  /\ context' = [context EXCEPT ![a] =
       plan[a].head \o <<[at |-> Len(log) + 1, calls |-> {}]>> \o plan[a].tail]
  /\ clean' = (clean /\ \A b \in Actors \ {a} : ~Compressing(b))
  /\ UNCHANGED <<input, plan, commands>>

StoreFails(a) ==
  /\ Faults
  /\ pc[a] = "store"
  /\ Done(a)
  /\ context' = IF a = "run" THEN context ELSE [context EXCEPT ![a] = <<>>]
  /\ UNCHANGED <<log, input, commands, clean>>

\* mark_messages_summarized; a failure is logged and the compression goes on.
Mark(a) ==
  /\ pc[a] = "mark"
  /\ \/ /\ log' = [i \in DOMAIN log |->
                    IF i \in plan[a].marks THEN [log[i] EXCEPT !.summarized = TRUE] ELSE log[i]]
        /\ UNCHANGED clean
     \/ /\ Faults
        /\ clean' = FALSE
        /\ UNCHANGED log
  /\ Done(a)
  /\ context' = [context EXCEPT ![a] = IF a = "run" THEN Sanitized(@) ELSE <<>>]
  /\ UNCHANGED <<input, commands>>

\* update_memory: the calls of the assistant, then their results one by one; a terminal
\* tool leaves calls without a result.
WriteCalls ==
  /\ pc["run"] \in {"calling", "writing"} /\ Room(1)
  /\ \E n \in 1..MaxCalls, text \in BOOLEAN :
       log' = Append(log, Message("assistant", {Len(log) + 1} \X (1..n), NoCall, text))
  /\ pc' = [pc EXCEPT !["run"] = "writing"]
  /\ context' = [context EXCEPT !["run"] = <<>>]
  /\ UNCHANGED <<input, plan, commands, clean>>

Asked(i) == log[i].calls \ {log[j].call : j \in DOMAIN log}

WriteResult ==
  /\ pc["run"] = "writing" /\ Room(1)
  /\ LET asking == {i \in DOMAIN log : i > input /\ log[i].calls # {}} IN
     /\ asking # {}
     /\ Asked(Highest(asking)) # {}
     /\ log' = Append(log, Message("tool", {}, CHOOSE c \in Asked(Highest(asking)) :
                                     \A d \in Asked(Highest(asking)) : c[2] <= d[2], TRUE))
  /\ UNCHANGED <<pc, input, context, plan, commands, clean>>

EndRun ==
  /\ pc' = [pc EXCEPT !["run"] = "idle"]
  /\ input' = 0
  /\ context' = [context EXCEPT !["run"] = <<>>]
  /\ plan' = [plan EXCEPT !["run"] = NoPlan]

\* finalize stores the answer.
WriteFinal ==
  /\ pc["run"] \in {"calling", "writing"} /\ Room(1)
  /\ log' = Append(log, Message("assistant", {}, NoCall, TRUE))
  /\ EndRun
  /\ UNCHANGED <<commands, clean>>

\* The run is cancelled, fails or loses its lease; a summary stored without its flags
\* stays.
Stop ==
  /\ pc["run"] # "idle"
  /\ clean' = (clean /\ pc["run"] # "mark")
  /\ EndRun
  /\ UNCHANGED <<log, commands>>

\* The process stops and starts again: nothing but the messages is stored.
Restart ==
  /\ Faults
  /\ \E a \in Actors : pc[a] # "idle"
  /\ pc' = [a \in Actors |-> "idle"]
  /\ input' = 0
  /\ context' = [a \in Actors |-> <<>>]
  /\ plan' = [a \in Actors |-> NoPlan]
  /\ clean' = (clean /\ \A a \in Actors : pc[a] # "mark")
  /\ UNCHANGED <<log, commands>>

Next ==
  \/ Ask \/ Command \/ WriteCalls \/ WriteResult \/ WriteFinal \/ Stop \/ Restart
  \/ \E a \in Actors :
       Build(a) \/ Skip(a) \/ Summarize(a) \/ StoreSummary(a) \/ StoreFails(a) \/ Mark(a)

Spec == Init /\ [][Next]_vars

-----------------------------------------------------------------------------
(* Properties *)

\* Every context a provider is sent pairs calls and results: a result follows, over other
\* results only, the message that made the call, and every call has its result, whatever
\* was cut, folded or left unfinished (providers reject anything else).
ContextIsPaired ==
  pc["run"] = "calling" =>
    LET es == context["run"] IN
    \A k \in DOMAIN es :
      IF Tool(es[k]) THEN Owner(es, k) # 0 /\ log[es[k].at].call \in es[Owner(es, k)].calls
      ELSE es[k].calls \subseteq Answers(es, k)

\* What the model is told of the session: the messages of its context, and what the text of
\* the summary tells; and what that text leaves out, though the summary stands for it.
Told ==
  Places(context["run"])
    \union UNION {log[i].covers \ log[i].omits : i \in Places(context["run"])}
Omitted == UNION {log[i].omits : i \in Places(context["run"])}

\* A question or an answer the model is not told of was left out by a summary the program put
\* together itself, when the summary model answered with nothing or failed (Tells).  However
\* often the session is compressed, nothing is lost at the boundaries, nor between a summary
\* and the one that continues it, as long as no compression lost its flags or overlapped
\* another (compress_prepared_context, ContextCompressor.compress).
NothingIsLost == clean /\ pc["run"] = "calling" => Lines \ Told \subseteq Omitted

\* A compression folds a call and its result together or not at all, when it sees both:
\* a result whose call is folded would be thrown away by the sanitizer of every later
\* context (_find_tail_cut_by_tokens, _align_boundary_backward, _align_boundary_forward).
GroupsFoldTogether ==
  \A a \in Actors : pc[a] = "store" =>
    \A k, m \in DOMAIN context[a] :
      log[context[a][m].at].call \in context[a][k].calls =>
        (context[a][k].at \in plan[a].marks) = (context[a][m].at \in plan[a].marks)

=============================================================================

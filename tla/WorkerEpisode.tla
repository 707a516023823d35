---------------------------- MODULE WorkerEpisode ----------------------------
(***************************************************************************)
(* One delegated episode inside a worker Pod: worker-main.ts, the episode  *)
(* loop (kernel/worker-episode.ts), its fsynced journal                    *)
(* (kernel/worker-journal.ts), ordered tool dispatch (kernel/turn.ts), and *)
(* the mailbox and completion endpoints it talks to (worker/mailbox.ts,    *)
(* worker/completion.ts).  The process may crash between any two journal   *)
(* writes or inside one, and any broker call may be lost before or after   *)
(* the broker acted on it.                                                 *)
(***************************************************************************)
EXTENDS Integers, Sequences, FiniteSets

CONSTANTS Guidance,     \* ids of the guidance messages, in mailbox order
          Call,         \* tool call ids the model may use; ids may repeat
          Body,         \* finish bodies; finishKey is a digest of the body
          NoBody,       \* no finish, or an empty answer
          Sourced,      \* whether the session is bound to a source archive
          PullLimit,    \* rows one pull returns at most
          MaxCalls,     \* bound: tool calls in one assistant message
          MaxTurns,     \* WorkerEpisodeOptions.maxTurns
          MaxMessages,  \* WorkerEpisodeOptions.maxMessages
          MaxLives      \* bound: processes started over one journal

ASSUME GuidanceAssumption == Guidance \subseteq Nat /\ IsFiniteSet(Guidance)
ASSUME BodyAssumption == NoBody \notin Body
ASSUME LimitAssumption == /\ {PullLimit, MaxCalls, MaxTurns, MaxMessages, MaxLives} \subseteq Nat
                          /\ Sourced \in BOOLEAN

VARIABLES
  log,       \* worker-episode.jsonl: the records on disk
  torn,      \* the file ends with a partial record
  mem,       \* WorkerJournal.current of the running process
  messages,  \* the transcript the episode loop sends to the model
  pc,        \* control point; "exit" when run() ended, "down" with no process
  turns,     \* the loop counter
  batch,     \* guidance pulled and not yet journaled
  pulled,    \* guidance of this turn to acknowledge
  calls,     \* tool calls of the assistant message not yet dispatched
  answer,    \* the body about to be finished
  lives,     \* processes started so far
  session,   \* worker_sessions.status as the worker's token sees it
  sent,      \* guidance rows in the mailbox
  acked,     \* guidance rows with acknowledged_at
  artifact,  \* the patch artifact is in host custody
  finish,    \* body of the durable finish row
  effects,   \* history: log positions of the preparations that were executed
  runs       \* history: sandbox executions

journal == <<log, torn>>
loop    == <<turns, batch, pulled, calls, answer>>
broker  == <<session, sent, acked, artifact, finish>>
history == <<effects, runs>>
vars    == <<journal, mem, messages, pc, loop, lives, broker, history>>

\* WorkerJournalState; "valid" turns FALSE where reduce() throws.
Blank == [valid |-> TRUE, messages |-> <<>>, guidanceIds |-> {},
          pendingTools |-> {}, pendingFinish |-> NoBody, finished |-> NoBody]

Mandate      == <<[kind |-> "system"], [kind |-> "mandate"]>>
Guide(g)     == [kind |-> "guidance", id |-> g]
Assistant(c) == [kind |-> "assistant", calls |-> c]
Tool(i)      == [kind |-> "tool", id |-> i]

\* "run" has an effect; "other" stands for think and for every call the
\* argument checks refuse, which only produce a tool message.
Request   == [id : Call, tool : {"run", "other"}]
Requests  == UNION {[1..n -> Request] : n \in 0..MaxCalls}

-----------------------------------------------------------------------------
(* The journal.                                                            *)

\* The records reduce() accepts in a state; on any other it throws.
Accepts(st, r) ==
  CASE r.type = "initialized" -> st.messages = <<>>
    [] r.type = "tool_prepared" -> r.id \notin st.pendingTools
    [] r.type = "tool_completed" -> r.id \in st.pendingTools
    [] r.type = "finish_prepared" -> st.pendingFinish \in {NoBody, r.body}
    [] r.type = "finished" -> st.pendingFinish = r.body /\ st.finished \in {NoBody, r.body}
    [] OTHER -> TRUE

\* reduce(): one record applied to the state a restarting process rebuilds.
MutApplyKeepsPending(st, r) ==
  CASE r.type = "initialized" -> [st EXCEPT !.messages = r.messages]
    [] r.type = "message" -> [st EXCEPT !.messages = Append(@, r.message)]
    [] r.type = "guidance" -> [st EXCEPT !.guidanceIds = @ \cup {r.id},
                                         !.messages = Append(@, r.message)]
    [] r.type = "tool_prepared" -> [st EXCEPT !.pendingTools = @ \cup {r.id}]
    [] r.type = "tool_completed" -> [st EXCEPT !.messages = Append(@, r.message)]
    [] r.type = "finish_prepared" -> [st EXCEPT !.pendingFinish = r.body]
    [] r.type = "finished" -> [st EXCEPT !.pendingFinish = NoBody, !.finished = r.body]
Apply(st, r) ==
  CASE r.type = "initialized" -> [st EXCEPT !.messages = r.messages]
    [] r.type = "message" -> [st EXCEPT !.messages = Append(@, r.message)]
    [] r.type = "guidance" ->
         IF r.id \in st.guidanceIds THEN st
         ELSE [st EXCEPT !.guidanceIds = @ \cup {r.id}, !.messages = Append(@, r.message)]
    [] r.type = "tool_prepared" -> [st EXCEPT !.pendingTools = @ \cup {r.id}]
    [] r.type = "tool_completed" -> [st EXCEPT !.pendingTools = @ \ {r.id},
                                               !.messages = Append(@, r.message)]
    [] r.type = "finish_prepared" -> [st EXCEPT !.pendingFinish = r.body]
    [] r.type = "finished" -> [st EXCEPT !.pendingFinish = NoBody, !.finished = r.body]

Replay(st, r) == IF st.valid /\ Accepts(st, r) THEN Apply(st, r)
                 ELSE [st EXCEPT !.valid = FALSE]
reduce(records) ==
  LET state[i \in 0..Len(records)] ==
        IF i = 0 THEN Blank ELSE Replay(state[i - 1], records[i])
  IN  state[Len(records)]

append(r) == log' = Append(log, r) /\ UNCHANGED torn

\* The methods: append the record, then update the state in memory and the
\* episode's own copy of the transcript.
initialize ==
  /\ append([type |-> "initialized", messages |-> Mandate])
  /\ mem' = [mem EXCEPT !.messages = @ \o Mandate]
  /\ messages' = messages \o Mandate

appendMessage(m) ==
  /\ append([type |-> "message", message |-> m])
  /\ mem' = [mem EXCEPT !.messages = Append(@, m)]
  /\ messages' = Append(messages, m)

MutAppendGuidanceAgain(g) ==
  /\ append([type |-> "guidance", id |-> g, message |-> Guide(g)])
  /\ mem' = [mem EXCEPT !.guidanceIds = @ \cup {g}, !.messages = Append(@, Guide(g))]
  /\ messages' = Append(messages, Guide(g))
appendGuidance(g) ==
  IF g \in mem.guidanceIds THEN UNCHANGED <<journal, mem, messages>>
  ELSE /\ append([type |-> "guidance", id |-> g, message |-> Guide(g)])
       /\ mem' = [mem EXCEPT !.guidanceIds = @ \cup {g}, !.messages = Append(@, Guide(g))]
       /\ messages' = Append(messages, Guide(g))

prepareTool(i) ==
  /\ append([type |-> "tool_prepared", id |-> i])
  /\ mem' = [mem EXCEPT !.pendingTools = @ \cup {i}]
  /\ UNCHANGED messages

completeTool(i) ==
  /\ append([type |-> "tool_completed", id |-> i, message |-> Tool(i)])
  /\ mem' = [mem EXCEPT !.pendingTools = @ \ {i}, !.messages = Append(@, Tool(i))]
  /\ messages' = Append(messages, Tool(i))

\* prepareFinish is idempotent for the same body; Conflicting is where it throws.
Conflicting(b) == {mem.pendingFinish, mem.finished} \ {NoBody, b} # {}
prepareFinish(b) ==
  IF mem.pendingFinish = b \/ mem.finished = b THEN UNCHANGED <<journal, mem, messages>>
  ELSE /\ append([type |-> "finish_prepared", body |-> b])
       /\ mem' = [mem EXCEPT !.pendingFinish = b]
       /\ UNCHANGED messages

completeFinish ==
  /\ append([type |-> "finished", body |-> mem.pendingFinish])
  /\ mem' = [mem EXCEPT !.pendingFinish = NoBody, !.finished = mem.pendingFinish]
  /\ UNCHANGED messages

-----------------------------------------------------------------------------
(* The process.                                                            *)

\* Awaiting the broker or the sandbox.
Awaiting == {"source", "mandate", "pull", "ack", "complete", "running", "ran",
             "custody", "finish"}
\* Steps whose continuation writes the journal: a crash may tear the write.
Writing == {"mandate", "journal", "complete", "dispatch", "ran", "custody", "prepare", "finish"}

Init ==
  /\ log = <<>> /\ torn = FALSE /\ mem = Blank /\ messages = <<>>
  /\ pc = "down" /\ turns = 0 /\ batch = <<>> /\ pulled = {} /\ calls = <<>>
  /\ answer = NoBody /\ lives = 0
  /\ session = "active" /\ sent = {} /\ acked = {} /\ artifact = FALSE /\ finish = NoBody
  /\ effects = {} /\ runs = 0

\* Memory of a process that is gone.
Forget == /\ mem' = Blank /\ messages' = <<>> /\ turns' = 0 /\ batch' = <<>>
          /\ pulled' = {} /\ calls' = <<>> /\ answer' = NoBody

\* new WorkerJournal: refuse a partial record, otherwise rebuild the state.
Boot ==
  /\ pc = "down" /\ lives < MaxLives /\ ~torn /\ reduce(log).valid
  /\ mem' = reduce(log)
  /\ pc' = "source" /\ lives' = lives + 1
  /\ UNCHANGED <<journal, messages, loop, broker, history>>

\* run() returned or threw: the process exits.
Exit ==
  /\ pc = "exit"
  /\ pc' = "down"
  /\ Forget
  /\ UNCHANGED <<journal, lives, broker, history>>

\* getWorkspaceSource returned; WorkerEpisode.run looks at the journal.
MutEnterAtPending == IF mem.messages = <<>> THEN "mandate" ELSE "pull"
Enter ==
  IF mem.pendingTools # {} \/ mem.finished # NoBody THEN "exit"
  ELSE IF mem.pendingFinish # NoBody THEN "finish"
  ELSE IF mem.messages = <<>> THEN "mandate" ELSE "pull"

SourceReturns ==
  /\ pc = "source" /\ session = "active"
  /\ pc' = Enter
  /\ messages' = mem.messages /\ turns' = 1
  /\ UNCHANGED <<journal, mem, batch, pulled, calls, answer, lives, broker, history>>

MandateReturns ==
  /\ pc = "mandate" /\ session = "active"
  /\ initialize
  /\ pc' = "pull"
  /\ UNCHANGED <<loop, lives, broker, history>>

\* The rows of a set of ids, in id order.
InOrder(ids) ==
  CHOOSE q \in [1..Cardinality(ids) -> ids] : \A i, j \in DOMAIN q : i < j => q[i] < q[j]

\* pending(): the oldest unacknowledged rows, up to the limit of one pull.
Pending == {g \in sent \ acked : Cardinality({h \in sent \ acked : h < g}) < PullLimit}

\* pullGuidance returned them in id order.
PullReturns ==
  /\ pc = "pull" /\ session = "active"
  /\ batch' = InOrder(Pending) /\ pulled' = Pending
  /\ pc' = "journal"
  /\ UNCHANGED <<journal, mem, messages, turns, calls, answer, lives, broker, history>>

JournalGuidance ==
  /\ pc = "journal" /\ batch # <<>>
  /\ appendGuidance(Head(batch))
  /\ batch' = Tail(batch)
  /\ UNCHANGED <<pc, turns, pulled, calls, answer, lives, broker, history>>

\* Where the turn goes after guidance: the message limit ends the episode.
AfterGuidance == IF Len(messages) > MaxMessages THEN "exit" ELSE "complete"

GuidanceJournaled ==
  /\ pc = "journal" /\ batch = <<>>
  /\ pc' = IF pulled # {} THEN "ack" ELSE AfterGuidance
  /\ UNCHANGED <<journal, mem, messages, loop, lives, broker, history>>

\* acknowledgeGuidance reached the broker; its reply may be lost.
AckReturns(replied) ==
  /\ pc = "ack" /\ session = "active"
  /\ acked' = acked \cup pulled
  /\ pc' = IF replied THEN AfterGuidance ELSE "exit"
  /\ UNCHANGED <<journal, mem, messages, loop, lives, session, sent, artifact, finish, history>>

\* broker.complete returned an assistant message: journal it, then dispatch its
\* tool calls or finish with its body, which counts only without tool calls.
CompleteReturns(c, b) ==
  /\ pc = "complete" /\ session = "active"
  /\ c # <<>> => b = NoBody
  /\ appendMessage(Assistant(c))
  /\ calls' = c /\ answer' = b
  /\ pc' = IF c # <<>> THEN "dispatch" ELSE IF b = NoBody THEN "exit" ELSE "custody"
  /\ UNCHANGED <<turns, batch, pulled, lives, broker, history>>

\* The loop head after the last tool call of a turn.
NextTurn ==
  IF Len(calls) > 1 THEN "dispatch" ELSE IF turns < MaxTurns THEN "pull" ELSE "exit"
PopCall ==
  /\ calls' = Tail(calls)
  /\ pc' = NextTurn
  /\ turns' = IF NextTurn = "pull" THEN turns + 1 ELSE turns

\* dispatchKernelTools: think, and a run that the checks or prepareTool refuse.
MutDispatchOtherUnanswered ==
  /\ pc = "dispatch"
  /\ Head(calls).id \in mem.pendingTools
  /\ appendMessage(Tool(Head(calls).id))
  /\ PopCall
  /\ UNCHANGED <<batch, pulled, answer, lives, broker, history>>
DispatchOther ==
  /\ pc = "dispatch"
  /\ Head(calls).tool = "other" \/ Head(calls).id \in mem.pendingTools
  /\ appendMessage(Tool(Head(calls).id))
  /\ PopCall
  /\ UNCHANGED <<batch, pulled, answer, lives, broker, history>>

DispatchRun ==
  /\ pc = "dispatch" /\ Head(calls).tool = "run" /\ Head(calls).id \notin mem.pendingTools
  /\ prepareTool(Head(calls).id)
  /\ pc' = "running"
  /\ UNCHANGED <<loop, lives, broker, history>>

\* The sandbox executes the code.
Execute ==
  /\ pc = "running"
  /\ pc' = "ran"
  /\ effects' = effects \cup {Len(log)} /\ runs' = runs + 1
  /\ UNCHANGED <<journal, mem, messages, loop, lives, broker>>

ToolReturns ==
  /\ pc = "ran"
  /\ completeTool(Head(calls).id)
  /\ PopCall
  /\ UNCHANGED <<batch, pulled, answer, lives, broker, history>>

\* beforeFinish uploaded the artifact of a source-bound session.
Upload(replied) ==
  /\ pc = "custody" /\ Sourced /\ session = "active"
  /\ artifact' = TRUE
  /\ pc' = IF replied THEN "prepare" ELSE "exit"
  /\ UNCHANGED <<journal, mem, messages, loop, lives, session, sent, acked, finish, history>>

ReadyToPrepare == pc = "prepare" \/ (pc = "custody" /\ ~Sourced)
PrepareFinish ==
  /\ ReadyToPrepare
  /\ IF Conflicting(answer)
     THEN pc' = "exit" /\ UNCHANGED <<journal, mem, messages>>
     ELSE pc' = "finish" /\ prepareFinish(answer)
  /\ UNCHANGED <<loop, lives, broker, history>>

\* postFromWorker at the broker: a first finish of an active session with its
\* artifact in custody, or the exact retry of the durable one.
AcceptsFinish(b) ==
  \/ session = "active" /\ finish = NoBody /\ (Sourced => artifact)
  \/ session \in {"active", "finished", "failed"} /\ finish = b

\* broker.finish: the answer of this turn, or the prepared one of an earlier life.
Delivering == IF answer # NoBody THEN answer ELSE mem.pendingFinish
FinishReturns(replied) ==
  /\ pc = "finish" /\ AcceptsFinish(Delivering)
  /\ finish' = Delivering /\ session' = "finished"
  /\ pc' = "exit"
  /\ IF replied /\ mem.pendingFinish = Delivering
     THEN completeFinish ELSE UNCHANGED <<journal, mem, messages>>
  /\ UNCHANGED <<loop, lives, sent, acked, artifact, history>>

\* A broker call gets no answer, the broker refuses it, or the sandbox throws or
\* detaches: run() throws.
CallFails ==
  /\ pc \in Awaiting
  /\ pc' = "exit"
  /\ UNCHANGED <<journal, mem, messages, loop, lives, broker, history>>

\* The process dies between two writes, or inside one.
Crash(partial) ==
  /\ pc # "down"
  /\ partial => pc \in Writing
  /\ pc' = "down" /\ torn' = partial
  /\ Forget
  /\ UNCHANGED <<log, lives, broker, history>>

-----------------------------------------------------------------------------
(* The dispatcher.                                                         *)

\* sendToWorker: a repeated key with the same content is the same row.
sendToWorker(g) ==
  /\ session = "active" /\ finish = NoBody
  /\ \A h \in Guidance : h < g => h \in sent
  /\ sent' = sent \cup {g}
  /\ UNCHANGED <<journal, mem, messages, pc, loop, lives, session, acked, artifact, finish, history>>

\* dismiss, or a recovery verdict that fails the session.
Revoke(s) ==
  /\ session = "active"
  /\ session' = s
  /\ UNCHANGED <<journal, mem, messages, pc, loop, lives, sent, acked, artifact, finish, history>>

Process ==
  \/ Exit \/ SourceReturns \/ MandateReturns \/ PullReturns \/ JournalGuidance
  \/ GuidanceJournaled \/ DispatchOther \/ DispatchRun \/ Execute \/ ToolReturns
  \/ PrepareFinish \/ CallFails
  \/ \E r \in BOOLEAN : AckReturns(r) \/ Upload(r) \/ FinishReturns(r)
  \/ \E c \in Requests, b \in Body \cup {NoBody} : CompleteReturns(c, b)

Next ==
  \/ Boot
  \/ Process
  \/ \E p \in BOOLEAN : Crash(p)
  \/ \E g \in Guidance : sendToWorker(g)
  \/ \E s \in {"dismissed", "failed"} : Revoke(s)

Spec == Init /\ [][Next]_vars

\* The process runs on: a broker or sandbox call returns or fails.
FairSpec == Spec /\ WF_vars(Process)

-----------------------------------------------------------------------------
(* Properties.                                                             *)

TypeOK ==
  /\ torn \in BOOLEAN
  /\ pc \in Awaiting \cup {"down", "exit", "journal", "dispatch", "prepare"}
  /\ turns \in 0..MaxTurns /\ lives \in 0..MaxLives
  /\ pulled \subseteq Guidance /\ batch \in Seq(pulled)
  /\ calls \in Requests /\ answer \in Body \cup {NoBody}
  /\ session \in {"active", "finished", "dismissed", "failed"}
  /\ sent \subseteq Guidance /\ acked \subseteq sent
  /\ finish \in Body \cup {NoBody}
  /\ effects \subseteq 1..Len(log) /\ runs \in Nat

\* reduce() accepts every journal the methods write; what the running process
\* believes is what a restart would read back; the transcript it sends to the
\* model is the journaled one.
JournalReplays ==
  /\ reduce(log).valid
  /\ pc # "down" => mem = reduce(log)
  /\ pc \notin {"down", "source", "exit"} => messages = mem.messages

\* A tool whose outcome is unknown ends the episode for good: nothing is
\* executed, journaled or asked of the model after it.
AmbiguityStops ==
  [][reduce(log).pendingTools # {} /\ pc \notin {"running", "ran"}
     => UNCHANGED <<log, runs>>]_vars

\* Guidance is acknowledged only when it is in the journal, and enters the
\* transcript once and in mailbox order however often it is pulled.
GuidanceOnce ==
  /\ acked \subseteq reduce(log).guidanceIds
  /\ \A transcript \in {messages, reduce(log).messages} : \A i, j \in DOMAIN transcript :
       /\ i < j /\ transcript[i].kind = "guidance" /\ transcript[j].kind = "guidance"
       => transcript[i].id < transcript[j].id

\* Every life of the process ends: the turn limit stops a model that keeps
\* asking for tools.
EpisodeEnds == pc # "down" ~> pc = "down"
=============================================================================

--------------------------- MODULE AgentHistory ---------------------------
(***************************************************************************)
(* The one conversation history of the agent: the loop of src/agent.ts     *)
(* that drains inbound messages, asks the model and appends tool results;  *)
(* the background fold of llm/compactor.ts and llm/summarize.ts that       *)
(* replaces its oldest part by a summary; the transcript of                *)
(* store/sessions.ts that a restart primes it from; and the operator's     *)
(* commands that cut in at the loop's awaits: clear, clear thinking and    *)
(* compact.                                                                *)
(*                                                                         *)
(* A message is a record with the identity it was pushed under; its text   *)
(* is left out, and `raw' stands for the part of it a later step strips:   *)
(* the frames of a watch message, the provider's thinking of an assistant  *)
(* message.                                                                *)
(***************************************************************************)
EXTENDS Integers, Sequences, FiniteSets, SequencesExt

CONSTANTS
    Batches,        \* the tool batches the model may answer with
    Inputs,         \* the kinds of inbound message that arrive
    Transcripts,    \* what the newest transcript file may hold at the first start
    MaxMessages,    \* bound: messages pushed over all incarnations
    MaxInputs,      \* bound: inbound messages queued at a time
    MaxFolds,       \* bound: folds the checkpoint begins
    MaxCuts         \* bound: operator commands and crashes together

ASSUME BatchesAssumption == \A batch \in Batches : batch \in Seq({"run", "think"})

ASSUME InputsAssumption == Inputs \subseteq {"text", "image", "watch", "ambient"}

VARIABLES
    up,             \* the process runs
    log,            \* the history, the newest transcript file, and what they stand for
    inbound,        \* messages waiting for the loop
    pc,             \* where the loop waits
    held,           \* the message whose images are being read
    hasNewInput,    \* the wake gate
    busy,           \* a turn is on
    epoch,          \* contexts cleared in this incarnation
    callEpoch,      \* epoch the current turn began in
    fold,           \* the compactor's state
    summarizing,    \* summary calls in flight
    compactRequested,
    nudged,         \* compaction nudges already given in this cycle
    folds,          \* folds the checkpoint began
    cuts            \* operator commands and crashes so far

vars == <<up, log, inbound, pc, held, hasNewInput, busy, epoch, callEpoch, fold,
          summarizing, compactRequested, nudged, folds, cuts>>

-----------------------------------------------------------------------------
(* Messages.                                                               *)

User(raw) == [role |-> "user", raw |-> raw]

Answer(batch) == [role |-> "assistant", calls |-> batch, raw |-> TRUE]

\* The result of call number `k' of the assistant message `of'.
Result(of, k) == [role |-> "tool", of |-> of, k |-> k, raw |-> FALSE]

\* The summary stands at the head of the history and `covers' what was folded into it.
Summary(covers) == [role |-> "summary", covers |-> covers]

\* The identities a message stands for.
Stands(msg) == IF msg.role = "summary" THEN msg.covers ELSE {msg.id}

Known(messages) == UNION {Stands(messages[i]) : i \in DOMAIN messages}

\* Images never reach the transcript; thinking does.
Persistable(msg) == IF msg.role = "user" THEN [msg EXCEPT !.raw = FALSE] ELSE msg

PersistAll(messages) == [i \in DOMAIN messages |-> Persistable(messages[i])]

HasCalls(msg) == msg.role = "assistant" /\ msg.calls # <<>>

-----------------------------------------------------------------------------
(* The history and its transcript. `log' holds the messages in memory; the *)
(* newest transcript file and whether this process appends to it; and, as  *)
(* history variables of the model, the last identity given, the identities *)
(* the process has pushed or loaded since the last clear, those it dropped *)
(* after an error, the identities dropped from memory that the file still  *)
(* holds, the last identity before the last clear, and the assistant       *)
(* messages a restart left without all of their results.                   *)

NoLog == [messages |-> <<>>, file |-> <<>>, open |-> FALSE, last |-> 0,
          said |-> {}, strays |-> {}, cleared |-> 0, cut |-> {}]

Identified(l, msg) == [id |-> l.last + 1] @@ msg

\* The transcript's append: a file is minted when none is active.
Appended(l, msg) == Append(IF l.open THEN l.file ELSE <<>>, Persistable(msg))

\* pushMessage.
Push(l, m) ==
    LET msg == Identified(l, m)
    IN  [l EXCEPT !.messages = Append(@, msg),
                  !.file = Appended(l, msg),
                  !.open = TRUE,
                  !.last = msg.id,
                  !.said = @ \cup {msg.id},
                  !.strays = IF l.open THEN @ ELSE {}]

\* Rotate, then append every message: the newest file holds the history as it is now.
\* With an empty history no file is minted and the old one stays the newest.
Rewritten(l) ==
    IF l.messages = <<>>
    THEN [l EXCEPT !.open = FALSE]
    ELSE [l EXCEPT !.file = PersistAll(l.messages), !.open = TRUE, !.strays = {}]

\* The last message is taken back after an error, from memory only.
TakenBack(l) ==
    IF l.messages = <<>> \/ Last(l.messages).role # "user"
    THEN l
    ELSE [l EXCEPT !.messages = Front(@),
                   !.said = @ \ {Last(l.messages).id},
                   !.strays = @ \cup {Last(l.messages).id}]

\* Mutant: the clear rotates without publishing an empty file.
MutWipedWithoutSentinel(l) ==
    [l EXCEPT !.messages = <<>>, !.open = FALSE, !.said = {},
              !.strays = {}, !.cleared = l.last, !.cut = {}]

\* An empty newest file is published, then memory is wiped.
Wiped(l) ==
    [l EXCEPT !.messages = <<>>, !.file = <<>>, !.open = TRUE, !.said = {},
              !.strays = {}, !.cleared = l.last, !.cut = {}]

\* Watch frames have served their one generation.
WithoutFrames(l) ==
    [l EXCEPT !.messages = [i \in DOMAIN @ |-> Persistable(@[i])]]

\* The provider's thinking, in memory and on disk.
WithoutThinking(l) ==
    Rewritten([l EXCEPT !.messages =
        [i \in DOMAIN @ |-> IF @[i].role = "assistant" THEN [@[i] EXCEPT !.raw = FALSE]
                                                       ELSE @[i]]])

\* Call `k' of message `i' has its result, directly behind it or behind other results.
Answered(messages, i, k) ==
    \E j \in i + 1 .. Len(messages) :
        /\ \A n \in i + 1 .. j : messages[n].role = "tool" /\ messages[n].of = messages[i].id
        /\ messages[j].k = k

\* The assistant messages with a call that has none.
Unanswered(messages) ==
    {messages[i].id : i \in {j \in DOMAIN messages :
        /\ HasCalls(messages[j])
        /\ \E k \in DOMAIN messages[j].calls : ~Answered(messages, j, k)}}

\* recoverInterruptedToolCall: the interrupted run calls of a last assistant message.
Interrupted(messages) ==
    IF messages = <<>> \/ ~HasCalls(Last(messages))
    THEN <<>>
    ELSE SelectSeq([k \in DOMAIN Last(messages).calls |-> k],
                   LAMBDA k : Last(messages).calls[k] = "run")

Recovered(l) ==
    LET of == Last(l.messages).id
    IN  FoldLeft(LAMBDA acc, k : Push(acc, Result(of, k)), l, Interrupted(l.messages))

\* A restart primes the history from the newest file, if it holds anything.
Primed(l) ==
    LET loaded == [l EXCEPT !.messages = l.file, !.open = l.file # <<>>,
                            !.said = Known(l.file), !.strays = {}]
        whole  == Recovered(loaded)
    IN  [whole EXCEPT !.cut = Unanswered(whole.messages)]

-----------------------------------------------------------------------------
(* The compactor.                                                          *)

\* `result' is what the summary that arrived covers; {} when there is none.
NoFold == [running |-> FALSE, boundary |-> 0, prefix |-> <<>>, result |-> {}]

HasCompletedResult == ~fold.running /\ fold.result # {}

\* Where the verbatim tail may begin: it depends on the size of the messages.
WalkKeepBoundary(messages) == 0 .. (IF messages = <<>> THEN 0 ELSE Len(messages) - 1)

\* Mutant: the boundary stays where the sizes put it.
MutBoundaryAsWalked(messages, b) == b

\* The tool results at the boundary are folded with their calls.
EnforcePairIntegrity(messages, b) ==
    CHOOSE e \in b .. Len(messages) :
        /\ \A i \in b + 1 .. e : messages[i].role = "tool"
        /\ e < Len(messages) => messages[e + 1].role # "tool"

\* There is a message besides an earlier summary to fold.
WorthFolding(messages, b) ==
    b > (IF messages # <<>> /\ messages[1].role = "summary" THEN 1 ELSE 0)

\* The frozen prefix is still there, message by message and byte by byte.
PrefixMatches(l) ==
    /\ fold.boundary <= Len(l.messages)
    /\ SubSeq(l.messages, 1, fold.boundary) = fold.prefix

\* applyCompaction and onCompaction: the summary, the kept tail and a notice, rewritten
\* as the newest transcript.
Compacted(l) ==
    LET notice == Identified(l, User(FALSE))
        kept   == SubSeq(l.messages, fold.boundary + 1, Len(l.messages))
    IN  Rewritten([l EXCEPT !.messages = <<Summary(fold.result)>> \o kept \o <<notice>>,
                            !.last = notice.id,
                            !.said = @ \cup {notice.id}])

Frozen(messages, b) ==
    [running |-> TRUE, boundary |-> b, prefix |-> SubSeq(messages, 1, b), result |-> {}]

-----------------------------------------------------------------------------
(* The compaction checkpoint, at the top of a turn or while the loop is    *)
(* idle. Whether the history is over the trigger or far over it, whether a *)
(* retry is due after failed folds, and whether the summary model admits   *)
(* the input, depend on token counts and the clock: each may be either.    *)
(* The idle loop comes here only for a fold asked for, which neither the   *)
(* size nor the retry holds up, and gives no nudge.                        *)

\* The fold begun on `messages': the state of the compactor and the call it makes.
Starts(messages) ==
    LET boundaries == {EnforcePairIntegrity(messages, b) : b \in WalkKeepBoundary(messages)}
        begun(b)   == [fold |-> Frozen(messages, b),
                       calls |-> {[epoch |-> epoch, covers |-> Known(SubSeq(messages, 1, b))]}]
    IN  {begun(b) : b \in {e \in boundaries : WorthFolding(messages, e)}}
        \cup {[fold |-> NoFold, calls |-> {}]}      \* skipped, or refused admission

CheckpointOn(l, given, idle, requested) ==
    \E size \in IF idle THEN {"below"} ELSE {"below", "over", "far"},
       retryReady \in IF requested THEN {FALSE} ELSE BOOLEAN :
        LET over   == size # "below"
            starts == ~fold.running /\ (requested \/ (over /\ retryReady))
        IN  \E begun \in IF starts THEN Starts(l.messages)
                                   ELSE {[fold |-> IF HasCompletedResult THEN NoFold ELSE fold,
                                          calls |-> {}]} :
                LET due == {n \in {"flush", "escalate"} :
                                /\ n \notin given
                                /\ ~idle
                                /\ n = "flush" => over /\ begun.fold.running
                                /\ n = "escalate" => size = "far"}
                IN  /\ folds' = folds + Cardinality(begun.calls)
                    /\ folds' <= MaxFolds
                    /\ fold' = begun.fold
                    /\ summarizing' = summarizing \cup begun.calls
                    /\ compactRequested' = (requested /\ ~starts)
                    /\ nudged' = given \cup due
                    /\ log' = FoldLeft(LAMBDA acc, n : Push(acc, User(FALSE)), l,
                                       SetToSeq(due))

\* runCompactionCheckpoint: a summary that no longer fits is discarded and nothing else
\* is done; one that fits is applied first.
Checkpoint(idle, requested) ==
    \/ /\ HasCompletedResult
       /\ ~PrefixMatches(log)
       /\ fold' = NoFold
       /\ compactRequested' = requested
       /\ UNCHANGED <<log, summarizing, nudged, folds>>
    \/ /\ HasCompletedResult
       /\ PrefixMatches(log)
       /\ CheckpointOn(Compacted(log), {}, idle, requested)
    \/ /\ ~HasCompletedResult
       /\ CheckpointOn(log, nudged, idle, requested)

-----------------------------------------------------------------------------
(* The loop.                                                               *)

\* The process is started on the transcript of an earlier one, or on none.
Init ==
    /\ up = FALSE
    /\ \E file \in Transcripts :
        log = [NoLog EXCEPT !.file = file, !.last = Max(Known(file) \cup {0})]
    /\ inbound = <<>>
    /\ pc = "down"
    /\ held = "none"
    /\ hasNewInput = FALSE
    /\ busy = FALSE
    /\ epoch = 0
    /\ callEpoch = 0
    /\ fold = NoFold
    /\ summarizing = {}
    /\ compactRequested = FALSE
    /\ nudged = {}
    /\ folds = 0
    /\ cuts = 0

compaction == <<fold, summarizing, compactRequested, nudged, folds>>

\* A message arrives; all but ambient chat wake a parked loop.
Enqueue(kind) ==
    /\ up
    /\ Len(inbound) < MaxInputs
    /\ log.last + Len(inbound) < MaxMessages
    /\ inbound' = Append(inbound, kind)
    /\ pc' = IF pc = "parked" /\ kind # "ambient" THEN "top" ELSE pc
    /\ UNCHANGED <<up, log, held, hasNewInput, busy, epoch, callEpoch, compaction, cuts>>

\* The rest of one drained message, once its images are read.
Delivered(kind) ==
    /\ log' = Push(log, User(kind = "watch"))
    /\ hasNewInput' = (hasNewInput \/ kind # "ambient")

\* The loop takes the next message; the images of one are read from disk.
Drain ==
    /\ pc = "top"
    /\ inbound # <<>>
    /\ inbound' = Tail(inbound)
    /\ IF Head(inbound) \in {"image", "watch"}
       THEN /\ pc' = "reading"
            /\ held' = Head(inbound)
            /\ UNCHANGED <<log, hasNewInput>>
       ELSE /\ Delivered(Head(inbound))
            /\ UNCHANGED <<pc, held>>
    /\ UNCHANGED <<up, busy, epoch, callEpoch, compaction, cuts>>

ImagesRead ==
    /\ pc = "reading"
    /\ Delivered(held)
    /\ held' = "none"
    /\ pc' = "top"
    /\ UNCHANGED <<up, inbound, busy, epoch, callEpoch, compaction, cuts>>

\* Nothing to do: a fold asked for during the turn is begun before the loop waits.
Park ==
    /\ pc = "top"
    /\ inbound = <<>>
    /\ ~hasNewInput
    /\ busy' = FALSE
    /\ pc' = "parked"
    /\ IF compactRequested /\ ~fold.running
       THEN Checkpoint(TRUE, TRUE)
       ELSE UNCHANGED <<log, compaction>>
    /\ UNCHANGED <<up, inbound, held, hasNewInput, epoch, callEpoch, cuts>>

\* A turn: the checkpoint, then the call to the model.
AskModel ==
    /\ pc = "top"
    /\ inbound = <<>>
    /\ hasNewInput
    /\ callEpoch' = epoch
    /\ busy' = TRUE
    /\ Checkpoint(FALSE, compactRequested)
    /\ pc' = "model"
    /\ UNCHANGED <<up, inbound, held, hasNewInput, epoch, cuts>>

\* The answer, appended before its tool calls run.
Respond(batch) ==
    /\ pc = "model"
    /\ callEpoch = epoch
    /\ log.last < MaxMessages
    /\ log' = Push(WithoutFrames(log), Answer(batch))
    /\ pc' = "tools"
    /\ UNCHANGED <<up, inbound, held, hasNewInput, busy, epoch, callEpoch, compaction, cuts>>

\* The call fails for good; on some errors the last input is to be taken back.
CallFails(takeBack) ==
    /\ pc = "model"
    /\ callEpoch = epoch
    /\ pc' = IF takeBack THEN "retracting" ELSE "excusing"
    /\ UNCHANGED <<up, log, inbound, held, hasNewInput, busy, epoch, callEpoch, compaction,
                   cuts>>

\* The error notice is sent.
ErrorTold ==
    /\ pc \in {"retracting", "excusing"}
    /\ log' = IF pc = "retracting" THEN TakenBack(log) ELSE log
    /\ hasNewInput' = FALSE
    /\ pc' = "top"
    /\ UNCHANGED <<up, inbound, held, busy, epoch, callEpoch, compaction, cuts>>

\* The context was cleared while the model answered or the tools ran.
Discard ==
    /\ pc \in {"model", "tools"}
    /\ callEpoch # epoch
    /\ pc' = "top"
    /\ UNCHANGED <<up, log, inbound, held, hasNewInput, busy, epoch, callEpoch, compaction,
                   cuts>>

\* The answer the loop is working on, and the results it has so far.
Current == log.messages[Max({i \in DOMAIN log.messages : log.messages[i].role = "assistant"})]

Results == {i \in DOMAIN log.messages :
                log.messages[i].role = "tool" /\ log.messages[i].of = Current.id}

\* dispatchKernelTools: one call after the other.
ToolReturns ==
    /\ pc = "tools"
    /\ callEpoch = epoch
    /\ Cardinality(Results) < Len(Current.calls)
    /\ log' = Push(log, Result(Current.id, Cardinality(Results) + 1))
    /\ UNCHANGED <<up, inbound, pc, held, hasNewInput, busy, epoch, callEpoch, compaction,
                   cuts>>

\* The batch is done. A receipt for a spoken header is appended; the turn ends when its
\* last call, a run, armed a wake, and otherwise goes on, after a nudge when the model
\* called no tool or left a reply unsent.
BatchDone(receipt, yields, nudge) ==
    /\ pc = "tools"
    /\ callEpoch = epoch
    /\ Cardinality(Results) = Len(Current.calls)
    /\ yields => /\ Current.calls # <<>>
                 /\ Last(Current.calls) = "run"
                 /\ \A i \in DOMAIN inbound : inbound[i] = "ambient"
    /\ nudge => yields \/ Current.calls = <<>>
    /\ Current.calls = <<>> => nudge
    /\ LET told == IF receipt THEN Push(log, User(FALSE)) ELSE log
       IN  log' = IF nudge THEN Push(told, User(FALSE)) ELSE told
    /\ hasNewInput' = (nudge \/ ~yields)
    /\ pc' = "top"
    /\ UNCHANGED <<up, inbound, held, busy, epoch, callEpoch, compaction, cuts>>

-----------------------------------------------------------------------------
(* The background summary, and what cuts in at the awaits of the loop.     *)

\* Mutant: the summary of a superseded call is taken.
MutLandsWhenever(call, covers) ==
    fold' = [fold EXCEPT !.running = FALSE, !.result = covers]

\* A summary, or after its last attempt none, of a call that no reset has superseded.
Lands(call, covers) ==
    fold' = IF call.epoch = epoch
            THEN [fold EXCEPT !.running = FALSE, !.result = covers]
            ELSE fold

SummaryDone(call, accepted) ==
    /\ call \in summarizing
    /\ summarizing' = summarizing \ {call}
    /\ Lands(call, IF accepted THEN call.covers ELSE {})
    /\ UNCHANGED <<up, log, inbound, pc, held, hasNewInput, busy, epoch, callEpoch,
                   compactRequested, nudged, folds, cuts>>

\* clearContext: everything but a fold asked for.
ClearContext ==
    /\ up
    /\ cuts < MaxCuts
    /\ log' = Wiped(log)
    /\ epoch' = epoch + 1
    /\ fold' = NoFold
    /\ nudged' = {}
    /\ inbound' = <<>>
    /\ hasNewInput' = FALSE
    /\ cuts' = cuts + 1
    /\ UNCHANGED <<up, pc, held, busy, callEpoch, summarizing, compactRequested, folds>>

\* clearThinking.
ClearThinking ==
    /\ up
    /\ cuts < MaxCuts
    /\ log' = WithoutThinking(log)
    /\ cuts' = cuts + 1
    /\ UNCHANGED <<up, inbound, pc, held, hasNewInput, busy, epoch, callEpoch, compaction>>

\* compactNow: begun at once only when the loop is idle.
CompactNow ==
    /\ up
    /\ cuts < MaxCuts
    /\ cuts' = cuts + 1
    /\ IF busy \/ fold.running
       THEN /\ compactRequested' = TRUE
            /\ UNCHANGED <<log, fold, summarizing, nudged, folds>>
       ELSE Checkpoint(TRUE, TRUE)
    /\ UNCHANGED <<up, inbound, pc, held, hasNewInput, busy, epoch, callEpoch>>

\* The process dies; the newest transcript file is what is left of the history.
Down(file) ==
    /\ up' = FALSE
    /\ log' = [log EXCEPT !.messages = <<>>, !.file = file, !.open = FALSE]
    /\ inbound' = <<>>
    /\ pc' = "down"
    /\ held' = "none"
    /\ hasNewInput' = FALSE
    /\ busy' = FALSE
    /\ epoch' = 0
    /\ callEpoch' = 0
    /\ fold' = NoFold
    /\ summarizing' = {}
    /\ compactRequested' = FALSE
    /\ nudged' = {}
    /\ cuts' = cuts + 1
    /\ UNCHANGED folds

Crash ==
    /\ up
    /\ cuts < MaxCuts
    /\ Down(log.file)

\* The crash falls between two appends of a rewrite of the transcript.
CrashInRewrite ==
    /\ up
    /\ cuts < MaxCuts
    /\ \E l \in {WithoutThinking(log)}
                \cup (IF HasCompletedResult /\ PrefixMatches(log) /\ pc \in {"top", "parked"}
                      THEN {Compacted(log)} ELSE {}) :
        \E n \in 1 .. Len(l.file) - 1 : Down(SubSeq(l.file, 1, n))

\* The next process primes its history and answers the calls the last one left.
Boot ==
    /\ ~up
    /\ up' = TRUE
    /\ log' = Primed(log)
    /\ hasNewInput' = (Interrupted(log.file) # <<>>)
    /\ pc' = "top"
    /\ UNCHANGED <<inbound, held, busy, epoch, callEpoch, compaction, cuts>>

Next ==
    \/ \E kind \in Inputs : Enqueue(kind)
    \/ Drain
    \/ ImagesRead
    \/ Park
    \/ AskModel
    \/ \E batch \in Batches : Respond(batch)
    \/ \E takeBack \in BOOLEAN : CallFails(takeBack)
    \/ ErrorTold
    \/ Discard
    \/ ToolReturns
    \/ \E receipt, yields, nudge \in BOOLEAN : BatchDone(receipt, yields, nudge)
    \/ \E call \in summarizing, accepted \in BOOLEAN : SummaryDone(call, accepted)
    \/ ClearContext
    \/ ClearThinking
    \/ CompactNow
    \/ Crash
    \/ CrashInRewrite
    \/ Boot

Spec == Init /\ [][Next]_vars

-----------------------------------------------------------------------------
(* Properties.                                                             *)

\* Nothing is forgotten but by a clear, and nothing is there twice. What the process has
\* pushed or loaded since the last clear, less what it took back after an error, is in
\* the history once, in the order it was said: word for word, or in the one summary at
\* its head, which covers only what came before the rest. A fold runs while the history
\* grows, is cut at its end, stripped or cleared under it; its result replaces exactly
\* what it was made from, or is dropped.
Remembered ==
    LET messages == log.messages
        spoken   == {i \in DOMAIN messages : messages[i].role # "summary"}
    IN  up => /\ Known(messages) = log.said
              /\ DOMAIN messages \ spoken \subseteq {1}
              /\ \A i, j \in DOMAIN messages : i < j =>
                    \A a \in Stands(messages[i]), b \in Stands(messages[j]) : a < b

\* What the model is sent is well formed: each tool result stands directly behind the
\* message that made the call, with only earlier results of the same batch between, and
\* while the model is being asked no call is without its result, other than those of a
\* batch that a restart found half done. The fold's boundary, the commands and the
\* errors never part a call from its results.
ToolPairs ==
    LET messages == log.messages
    IN  up => /\ \A j \in DOMAIN messages : messages[j].role = "tool" =>
                    \E i \in 1 .. j - 1 :
                        /\ HasCalls(messages[i]) /\ messages[i].id = messages[j].of
                        /\ \A n \in i + 1 .. j - 1 :
                            /\ messages[n].role = "tool"
                            /\ messages[n].of = messages[i].id
                            /\ messages[n].k < messages[j].k
              /\ pc = "model" => Unanswered(messages) \subseteq log.cut

\* A restart resumes the conversation: the newest transcript file holds the history of
\* the process, in order and without its images, and besides it at most inputs taken back
\* after an error; and nothing from before the last clear is in either, nor in the
\* summary, however the clear met a call, a fold or a crash.
RestartResumes ==
    /\ up => SelectSeq(log.file, LAMBDA msg : Stands(msg) \cap log.strays = {})
                = PersistAll(log.messages)
    /\ \A id \in Known(log.file) \cup Known(log.messages) : id > log.cleared

=============================================================================

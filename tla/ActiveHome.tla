----------------------------- MODULE ActiveHome -----------------------------
(***************************************************************************)
(* The active home conversation: the runtime controller that drains        *)
(* admitted messages (src/src/context/active-home-runtime.ts), the         *)
(* orchestrator of one reply (home-text-orchestrator.ts), the two          *)
(* executors that call the provider and Discord, and the boot recovery,    *)
(* over the durable rows of ActiveHomeStore.                               *)
(*                                                                         *)
(* Every SQLite transaction is a step of its own, so that the process can  *)
(* crash between any two; a message can arrive only where the code awaits. *)
(* The clock is Date.now(): it may be set back between two readings.       *)
(***************************************************************************)
EXTENDS ActiveHomeStore

CONSTANTS
  MaxTime,        \* bound on the clock
  MaxBack,        \* bound on the times the clock is set back
  MaxCrash,       \* bound on the crashes
  MaxDeliveries   \* bound on the inbound deliveries, repeats included

ASSUME BoundsAssumption ==
  /\ MaxTime \in Nat /\ ActivatedAt <= MaxTime
  /\ MaxBack \in Nat /\ MaxCrash \in Nat /\ MaxDeliveries \in Nat

VARIABLES
  phase,      \* down, booting (reconcile), draining (boot drain), up
  pc,         \* where the running task stands, "idle" when none runs
  ret,        \* the loop that orchestrate() returns to
  at,         \* the recovery time read once by the cleanup
  ending,     \* how the cleanup ends: return or rethrow
  tasks,      \* drains chained behind the running task
  clock,      \* Date.now()
  backs, crashes, deliveries, \* how much of the bounds is used
  called,     \* provider calls that went out for the message
  posted,     \* replies to the message that Discord accepted
  inflight    \* replies on the wire that Discord may still accept

runVars == <<phase, pc, ret, at, ending, tasks>>
envVars == <<clock, backs, crashes, deliveries>>
worldVars == <<called, posted, inflight>>
vars == <<storeVars, runVars, envVars, worldVars>>

(* The places where the code awaits and an inbound handler can run. *)
AwaitPoints == {"idle", "auth", "calling", "streaming", "posting"}

Steps == AwaitPoints \cup
  {"reconcile", "b_recover", "b_effects", "assemble", "begin", "dispatch",
   "p_error", "catch", "provider_failed", "speak", "send", "s_error",
   "speech_failed", "c_provider", "c_speech", "c_recover", "c_effects"}

TypeOK ==
  /\ StoreTypeOK
  /\ phase \in {"down", "booting", "draining", "up"}
  /\ pc \in Steps
  /\ ret \in {"reconcile", "assemble"}
  /\ at \in 0 .. MaxTime
  /\ ending \in {"return", "throw"}
  /\ tasks \in Nat
  /\ clock \in 1 .. MaxTime
  /\ backs \in 0 .. MaxBack
  /\ crashes \in 0 .. MaxCrash
  /\ deliveries \in 0 .. MaxDeliveries
  /\ called \in [Msgs -> Nat]
  /\ posted \in [Msgs -> Nat]
  /\ inflight \subseteq Msgs

Init ==
  /\ StoreInit
  /\ phase = "down"
  /\ pc = "idle"
  /\ ret = "reconcile"
  /\ at = 0
  /\ ending = "return"
  /\ tasks = 0
  /\ clock = ActivatedAt
  /\ backs = 0
  /\ crashes = 0
  /\ deliveries = 0
  /\ called = [m \in Msgs |-> 0]
  /\ posted = [m \in Msgs |-> 0]
  /\ inflight = {}

-----------------------------------------------------------------------------
(* Control *)

Go(to) == pc' = to /\ UNCHANGED <<phase, ret, at, ending, tasks>>

(* A task rejects.  On boot the exception leaves main and the process      *)
(* ends; later onDrainError logs it and the next chained task may run.     *)
TaskFails ==
  /\ pc' = "idle"
  /\ phase' = IF phase = "up" THEN "up" ELSE "down"
  /\ UNCHANGED <<ret, at, ending, tasks>>

(* Mutant: the cleanup does not assert the chronology. *)
CleanUpUnchecked(from, end) ==
  /\ UNCHANGED storeVars
  /\ pc' = from
  /\ at' = clock
  /\ ending' = end
  /\ UNCHANGED <<phase, ret, tasks>>

(* The orchestrator starts to clean up: it reads the time once and asserts *)
(* the chronology before it touches anything.                              *)
CleanUp(from, end) ==
  /\ UNCHANGED storeVars
  /\ IF Chronology(clock)
       THEN /\ pc' = from
            /\ at' = clock
            /\ ending' = end
            /\ UNCHANGED <<phase, ret, tasks>>
       ELSE TaskFails

(* The invocation in work is the coordinator's: tasks are serialised, and  *)
(* nothing else moves the coordinator while one runs.                      *)
Working(step, m) == pc = step /\ coordinator = m

-----------------------------------------------------------------------------
(* recoverAndDrainActiveHomeRuntime, called from main before anything else *)
(* can deliver a message *)

Boot ==
  /\ phase = "down"
  /\ phase' = "booting"
  /\ pc' = "reconcile"
  /\ ret' = "reconcile"
  /\ UNCHANGED <<storeVars, at, ending, tasks, envVars, worldVars>>

BootRecover ==
  /\ pc = "b_recover"
  /\ IF CanRecover(clock)
       THEN RecoverBranch(clock) /\ Go("b_effects")
       ELSE UNCHANGED storeVars /\ TaskFails
  /\ UNCHANGED <<envVars, worldVars>>

(* Mutant: boot recovers but leaves the drain to the next message. *)
BootEffectsOnly ==
  /\ pc = "b_effects"
  /\ phase' = "up"
  /\ pc' = "idle"
  /\ UNCHANGED <<storeVars, ret, at, ending, tasks, envVars, worldVars>>

BootEffects ==
  /\ pc = "b_effects"
  /\ UNCHANGED storeVars
  /\ IF NoPreparedEffect
       THEN /\ phase' = "draining"
            /\ pc' = "reconcile"
            /\ ret' = "reconcile"
            /\ UNCHANGED <<at, ending, tasks>>
       ELSE TaskFails
  /\ UNCHANGED <<envVars, worldVars>>

-----------------------------------------------------------------------------
(* The drain task *)

StartTask ==
  /\ phase = "up"
  /\ pc = "idle"
  /\ tasks > 0
  /\ tasks' = tasks - 1
  /\ pc' = "reconcile"
  /\ ret' = "reconcile"
  /\ UNCHANGED <<storeVars, phase, at, ending, envVars, worldVars>>

(* reconcileDurableInvocation: nothing assembled is left. *)
ReconcileDone ==
  /\ pc = "reconcile"
  /\ ActiveInvocation = NoMsg
  /\ Go(IF phase = "booting" THEN "b_recover" ELSE "assemble")
  /\ UNCHANGED <<storeVars, envVars, worldVars>>

(* orchestrate() finds an attempt: it is never executed again, only its    *)
(* missing rows are filled in and the branch is recovered.                 *)
ReconcileAttempted(m) ==
  /\ Working("reconcile", m)
  /\ m \in attempts
  /\ CleanUp("c_provider", "return")
  /\ UNCHANGED <<envVars, worldVars>>

(* orchestrate() finds an invocation that was assembled and never          *)
(* attempted: it is executed now.                                          *)
ReconcileFresh(m) ==
  /\ Working("reconcile", m)
  /\ m \notin attempts
  /\ Go("begin")
  /\ UNCHANGED <<storeVars, envVars, worldVars>>

(* drainDurableState: assemble the oldest pending admission. *)
Assemble ==
  /\ pc = "assemble"
  /\ \E m \in Msgs :
       /\ OldestPending(m)
       /\ IF CanAssemble(m, clock)
            THEN /\ AssembleRequest(m, clock)
                 /\ pc' = "begin"
                 /\ ret' = "assemble"
                 /\ UNCHANGED <<phase, at, ending, tasks>>
            ELSE UNCHANGED storeVars /\ TaskFails
  /\ UNCHANGED <<envVars, worldVars>>

DrainDone ==
  /\ pc = "assemble"
  /\ \A m \in Msgs : ~Pending(m)
  /\ pc' = "idle"
  /\ phase' = "up"
  /\ UNCHANGED <<storeVars, ret, at, ending, tasks, envVars, worldVars>>

-----------------------------------------------------------------------------
(* createIsolatedProviderExecutor *)

Begin(m) ==
  /\ Working("begin", m)
  /\ IF CanBegin(m, clock)
       THEN BeginAttempt(m, clock) /\ Go("auth")
       ELSE UNCHANGED storeVars /\ Go("catch")
  /\ UNCHANGED <<envVars, worldVars>>

(* beforeNetwork: the effect is durable before the request leaves. *)
BeforeNetwork(m) ==
  /\ Working("auth", m)
  /\ IF ProviderEffectAuthorized(m, clock)
       THEN PrepareProviderEffect(m, clock) /\ Go("dispatch")
       ELSE UNCHANGED storeVars /\ Go("p_error")
  /\ UNCHANGED <<envVars, worldVars>>

(* completeStandalone fails before it reaches the network. *)
AuthFails(m) ==
  /\ Working("auth", m)
  /\ Go("p_error")
  /\ UNCHANGED <<storeVars, envVars, worldVars>>

Dispatch(m) ==
  /\ Working("dispatch", m)
  /\ called' = [called EXCEPT ![m] = @ + 1]
  /\ Go("calling")
  /\ UNCHANGED <<storeVars, envVars, posted, inflight>>

ResponseReceived(m) ==
  /\ Working("calling", m)
  /\ IF ResponseLineage(m, clock)
       THEN RecordResponse(m, clock) /\ Go("streaming")
       ELSE UNCHANGED storeVars /\ Go("p_error")
  /\ UNCHANGED <<envVars, worldVars>>

(* A network error or the call timeout before any response. *)
CallFails(m) ==
  /\ Working("calling", m)
  /\ Go("p_error")
  /\ UNCHANGED <<storeVars, envVars, worldVars>>

(* The completion is whole and matches the target. *)
Completed(m) ==
  /\ Working("streaming", m)
  /\ IF CanRecordOutcome(m, "success", clock)
       THEN RecordOutcome(m, "success", clock) /\ Go("speak")
       ELSE UNCHANGED storeVars /\ Go("p_error")
  /\ UNCHANGED <<envVars, worldVars>>

(* An error status, a broken stream, a tool call, an empty text or another *)
(* provenance than the authorised one.                                     *)
StreamFails(m) ==
  /\ Working("streaming", m)
  /\ Go("p_error")
  /\ UNCHANGED <<storeVars, envVars, worldVars>>

(* The executor's catch; when even the error cannot be recorded it rejects *)
(* and the orchestrator cleans up and rethrows.                            *)
ProviderError(m) ==
  /\ Working("p_error", m)
  /\ IF CanRecordOutcome(m, PhaseOf(m), clock)
       THEN /\ RecordOutcome(m, PhaseOf(m), clock)
            /\ Go("provider_failed")
       ELSE UNCHANGED storeVars /\ Go("catch")
  /\ UNCHANGED <<envVars, worldVars>>

(* The orchestrator's catch around an executor: a new reading of the clock *)
Catch(m) ==
  /\ Working("catch", m)
  /\ CleanUp("c_provider", "throw")
  /\ UNCHANGED <<envVars, worldVars>>

ProviderFailed(m) ==
  /\ Working("provider_failed", m)
  /\ CleanUp("c_speech", "return")
  /\ UNCHANGED <<envVars, worldVars>>

-----------------------------------------------------------------------------
(* createActiveHomeDiscordTextExecutor and the transport *)

(* The channel is not muted and the speech effect is durable. *)
BeforeDispatch(m) ==
  /\ Working("speak", m)
  /\ IF CanPrepareSpeech(m, clock)
       THEN PrepareSpeechEffect(m, clock) /\ Go("send")
       ELSE UNCHANGED storeVars /\ Go("s_error")
  /\ UNCHANGED <<envVars, worldVars>>

(* createActiveHomeSendAuthorizer throws, or validateRequest does. *)
Muted(m) ==
  /\ Working("speak", m)
  /\ Go("s_error")
  /\ UNCHANGED <<storeVars, envVars, worldVars>>

Post(m) ==
  /\ Working("send", m)
  /\ inflight' = inflight \cup {m}
  /\ Go("posting")
  /\ UNCHANGED <<storeVars, envVars, called, posted>>

(* 200 with evidence of our message: the reply is in the channel. *)
PostReturns(m) ==
  /\ Working("posting", m)
  /\ posted[m] > 0
  /\ IF CanComplete(m, clock)
       THEN CompleteObserved(m, clock) /\ Go(ret)
       ELSE UNCHANGED storeVars /\ Go("s_error")
  /\ UNCHANGED <<envVars, worldVars>>

(* Mutant: a timed-out POST is sent again. *)
PostFailsRetried(m) ==
  /\ Working("posting", m)
  /\ Go("send")
  /\ UNCHANGED <<storeVars, envVars, worldVars>>

(* A timeout, a network error, another status or a body that proves        *)
(* nothing; the reply may be in the channel, or still arrive there.        *)
PostFails(m) ==
  /\ Working("posting", m)
  /\ Go("s_error")
  /\ UNCHANGED <<storeVars, envVars, worldVars>>

SpeechError(m) ==
  /\ Working("s_error", m)
  /\ LET how == Disposition(m) IN
     IF CanRecordSpeechFailure(m, how, clock)
       THEN /\ RecordSpeechFailure(m, how, clock)
            /\ Go("speech_failed")
       ELSE UNCHANGED storeVars /\ Go("catch")
  /\ UNCHANGED <<envVars, worldVars>>

SpeechFailed(m) ==
  /\ Working("speech_failed", m)
  /\ CleanUp("c_recover", "return")
  /\ UNCHANGED <<envVars, worldVars>>

-----------------------------------------------------------------------------
(* reconcileActiveAndRecover and recoverActive: one step per transaction *)

CleanProvider(m) ==
  /\ Working("c_provider", m)
  /\ ReconcileProvider(m, at)
  /\ Go("c_speech")
  /\ UNCHANGED <<envVars, worldVars>>

CleanSpeech(m) ==
  /\ Working("c_speech", m)
  /\ ReconcileSpeech(m, at)
  /\ Go("c_recover")
  /\ UNCHANGED <<envVars, worldVars>>

CleanRecover ==
  /\ pc = "c_recover"
  /\ IF Chronology(at) /\ CanRecover(at)
       THEN RecoverBranch(at) /\ Go("c_effects")
       ELSE UNCHANGED storeVars /\ TaskFails
  /\ UNCHANGED <<envVars, worldVars>>

CleanEffects ==
  /\ pc = "c_effects"
  /\ UNCHANGED storeVars
  /\ IF NoPreparedEffect /\ ending = "return" THEN Go(ret) ELSE TaskFails
  /\ UNCHANGED <<envVars, worldVars>>

-----------------------------------------------------------------------------
(* The world *)

(* recordInbound: append, then chain a drain. *)
Inbound(m) ==
  /\ phase = "up"
  /\ pc \in AwaitPoints
  /\ deliveries < MaxDeliveries
  /\ deliveries' = deliveries + 1
  /\ RecordNewInbound(m, clock) \/ RecordKnownInbound(m)
  /\ tasks' = tasks + 1
  /\ UNCHANGED <<phase, pc, ret, at, ending, clock, backs, crashes,
                 worldVars>>

DiscordAccepts(m) ==
  /\ m \in inflight
  /\ inflight' = inflight \ {m}
  /\ posted' = [posted EXCEPT ![m] = @ + 1]
  /\ UNCHANGED <<storeVars, runVars, envVars, called>>

DiscordDrops(m) ==
  /\ m \in inflight
  /\ inflight' = inflight \ {m}
  /\ UNCHANGED <<storeVars, runVars, envVars, called, posted>>

Tick ==
  /\ clock < MaxTime
  /\ clock' = clock + 1
  /\ UNCHANGED <<storeVars, runVars, backs, crashes, deliveries, worldVars>>

ClockSetBack ==
  /\ backs < MaxBack
  /\ clock > 1
  /\ clock' = clock - 1
  /\ backs' = backs + 1
  /\ UNCHANGED <<storeVars, runVars, crashes, deliveries, worldVars>>

(* The process dies; its memory is lost, the rows and the wire stay. *)
Crash ==
  /\ phase # "down"
  /\ crashes < MaxCrash
  /\ crashes' = crashes + 1
  /\ phase' = "down"
  /\ pc' = "idle"
  /\ ret' = "reconcile"
  /\ at' = 0
  /\ ending' = "return"
  /\ tasks' = 0
  /\ UNCHANGED <<storeVars, clock, backs, deliveries, worldVars>>

(* A step of the reply in work *)
ReplyStep(m) ==
  \/ ReconcileAttempted(m) \/ ReconcileFresh(m)
  \/ Begin(m) \/ BeforeNetwork(m) \/ AuthFails(m) \/ Dispatch(m)
  \/ ResponseReceived(m) \/ CallFails(m) \/ Completed(m) \/ StreamFails(m)
  \/ ProviderError(m) \/ Catch(m) \/ ProviderFailed(m)
  \/ BeforeDispatch(m) \/ Muted(m) \/ Post(m) \/ PostReturns(m) \/ PostFails(m)
  \/ SpeechError(m) \/ SpeechFailed(m)
  \/ CleanProvider(m) \/ CleanSpeech(m)

Running ==
  \/ BootRecover \/ BootEffects
  \/ StartTask \/ ReconcileDone \/ Assemble \/ DrainDone
  \/ \E m \in Msgs : ReplyStep(m)
  \/ CleanRecover \/ CleanEffects

Next ==
  \/ Boot
  \/ Running
  \/ \E m \in Msgs : Inbound(m) \/ DiscordAccepts(m) \/ DiscordDrops(m)
  \/ Tick \/ ClockSetBack \/ Crash

Spec == Init /\ [][Next]_vars

(* The supervisor restarts a process that ended; every await of a running  *)
(* task returns or times out, so a task always takes its next step.        *)
LiveSpec == Spec /\ WF_vars(Boot) /\ WF_vars(Running)

-----------------------------------------------------------------------------
(* Properties *)

Terminal(m) == branch[m] \in {"yielded", "crashed"}

(* A peer's message is put to the provider at most once and answered in    *)
(* the channel at most once, whatever crashes, late acceptances and        *)
(* repeated deliveries happen: an attempt found after a restart is only    *)
(* reconciled (orchestrator) and a used effect is never prepared again.    *)
AtMostOnce ==
  \A m \in Msgs : called[m] <= 1 /\ posted[m] <= 1

(* What the durable receipts claim about the outside world is so: a        *)
(* pre-dispatch rejection means nothing was sent or ever will be, an       *)
(* observed reply is in the channel, a recorded provider success comes     *)
(* from a call that was made.                                              *)
ReceiptsTruthful ==
  \A m \in Msgs :
    /\ outcome[m] = "pre_dispatch_rejected" => called[m] = 0
    /\ outcome[m] \in {"issued", "success"} => called[m] = 1
    /\ receipt[m] = "pre_dispatch_rejected" =>
         posted[m] = 0 /\ m \notin inflight
    /\ receipt[m] = "observed" => posted[m] = 1

(* The continuation head moved exactly once for every answered message,    *)
(* and the running branches are exactly the coordinator's: recovery        *)
(* releases without advancing, completion does both at once.               *)
HeadCounts ==
  /\ head = Cardinality({m \in Msgs : branch[m] = "yielded"})
  /\ coordBase = head
  /\ {m \in Msgs : branch[m] = "running"} = {coordinator} \cap Msgs

(* Admitted messages are answered in the order of their events: whatever   *)
(* comes earlier is terminal before a later one gets a branch.             *)
InOrder ==
  \A m, n \in Msgs :
    /\ branch[n] # "none"
    /\ admittedAt[m] # 0
    /\ seq[m] < seq[n]
    => Terminal(m)

(* A crashed branch never hides an unexplained call: the provider outcome  *)
(* is recorded, a successful one has its speech receipt, no effect is left *)
(* prepared, and every effect that was dispatched is accounted for.        *)
NoSilentDrop ==
  \A m \in Msgs : branch[m] = "crashed" =>
    /\ outcome[m] # "none"
    /\ outcome[m] = "success" => receipt[m] \notin {"none", "observed"}
    /\ effect[m] # "prepared" /\ speechEffect[m] # "prepared"
    /\ called[m] > 0 => outcome[m] # "pre_dispatch_rejected"

(* A cleanup that passed its chronology check is never refused halfway by  *)
(* a trigger, unless there is no attempt to explain the crash with.        *)
CleanupGoesThrough ==
  /\ pc = "c_provider" => coordinator \in Msgs /\
       (coordinator \in attempts /\ outcome[coordinator] = "none" =>
          CanRecordOutcome(coordinator, PhaseOf(coordinator), at))
  /\ pc = "c_speech" => coordinator \in Msgs /\
       (Speech(coordinator) /\ receipt[coordinator] = "none" =>
          CanRecordSpeechFailure(coordinator, Disposition(coordinator), at))
  /\ pc = "c_recover" => coordinator \in Msgs /\
       (coordinator \in attempts => Chronology(at) /\ CanRecover(at))

-----------------------------------------------------------------------------
(* The inductive invariant behind the properties above *)

(* The rows of one message support each other, in the order in which the   *)
(* lineage guards let them in.                                             *)
ChainShape(m) ==
  /\ branch[m] = "none" => m \notin attempts
  /\ branch[m] # "none" => admittedAt[m] # 0
  /\ admittedAt[m] # 0 => seq[m] # 0
  /\ m \notin attempts => effect[m] = "none" /\ outcome[m] = "none"
  /\ effect[m] = "none" => m \notin responses
  /\ outcome[m] = "none" => effect[m] \in {"none", "prepared"}
  /\ outcome[m] # "none" => effect[m] = ProviderEffectAfter(outcome[m])
  /\ outcome[m] = "issuance_uncertain" => m \notin responses
  /\ outcome[m] \in {"issued", "success"} => m \in responses
  /\ ~Speech(m) => speechEffect[m] = "none" /\ receipt[m] = "none"
  /\ receipt[m] = "none" => speechEffect[m] \in {"none", "prepared"}
  /\ receipt[m] = "pre_dispatch_rejected" => speechEffect[m] = "none"
  /\ receipt[m] = "issuance_uncertain" => speechEffect[m] = "uncertain"
  /\ receipt[m] = "observed" => speechEffect[m] = "observed"

(* Who holds the coordinator, and what a finished branch has recorded.     *)
BranchShape(m) ==
  /\ branch[m] = "running" <=> coordinator = m
  /\ branch[m] = "running" => base[m] = head
  /\ branch[m] = "yielded" <=> receipt[m] = "observed"
  /\ branch[m] = "crashed" => outcome[m] # "none"
  /\ branch[m] = "crashed" /\ Speech(m) => receipt[m] # "none"

(* What went out is covered by a durable effect, once.                     *)
SentShape(m) ==
  /\ called[m] \in {0, 1}
  /\ called[m] = 1 => effect[m] # "none"
  /\ m \in responses => called[m] = 1
  /\ posted[m] \in {0, 1}
  /\ posted[m] = 1 => speechEffect[m] # "none" /\ m \notin inflight
  /\ m \in inflight => speechEffect[m] # "none"
  /\ receipt[m] = "observed" => posted[m] = 1

(* Sequence numbers are distinct and in step with the answers.             *)
OrderShape ==
  /\ coordBase = head
  /\ \A m \in Msgs : seq[m] < nextSeq
  /\ \A m, n \in Msgs : seq[m] = seq[n] /\ seq[m] # 0 => m = n
  /\ InOrder

(* Where the running task stands, and the rows it has left behind.         *)
ControlShape ==
  /\ pc \in {"b_recover", "b_effects", "assemble", "c_effects"} =>
       coordinator \notin Msgs
  /\ pc \notin {"idle", "reconcile", "b_recover", "b_effects", "assemble",
                "c_effects"} =>
       coordinator \in Msgs
  /\ pc = "reconcile" => ret = "reconcile"
  /\ pc = "begin" => coordinator \notin attempts
  /\ pc \in {"auth", "dispatch", "calling", "streaming", "p_error"} =>
       coordinator \in attempts /\ outcome[coordinator] = "none"
  /\ pc = "auth" => effect[coordinator] = "none"
  /\ pc \in {"dispatch", "calling", "streaming"} =>
       effect[coordinator] = "prepared"
  /\ pc = "dispatch" => called[coordinator] = 0
  /\ pc \in {"dispatch", "calling"} => coordinator \notin responses
  /\ pc \in {"calling", "streaming"} => called[coordinator] = 1
  /\ pc = "streaming" => coordinator \in responses
  /\ pc = "provider_failed" => outcome[coordinator] \notin {"none", "success"}
  /\ pc \in {"speak", "send", "posting", "s_error"} =>
       Speech(coordinator) /\ receipt[coordinator] = "none"
  /\ pc = "speak" => speechEffect[coordinator] = "none"
  /\ pc \in {"send", "posting"} => speechEffect[coordinator] = "prepared"
  /\ pc = "send" => posted[coordinator] = 0 /\ coordinator \notin inflight
  /\ pc = "speech_failed" => receipt[coordinator] # "none"
  /\ pc \in {"c_provider", "c_speech", "c_recover"} => stamp[coordinator] <= at
  /\ pc \in {"c_speech", "c_recover"} =>
       (coordinator \in attempts => outcome[coordinator] # "none")
  /\ pc = "c_recover" => (Speech(coordinator) => receipt[coordinator] # "none")

DarkShape == dark = "running" <=> coordinator = Dark

Shapes(m) == ChainShape(m) /\ BranchShape(m) /\ SentShape(m)

(* What the rows and the world look like between any two transactions      *)
RowsInv ==
  /\ \A m \in Msgs : Shapes(m)
  /\ OrderShape
  /\ DarkShape

IInv == TypeOK /\ RowsInv /\ ControlShape

-----------------------------------------------------------------------------
(* The conversation implements its abstract promise. *)
StateOf(m) ==
  CASE seq[m] = 0 -> "new"
    [] seq[m] # 0 /\ admittedAt[m] = 0 -> "ignored"
    [] admittedAt[m] # 0 /\ branch[m] = "none" -> "waiting"
    [] branch[m] = "running" -> "taken"
    [] branch[m] = "yielded" -> "answered"
    [] branch[m] = "crashed" -> "failed"

ReplyState == [m \in Msgs |-> StateOf(m)]

Released == {m \in Msgs : speechEffect[m] # "none"}

Promise == INSTANCE HomeReply WITH
  state <- ReplyState, order <- seq, last <- nextSeq - 1,
  asked <- called, released <- Released, said <- posted

(* The running system, with crashes, late acceptances and clock changes,   *)
(* implements HomeReply.                                                   *)
ImplementsReply == Promise!Spec

(* Every admitted message is settled, answered or failed, also when the    *)
(* process crashes on the way: boot reconciles what it finds and drains    *)
(* the rest (recoverAndDrainActiveHomeRuntime).  A clock set back may hold *)
(* the cleanup up for as long as it stays behind the recorded times.       *)
EventuallySettled ==
  \A m \in Msgs : admittedAt[m] # 0 ~> (Terminal(m) \/ backs > 0)

=============================================================================

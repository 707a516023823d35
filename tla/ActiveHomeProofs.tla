-------------------------- MODULE ActiveHomeProofs ---------------------------
(***************************************************************************)
(* First, every transaction of ActiveHomeStore, and every step of the      *)
(* outside world, preserves RowsInv.  Then every handler preserves IInv:   *)
(* it is an inductive invariant of ActiveHome, for any set of messages and *)
(* any bounds, and the properties of the conversation follow from it.      *)
(* Last, ActiveHome implements HomeReply: under the mapping of Promise,    *)
(* every initial state is an initial state of HomeReply, and every step    *)
(* either is a step of HomeReply or leaves what the peer can tell          *)
(* unchanged.                                                              *)
(***************************************************************************)
EXTENDS ActiveHome, FiniteSetTheorems, TLAPS

(* The store is left alone, as is what went out. *)
LEMMA RowsStutter ==
  ASSUME RowsInv, UNCHANGED storeVars, UNCHANGED worldVars
  PROVE  RowsInv'
<1>1. \A m \in Msgs : Shapes(m)'
  BY DEF RowsInv, Shapes, ChainShape, BranchShape, SentShape, Speech,
         storeVars, worldVars
<1>2. OrderShape' /\ DarkShape'
  BY Zenon DEF RowsInv, OrderShape, DarkShape, InOrder, Terminal, storeVars
<1> QED
  BY <1>1, <1>2, Zenon DEF RowsInv

(* beginActiveHomeProviderExecutionAttempt *)
LEMMA BeginRows ==
  ASSUME TypeOK, RowsInv, UNCHANGED worldVars, NEW k \in Msgs, NEW t \in Nat,
         BeginAttempt(k, t)
  PROVE  RowsInv'
<1> USE DEF BeginAttempt, CanBegin, AttemptLineage, Current
<1>1. \A m \in Msgs : Shapes(m)'
  BY DEF TypeOK, StoreTypeOK, RowsInv, Shapes, ChainShape, BranchShape,
         SentShape, Speech, worldVars
<1>2. OrderShape' /\ DarkShape'
  BY Zenon DEF RowsInv, OrderShape, DarkShape, InOrder, Terminal
<1> QED
  BY <1>1, <1>2, Zenon DEF RowsInv

(* recordIsolatedProviderOutcome, of a success or of the error the rows    *)
(* support                                                                 *)
LEMMA OutcomeRows ==
  ASSUME TypeOK, RowsInv, UNCHANGED worldVars, NEW k \in Msgs, NEW t \in Nat,
         NEW kind \in FailurePhases \cup {"success"},
         RecordOutcome(k, kind, t)
  PROVE  RowsInv'
<1> USE DEF RecordOutcome, CanRecordOutcome, OutcomeLineage
<1>1. \A m \in Msgs : Shapes(m)'
  BY DEF TypeOK, StoreTypeOK, RowsInv, Shapes, ChainShape, BranchShape,
         SentShape, Speech, ProviderEffectAfter, worldVars, PhaseOf,
         FailurePhases
<1>2. OrderShape' /\ DarkShape'
  BY Zenon DEF RowsInv, OrderShape, DarkShape, InOrder, Terminal
<1> QED
  BY <1>1, <1>2, Zenon DEF RowsInv

(* recordActiveSocialInbound of a new event *)
LEMMA InboundRows ==
  ASSUME TypeOK, RowsInv, UNCHANGED worldVars, NEW k \in Msgs, NEW t \in Nat,
         RecordNewInbound(k, t)
  PROVE  RowsInv'
<1> USE DEF RecordNewInbound, IngressLineage
<1>1. \A m \in Msgs : Shapes(m)'
  BY DEF TypeOK, StoreTypeOK, RowsInv, Shapes, ChainShape, BranchShape,
         SentShape, Speech, worldVars
<1>2. OrderShape' /\ DarkShape'
  BY DEF TypeOK, StoreTypeOK, RowsInv, Shapes, ChainShape, BranchShape,
         OrderShape, DarkShape, InOrder, Terminal
<1> QED
  BY <1>1, <1>2, Zenon DEF RowsInv

(* assembleActiveHomeRequest *)
LEMMA AssembleRows ==
  ASSUME TypeOK, RowsInv, UNCHANGED worldVars, NEW k \in Msgs, NEW t \in Nat,
         AssembleRequest(k, t)
  PROVE  RowsInv'
<1> USE DEF AssembleRequest, CanAssemble, CoordinatorFree, OldestPending,
            InvocationLineage, Pending
<1>1. \A m \in Msgs : Shapes(m)'
  BY MsgsAssumption DEF TypeOK, StoreTypeOK, RowsInv, Shapes, ChainShape,
         BranchShape, SentShape, Speech, worldVars
<1>2. ASSUME NEW m \in Msgs, NEW n \in Msgs, branch'[n] # "none",
             admittedAt[m] # 0, seq[m] < seq[n]
      PROVE  Terminal(m)'
  <2>1. branch[m] # "none"
    <3>1. CASE n = k
      BY <1>2, <3>1 DEF TypeOK, StoreTypeOK
    <3>2. CASE n # k
      BY <1>2, <3>2, Zenon DEF TypeOK, StoreTypeOK, RowsInv, OrderShape, InOrder,
                        Terminal
    <3> QED
      BY <3>1, <3>2, Zenon
  <2>2. branch[m] # "running"
    BY MsgsAssumption, Zenon DEF RowsInv, Shapes, BranchShape
  <2>3. branch[m] \in BranchStatus /\ m # k
    BY <2>1, Zenon DEF TypeOK, StoreTypeOK
  <2> QED
    BY <2>1, <2>2, <2>3, Zenon DEF TypeOK, StoreTypeOK, BranchStatus, Terminal
<1>3. OrderShape' /\ DarkShape'
  BY <1>2, MsgsAssumption, Zenon DEF TypeOK, StoreTypeOK, RowsInv, OrderShape,
                              DarkShape, InOrder
<1> QED
  BY <1>1, <1>3, Zenon DEF RowsInv

(* prepareActiveHomeProviderExecutionEffect *)
LEMMA PrepareProviderRows ==
  ASSUME TypeOK, RowsInv, UNCHANGED worldVars, NEW k \in Msgs, NEW t \in Nat,
         PrepareProviderEffect(k, t), outcome[k] = "none"
  PROVE  RowsInv'
<1> USE DEF PrepareProviderEffect, ProviderEffectAuthorized
<1>1. \A m \in Msgs : Shapes(m)'
  BY SMTT(30) DEF TypeOK, StoreTypeOK, RowsInv, Shapes, ChainShape, BranchShape,
         SentShape, Speech, worldVars
<1>2. OrderShape' /\ DarkShape'
  BY DEF TypeOK, StoreTypeOK, RowsInv, Shapes, ChainShape, BranchShape,
         OrderShape, DarkShape, InOrder, Terminal
<1> QED
  BY <1>1, <1>2, Zenon DEF RowsInv

(* recordIsolatedProviderResponse, after the call went out *)
LEMMA ResponseRows ==
  ASSUME TypeOK, RowsInv, UNCHANGED worldVars, NEW k \in Msgs, NEW t \in Nat,
         called[k] = 1, outcome[k] = "none",
         RecordResponse(k, t)
  PROVE  RowsInv'
<1> USE DEF RecordResponse, ResponseLineage
<1>1. \A m \in Msgs : Shapes(m)'
  BY SMTT(30) DEF TypeOK, StoreTypeOK, RowsInv, Shapes, ChainShape, BranchShape,
         SentShape, Speech, worldVars
<1>2. OrderShape' /\ DarkShape'
  BY DEF TypeOK, StoreTypeOK, RowsInv, Shapes, ChainShape, BranchShape,
         OrderShape, DarkShape, InOrder, Terminal
<1> QED
  BY <1>1, <1>2, Zenon DEF RowsInv

(* prepareAnyHomeTextSpeechEffect *)
LEMMA PrepareSpeechRows ==
  ASSUME TypeOK, RowsInv, UNCHANGED worldVars, NEW k \in Msgs, NEW t \in Nat,
         PrepareSpeechEffect(k, t)
  PROVE  RowsInv'
<1> USE DEF PrepareSpeechEffect, CanPrepareSpeech, SpeechEffectAuthorized,
            Current
<1>1. \A m \in Msgs : Shapes(m)'
  BY DEF TypeOK, StoreTypeOK, RowsInv, Shapes, ChainShape, BranchShape,
         SentShape, Speech, worldVars
<1>2. OrderShape' /\ DarkShape'
  BY ZenonT(30) DEF TypeOK, StoreTypeOK, RowsInv, Shapes, ChainShape, BranchShape,
         OrderShape, DarkShape, InOrder, Terminal
<1> QED
  BY <1>1, <1>2, Zenon DEF RowsInv

(* recordAnyHomeTextSpeechFailure *)
LEMMA SpeechFailureRows ==
  ASSUME TypeOK, RowsInv, UNCHANGED worldVars, NEW k \in Msgs, NEW t \in Nat,
         RecordSpeechFailure(k, Disposition(k), t)
  PROVE  RowsInv'
<1> USE DEF RecordSpeechFailure, CanRecordSpeechFailure, ReceiptLineage,
            Current, Disposition
<1>1. \A m \in Msgs : Shapes(m)'
  BY DEF TypeOK, StoreTypeOK, RowsInv, Shapes, ChainShape, BranchShape,
         SentShape, Speech, worldVars
<1>2. OrderShape' /\ DarkShape'
  BY ZenonT(30) DEF TypeOK, StoreTypeOK, RowsInv, Shapes, ChainShape, BranchShape,
         OrderShape, DarkShape, InOrder, Terminal
<1> QED
  BY <1>1, <1>2, Zenon DEF RowsInv

(* completeObservedAnyHomeTextSpeech, with the reply in the channel *)
LEMMA CompleteRows ==
  ASSUME TypeOK, RowsInv, UNCHANGED worldVars, NEW k \in Msgs, NEW t \in Nat,
         posted[k] > 0, CompleteObserved(k, t)
  PROVE  RowsInv'
<1> USE DEF CompleteObserved, CanComplete, ReceiptLineage, Current,
            HeadMayAdvance
<1>1. \A m \in Msgs : Shapes(m)'
  <2>1. \A m \in Msgs : ChainShape(m)'
    BY MsgsAssumption DEF TypeOK, StoreTypeOK, RowsInv, Shapes, ChainShape, Speech
  <2>2. \A m \in Msgs : BranchShape(m)'
    BY MsgsAssumption DEF TypeOK, StoreTypeOK, RowsInv, Shapes, BranchShape, Speech
  <2>3. \A m \in Msgs : SentShape(m)'
    BY DEF TypeOK, StoreTypeOK, RowsInv, Shapes, SentShape, worldVars
  <2> QED
    BY <2>1, <2>2, <2>3, Zenon DEF Shapes
<1>2. OrderShape' /\ DarkShape'
  BY SMTT(60), MsgsAssumption DEF TypeOK, StoreTypeOK, RowsInv, Shapes, ChainShape,
         BranchShape, OrderShape, DarkShape, InOrder, Terminal
<1> QED
  BY <1>1, <1>2, Zenon DEF RowsInv

(* recoverCoordinatedBranch *)
LEMMA RecoverRows ==
  ASSUME TypeOK, RowsInv, UNCHANGED worldVars, NEW t \in Nat,
         RecoverBranch(t)
  PROVE  RowsInv'
<1> USE MsgsAssumption DEF RecoverBranch, CanRecover, InvocationMayCrash,
        SpeechMayCrash, Speech
<1>1. \A m \in Msgs : Shapes(m)'
  BY DEF TypeOK, StoreTypeOK, RowsInv, Shapes, ChainShape, BranchShape,
         SentShape, worldVars
<1>2. OrderShape' /\ DarkShape'
  BY ZenonT(30) DEF TypeOK, StoreTypeOK, RowsInv, Shapes, BranchShape, OrderShape,
         DarkShape, InOrder, Terminal
<1> QED
  BY <1>1, <1>2, ZenonT(30) DEF RowsInv

(* What the outside world does to a message: the call and the reply leave, *)
(* and the reply is accepted or lost.                                      *)
LEMMA WorldRows ==
  ASSUME TypeOK, RowsInv, UNCHANGED storeVars, NEW k \in Msgs,
         \/ /\ called[k] = 0 /\ effect[k] # "none"
            /\ called' = [called EXCEPT ![k] = @ + 1]
            /\ UNCHANGED <<posted, inflight>>
         \/ /\ posted[k] = 0 /\ speechEffect[k] # "none"
            /\ inflight' = inflight \cup {k}
            /\ UNCHANGED <<called, posted>>
         \/ /\ k \in inflight
            /\ inflight' = inflight \ {k}
            /\ posted' = [posted EXCEPT ![k] = @ + 1] \/ UNCHANGED posted
            /\ UNCHANGED called
  PROVE  RowsInv'
<1>1. \A m \in Msgs : Shapes(m)'
  BY DEF TypeOK, RowsInv, Shapes, ChainShape, BranchShape, SentShape, Speech,
         storeVars
<1>2. OrderShape' /\ DarkShape'
  BY Zenon DEF RowsInv, OrderShape, DarkShape, InOrder, Terminal, storeVars
<1> QED
  BY <1>1, <1>2, Zenon DEF RowsInv

-----------------------------------------------------------------------------
(* Every transaction of the store keeps the types of its rows.             *)

(* The clock and the recovery time are times. *)
LEMMA TimesAreNat == ASSUME TypeOK PROVE clock \in Nat /\ at \in Nat
  BY SMT DEF TypeOK

(* beginActiveHomeProviderExecutionAttempt, prepareActiveHomeProvider-     *)
(* ExecutionEffect and recordIsolatedProviderResponse *)
LEMMA AttemptTypes ==
  ASSUME StoreTypeOK, NEW k \in Msgs, NEW t \in Nat,
         BeginAttempt(k, t) \/ PrepareProviderEffect(k, t) \/ RecordResponse(k, t)
  PROVE  StoreTypeOK'
<1>1. CASE BeginAttempt(k, t)
  BY <1>1, SMT DEF StoreTypeOK, BeginAttempt
<1>2. CASE PrepareProviderEffect(k, t)
  BY <1>2, SMT DEF StoreTypeOK, PrepareProviderEffect, EffectStatus
<1>3. CASE RecordResponse(k, t)
  BY <1>3, SMT DEF StoreTypeOK, RecordResponse
<1> QED
  BY <1>1, <1>2, <1>3, Zenon

(* recordIsolatedProviderOutcome *)
LEMMA OutcomeTypes ==
  ASSUME StoreTypeOK, NEW k \in Msgs, NEW t \in Nat,
         NEW kind \in FailurePhases \cup {"success"}, RecordOutcome(k, kind, t)
  PROVE  StoreTypeOK'
<1>1. ProviderEffectAfter(kind) \in EffectStatus
  BY SMT DEF FailurePhases, ProviderEffectAfter, EffectStatus
<1> QED
  BY <1>1, SMT DEF StoreTypeOK, RecordOutcome

(* prepareAnyHomeTextSpeechEffect, recordAnyHomeTextSpeechFailure *)
LEMMA SpeechTypes ==
  ASSUME StoreTypeOK, NEW k \in Msgs, NEW t \in Nat,
         PrepareSpeechEffect(k, t) \/ RecordSpeechFailure(k, Disposition(k), t)
  PROVE  StoreTypeOK'
<1>1. CASE PrepareSpeechEffect(k, t)
  BY <1>1, SMT DEF StoreTypeOK, PrepareSpeechEffect, EffectStatus
<1>2. CASE RecordSpeechFailure(k, Disposition(k), t)
  <2>1. Disposition(k) \in ReceiptPhases
    BY Zenon DEF Disposition, ReceiptPhases
  <2> QED
    BY <1>2, <2>1, SMT DEF StoreTypeOK, RecordSpeechFailure, EffectStatus
<1> QED
  BY <1>1, <1>2, Zenon

(* completeObservedAnyHomeTextSpeech *)
LEMMA CompleteTypes ==
  ASSUME StoreTypeOK, NEW k \in Msgs, NEW t \in Nat, CompleteObserved(k, t)
  PROVE  StoreTypeOK'
  BY SMT DEF StoreTypeOK, CompleteObserved, EffectStatus, ReceiptPhases, BranchStatus

(* assembleActiveHomeRequest and recordActiveSocialInbound *)
LEMMA IntakeTypes ==
  ASSUME StoreTypeOK, NEW k \in Msgs, NEW t \in Nat,
         AssembleRequest(k, t) \/ RecordNewInbound(k, t)
  PROVE  StoreTypeOK'
<1>1. CASE AssembleRequest(k, t)
  BY <1>1, SMT DEF StoreTypeOK, AssembleRequest, BranchStatus
<1>2. CASE RecordNewInbound(k, t)
  BY <1>2, SMT DEF StoreTypeOK, RecordNewInbound
<1> QED
  BY <1>1, <1>2, Zenon

(* recoverCoordinatedBranch *)
LEMMA RecoverTypes ==
  ASSUME StoreTypeOK, NEW t \in Nat, RecoverBranch(t)
  PROVE  StoreTypeOK'
  BY SMT DEF StoreTypeOK, RecoverBranch, BranchStatus

-----------------------------------------------------------------------------
(* What ControlShape asks for at each place of the task.                   *)

(* No message is in work. *)
LEMMA FreeControl ==
  ASSUME \/ pc' = "idle"
         \/ pc' = "reconcile" /\ ret' = "reconcile"
         \/ /\ pc' \in {"b_recover", "b_effects", "assemble", "c_effects"}
            /\ coordinator' \notin Msgs
  PROVE  ControlShape'
  BY Zenon DEF ControlShape

(* The attempt of the held message is still to begin, or an executor threw *)
LEMMA HeldControl ==
  ASSUME pc' \in {"begin", "catch"}, coordinator' \in Msgs,
         pc' = "begin" => coordinator' \notin attempts'
  PROVE  ControlShape'
  BY Zenon DEF ControlShape

(* The provider executor has the held message *)
LEMMA ProviderControl ==
  ASSUME pc' \in {"auth", "dispatch", "calling", "streaming", "p_error"},
         coordinator' \in Msgs, coordinator' \in attempts', outcome'[coordinator'] = "none",
         pc' = "auth" => effect'[coordinator'] = "none",
         pc' \in {"dispatch", "calling", "streaming"} => effect'[coordinator'] = "prepared",
         pc' = "dispatch" => called'[coordinator'] = 0,
         pc' \in {"dispatch", "calling"} => coordinator' \notin responses',
         pc' \in {"calling", "streaming"} => called'[coordinator'] = 1,
         pc' = "streaming" => coordinator' \in responses'
  PROVE  ControlShape'
  BY Zenon DEF ControlShape

(* The Discord executor has the held message *)
LEMMA SpeechControl ==
  ASSUME pc' \in {"speak", "send", "posting", "s_error"},
         coordinator' \in Msgs, Speech(coordinator)', receipt'[coordinator'] = "none",
         pc' = "speak" => speechEffect'[coordinator'] = "none",
         pc' \in {"send", "posting"} => speechEffect'[coordinator'] = "prepared",
         pc' = "send" => posted'[coordinator'] = 0 /\ coordinator' \notin inflight'
  PROVE  ControlShape'
  BY Zenon DEF ControlShape

(* An executor reported a failure it has recorded *)
LEMMA FailedControl ==
  ASSUME coordinator' \in Msgs,
         \/ pc' = "provider_failed" /\ outcome'[coordinator'] \notin {"none", "success"}
         \/ pc' = "speech_failed" /\ receipt'[coordinator'] # "none"
  PROVE  ControlShape'
  BY Zenon DEF ControlShape

(* The cleanup of the held message is on its way *)
LEMMA CleanControl ==
  ASSUME pc' \in {"c_provider", "c_speech", "c_recover"},
         coordinator' \in Msgs, stamp'[coordinator'] <= at',
         pc' \in {"c_speech", "c_recover"} =>
           (coordinator' \in attempts' => outcome'[coordinator'] # "none"),
         pc' = "c_recover" => (Speech(coordinator)' => receipt'[coordinator'] # "none")
  PROVE  ControlShape'
  BY Zenon DEF ControlShape

(* What the process holds does not move: neither does what it waits for *)
LEMMA ControlStutter ==
  ASSUME ControlShape, UNCHANGED <<pc, ret, at, coordinator, attempts, outcome, effect>>,
         UNCHANGED <<responses, speechEffect, receipt, stamp, called>>,
         pc = "send" => posted'[coordinator] = posted[coordinator] /\ coordinator \notin inflight'
  PROVE  ControlShape'
  BY ZenonT(30) DEF ControlShape, Speech

-----------------------------------------------------------------------------
(* The handlers.                                                           *)

(* A step of the task that moves on after its transaction *)
LEMMA Committed ==
  ASSUME IInv, StoreTypeOK', RowsInv', ControlShape', NEW to \in Steps, Go(to),
         UNCHANGED <<envVars, worldVars>>
  PROVE  IInv'
<1>1. TypeOK'
  BY Zenon DEF IInv, TypeOK, Go, envVars, worldVars
<1> QED
  BY <1>1, Zenon DEF IInv

(* A step that leaves the rows and the world alone *)
LEMMA Quiet ==
  ASSUME IInv, UNCHANGED <<storeVars, worldVars>>, ControlShape',
         phase' \in {"down", "booting", "draining", "up"}, pc' \in Steps,
         ret' \in {"reconcile", "assemble"}, at' \in 0 .. MaxTime,
         ending' \in {"return", "throw"}, tasks' \in Nat, clock' \in 1 .. MaxTime,
         backs' \in 0 .. MaxBack, crashes' \in 0 .. MaxCrash,
         deliveries' \in 0 .. MaxDeliveries
  PROVE  IInv'
<1>1. StoreTypeOK'
  BY Zenon DEF IInv, TypeOK, StoreTypeOK, storeVars
<1>2. RowsInv'
  BY RowsStutter, Zenon DEF IInv
<1>3. TypeOK'
  BY <1>1, Zenon DEF IInv, TypeOK, worldVars
<1> QED
  BY <1>2, <1>3, Zenon DEF IInv

(* A step that only moves the task *)
LEMMA Moved ==
  ASSUME IInv, UNCHANGED <<storeVars, envVars, worldVars>>, ControlShape',
         NEW to \in Steps, Go(to)
  PROVE  IInv'
<1>1. /\ pc' \in Steps /\ UNCHANGED <<storeVars, worldVars>>
      /\ UNCHANGED <<phase, ret, at, ending, tasks, clock, backs, crashes, deliveries>>
  BY Zenon DEF Go, envVars
<1>2. TypeOK
  BY Zenon DEF IInv
<1> QED
  BY <1>1, <1>2, Quiet, Zenon DEF TypeOK

(* The task rejects *)
LEMMA Rejected ==
  ASSUME IInv, UNCHANGED <<storeVars, envVars, worldVars>>, TaskFails
  PROVE  IInv'
<1>1. ControlShape'
  BY FreeControl, Zenon DEF TaskFails
<1>2. /\ phase' \in {"down", "booting", "draining", "up"} /\ pc' \in Steps
      /\ UNCHANGED <<ret, at, ending, tasks, clock, backs, crashes, deliveries>>
  BY Zenon DEF TaskFails, Steps, AwaitPoints, envVars
<1>3. TypeOK
  BY Zenon DEF IInv
<1> QED
  BY <1>1, <1>2, <1>3, Quiet, Zenon DEF TypeOK

(* The orchestrator starts to clean up, or the chronology stops it *)
LEMMA CleanUpInv ==
  ASSUME IInv, coordinator \in Msgs, NEW from \in {"c_provider", "c_speech", "c_recover"},
         NEW end \in {"return", "throw"}, CleanUp(from, end), UNCHANGED <<envVars, worldVars>>,
         from \in {"c_speech", "c_recover"} =>
           (coordinator \in attempts => outcome[coordinator] # "none"),
         from = "c_recover" => (Speech(coordinator) => receipt[coordinator] # "none")
  PROVE  IInv'
<1>1. UNCHANGED storeVars
  BY Zenon DEF CleanUp
<1>2. CASE Chronology(clock)
  <2>1. /\ pc' = from /\ at' = clock /\ ending' = end
        /\ UNCHANGED <<phase, ret, tasks, clock, backs, crashes, deliveries>>
    BY <1>2, Zenon DEF CleanUp, envVars
  <2>2. UNCHANGED <<coordinator, attempts, outcome, receipt, stamp>>
    BY <1>1, Zenon DEF storeVars
  <2>3. stamp[coordinator] <= clock
    BY <1>2, Zenon DEF Chronology
  <2>4. ControlShape'
    BY <2>1, <2>2, <2>3, CleanControl, Zenon DEF Speech
  <2>5. TypeOK /\ pc' \in Steps
    BY <2>1, Zenon DEF IInv, Steps
  <2>6. clock \in 0 .. MaxTime
    BY <2>5, SMT DEF TypeOK
  <2> QED
    BY <1>1, <2>1, <2>4, <2>5, <2>6, Quiet, Zenon DEF TypeOK
<1>3. CASE ~Chronology(clock)
  BY <1>1, <1>3, Rejected, Zenon DEF CleanUp
<1> QED
  BY <1>2, <1>3, Zenon

(* Steps that leave the rows and the world alone: they move the task, the  *)
(* clock or the process.                                                   *)
QuietStep ==
  \/ Boot \/ BootEffects \/ StartTask \/ ReconcileDone \/ DrainDone
  \/ CleanEffects \/ Tick \/ ClockSetBack \/ Crash

QuietReply(m) ==
  \/ ReconcileAttempted(m) \/ ReconcileFresh(m) \/ AuthFails(m) \/ CallFails(m)
  \/ StreamFails(m) \/ Catch(m) \/ ProviderFailed(m) \/ Muted(m)
  \/ PostFails(m) \/ SpeechFailed(m)

(* They preserve the invariant. *)
LEMMA QuietStepInv ==
  ASSUME IInv, QuietStep
  PROVE  IInv'
<1>0. TypeOK /\ ControlShape
  BY Zenon DEF IInv
<1> DEFINE Env == UNCHANGED <<clock, backs, crashes, deliveries>>
<1> USE DEF envVars
<1>1. CASE Boot \/ StartTask
  <2>1. /\ UNCHANGED <<storeVars, worldVars, at, ending>> /\ Env
        /\ pc' = "reconcile" /\ ret' = "reconcile" /\ phase' \in {"booting", phase}
        /\ tasks' = tasks \/ (tasks > 0 /\ tasks' = tasks - 1)
    BY <1>1, Zenon DEF Boot, StartTask
  <2>2. tasks' \in Nat
    BY <1>0, <2>1, SMT DEF TypeOK
  <2>3. ControlShape' /\ pc' \in Steps
    BY <2>1, FreeControl, Zenon DEF Steps
  <2>4. phase' \in {"down", "booting", "draining", "up"}
    BY <1>0, <2>1, Zenon DEF TypeOK
  <2> QED
    BY <1>0, <2>1, <2>2, <2>3, <2>4, Quiet, Zenon DEF TypeOK
<1>2. CASE BootEffects
  <2>1. CASE TaskFails
    BY <1>2, <2>1, Rejected, Zenon DEF BootEffects
  <2>2. CASE ~TaskFails
    <3>1. /\ UNCHANGED <<storeVars, worldVars, at, ending, tasks>> /\ Env
          /\ pc' = "reconcile" /\ ret' = "reconcile" /\ phase' = "draining"
      BY <1>2, <2>2, Zenon DEF BootEffects
    <3>2. ControlShape' /\ pc' \in Steps
      BY <3>1, FreeControl, Zenon DEF Steps
    <3> QED
      BY <1>0, <3>1, <3>2, Quiet, Zenon DEF TypeOK
  <2> QED
    BY <2>1, <2>2, Zenon
<1>3. CASE ReconcileDone
  <2>1. PICK to \in {"b_recover", "assemble"} : Go(to)
    BY <1>3, Zenon DEF ReconcileDone
  <2>2. coordinator' \notin Msgs
    BY <1>3, MsgsAssumption, Zenon DEF ReconcileDone, ActiveInvocation, storeVars
  <2>3. ControlShape' /\ to \in Steps
    BY <2>1, <2>2, FreeControl, Zenon DEF Steps, Go
  <2> QED
    BY <1>3, <2>1, <2>3, Moved, Zenon DEF ReconcileDone
<1>4. CASE DrainDone
  <2>1. /\ UNCHANGED <<storeVars, worldVars, ret, at, ending, tasks>> /\ Env
        /\ pc' = "idle" /\ phase' = "up"
    BY <1>4, Zenon DEF DrainDone
  <2>2. ControlShape' /\ pc' \in Steps
    BY <2>1, FreeControl, Zenon DEF Steps, AwaitPoints
  <2> QED
    BY <1>0, <2>1, <2>2, Quiet, Zenon DEF TypeOK
<1>5. CASE CleanEffects
  <2>1. CASE TaskFails
    BY <1>5, <2>1, Rejected, Zenon DEF CleanEffects
  <2>2. CASE ~TaskFails
    <3>1. Go(ret) /\ UNCHANGED <<storeVars, envVars, worldVars>>
      BY <1>5, <2>2, Zenon DEF CleanEffects
    <3>2. ret \in {"reconcile", "assemble"} /\ coordinator \notin Msgs
      BY <1>0, <1>5, Zenon DEF TypeOK, ControlShape, CleanEffects
    <3>3. pc' = ret /\ ret' = ret /\ coordinator' = coordinator
      BY <3>1, Zenon DEF Go, storeVars
    <3>4. ControlShape' /\ ret \in Steps
      BY <3>2, <3>3, FreeControl, Zenon DEF Steps
    <3> QED
      BY <3>1, <3>4, Moved, Zenon
  <2> QED
    BY <2>1, <2>2, Zenon
<1>6. CASE Tick \/ ClockSetBack
  <2>1. /\ UNCHANGED <<storeVars, worldVars, runVars, crashes, deliveries>>
        /\ \/ clock < MaxTime /\ clock' = clock + 1 /\ backs' = backs
           \/ clock > 1 /\ clock' = clock - 1 /\ backs < MaxBack /\ backs' = backs + 1
    BY <1>6, Zenon DEF Tick, ClockSetBack
  <2>2. clock' \in 1 .. MaxTime /\ backs' \in 0 .. MaxBack
    BY <1>0, <2>1, BoundsAssumption, SMT DEF TypeOK
  <2>3. ControlShape'
    <3>1. pc = "send" => coordinator \notin inflight
      BY <1>0, Zenon DEF ControlShape
    <3> QED
      BY <1>0, <2>1, <3>1, ControlStutter, Zenon DEF storeVars, runVars, worldVars
  <2> QED
    BY <1>0, <2>1, <2>2, <2>3, Quiet, Zenon DEF TypeOK, runVars
<1>7. CASE Crash
  <2>1. /\ UNCHANGED <<storeVars, worldVars, clock, backs, deliveries>>
        /\ pc' = "idle" /\ phase' = "down" /\ ret' = "reconcile" /\ at' = 0
        /\ ending' = "return" /\ tasks' = 0 /\ crashes < MaxCrash /\ crashes' = crashes + 1
    BY <1>7, Zenon DEF Crash
  <2>2. crashes' \in 0 .. MaxCrash /\ at' \in 0 .. MaxTime /\ tasks' \in Nat
    BY <1>0, <2>1, BoundsAssumption, SMT DEF TypeOK
  <2>3. ControlShape' /\ pc' \in Steps
    BY <2>1, FreeControl, Zenon DEF Steps, AwaitPoints
  <2> QED
    BY <1>0, <2>1, <2>2, <2>3, Quiet, Zenon DEF TypeOK
<1> QED
  BY <1>1, <1>2, <1>3, <1>4, <1>5, <1>6, <1>7, Zenon DEF QuietStep

(* So do the steps of a reply that only move its task. *)
LEMMA QuietReplyInv ==
  ASSUME IInv, NEW k \in Msgs, QuietReply(k)
  PROVE  IInv'
<1>0. ControlShape /\ RowsInv
  BY Zenon DEF IInv
<1>1. CASE ReconcileAttempted(k) \/ Catch(k)
  <2>1. /\ coordinator = k /\ UNCHANGED <<envVars, worldVars>>
        /\ CleanUp("c_provider", "return") \/ CleanUp("c_provider", "throw")
    BY <1>1, Zenon DEF ReconcileAttempted, Catch, Working
  <2> QED
    BY <2>1, CleanUpInv, Zenon
<1>2. CASE ReconcileFresh(k)
  <2>1. /\ coordinator = k /\ k \notin attempts /\ Go("begin")
        /\ UNCHANGED <<storeVars, envVars, worldVars>>
    BY <1>2, Zenon DEF ReconcileFresh, Working
  <2>2. pc' = "begin" /\ UNCHANGED <<coordinator, attempts>>
    BY <2>1, Zenon DEF Go, storeVars
  <2>3. ControlShape' /\ "begin" \in Steps
    BY <2>1, <2>2, HeldControl, Zenon DEF Steps
  <2> QED
    BY <2>1, <2>3, Moved, Zenon
<1>3. CASE AuthFails(k) \/ CallFails(k) \/ StreamFails(k)
  <2>1. /\ coordinator = k /\ pc \in {"auth", "calling", "streaming"} /\ Go("p_error")
        /\ UNCHANGED <<storeVars, envVars, worldVars>>
    BY <1>3, Zenon DEF AuthFails, CallFails, StreamFails, Working
  <2>2. pc' = "p_error" /\ UNCHANGED <<coordinator, attempts, outcome>>
    BY <2>1, Zenon DEF Go, storeVars
  <2>3. k \in attempts /\ outcome[k] = "none"
    BY <1>0, <2>1, Zenon DEF ControlShape
  <2>4. ControlShape' /\ "p_error" \in Steps
    BY <2>1, <2>2, <2>3, ProviderControl, Zenon DEF Steps
  <2> QED
    BY <2>1, <2>4, Moved, Zenon
<1>4. CASE ProviderFailed(k)
  <2>1. /\ coordinator = k /\ pc = "provider_failed" /\ CleanUp("c_speech", "return")
        /\ UNCHANGED <<envVars, worldVars>>
    BY <1>4, Zenon DEF ProviderFailed, Working
  <2>2. outcome[k] # "none"
    BY <1>0, <2>1, Zenon DEF ControlShape
  <2> QED
    BY <2>1, <2>2, CleanUpInv, Zenon
<1>5. CASE Muted(k) \/ PostFails(k)
  <2>1. /\ coordinator = k /\ pc \in {"speak", "posting"} /\ Go("s_error")
        /\ UNCHANGED <<storeVars, envVars, worldVars>>
    BY <1>5, Zenon DEF Muted, PostFails, Working
  <2>2. pc' = "s_error" /\ UNCHANGED <<coordinator, outcome, receipt>>
    BY <2>1, Zenon DEF Go, storeVars
  <2>3. Speech(k) /\ receipt[k] = "none"
    BY <1>0, <2>1, Zenon DEF ControlShape
  <2>4. ControlShape' /\ "s_error" \in Steps
    BY <2>1, <2>2, <2>3, SpeechControl, Zenon DEF Steps, Speech
  <2> QED
    BY <2>1, <2>4, Moved, Zenon
<1>6. CASE SpeechFailed(k)
  <2>1. /\ coordinator = k /\ pc = "speech_failed" /\ CleanUp("c_recover", "return")
        /\ UNCHANGED <<envVars, worldVars>>
    BY <1>6, Zenon DEF SpeechFailed, Working
  <2>2. receipt[k] # "none"
    BY <1>0, <2>1, Zenon DEF ControlShape
  <2>3. outcome[k] # "none"
    BY <1>0, <2>2, Zenon DEF RowsInv, Shapes, ChainShape, Speech
  <2> QED
    BY <2>1, <2>2, <2>3, CleanUpInv, Zenon
<1> QED
  BY <1>1, <1>2, <1>3, <1>4, <1>5, <1>6, Zenon DEF QuietReply

(* createIsolatedProviderExecutor begins the attempt, beforeNetwork        *)
(* prepares its effect *)
LEMMA AttemptInv ==
  ASSUME IInv, NEW k \in Msgs, Begin(k) \/ BeforeNetwork(k)
  PROVE  IInv'
<1>0. /\ TypeOK /\ StoreTypeOK /\ RowsInv /\ ControlShape /\ clock \in Nat
      /\ coordinator = k /\ UNCHANGED <<envVars, worldVars>>
      /\ {"auth", "dispatch", "p_error", "catch"} \subseteq Steps
  BY TimesAreNat, Zenon DEF IInv, TypeOK, Begin, BeforeNetwork, Working, Steps, AwaitPoints
<1>1. CASE pc = "begin" /\ BeginAttempt(k, clock) /\ Go("auth")
  <2>1. StoreTypeOK' /\ RowsInv'
    BY <1>0, <1>1, AttemptTypes, BeginRows, Zenon
  <2>2. /\ pc' = "auth" /\ k \notin attempts /\ attempts' = attempts \cup {k}
        /\ UNCHANGED <<coordinator, outcome, effect>>
    BY <1>1, Zenon DEF Go, BeginAttempt, CanBegin
  <2>3. outcome[k] = "none" /\ effect[k] = "none"
    BY <1>0, <2>2, Zenon DEF RowsInv, Shapes, ChainShape
  <2>4. ControlShape'
    BY <1>0, <2>2, <2>3, ProviderControl, Zenon
  <2> QED
    BY <1>0, <1>1, <2>1, <2>4, Committed, Zenon
<1>2. CASE pc = "auth" /\ PrepareProviderEffect(k, clock) /\ Go("dispatch")
  <2>1. k \in attempts /\ outcome[k] = "none" /\ effect[k] = "none"
    BY <1>0, <1>2, Zenon DEF ControlShape
  <2>2. StoreTypeOK' /\ RowsInv'
    BY <1>0, <1>2, <2>1, AttemptTypes, PrepareProviderRows, Zenon
  <2>3. /\ pc' = "dispatch" /\ effect' = [effect EXCEPT ![k] = "prepared"]
        /\ UNCHANGED <<coordinator, attempts, outcome, responses, called>>
    BY <1>0, <1>2, Zenon DEF Go, PrepareProviderEffect, worldVars
  <2>4. effect'[k] = "prepared"
    BY <1>0, <2>3, Zenon DEF StoreTypeOK
  <2>5. called[k] = 0 /\ k \notin responses
    BY <1>0, <2>1, Zenon DEF RowsInv, Shapes, ChainShape, SentShape
  <2>6. ControlShape'
    BY <1>0, <2>1, <2>3, <2>4, <2>5, ProviderControl, Zenon
  <2> QED
    BY <1>0, <1>2, <2>2, <2>6, Committed, Zenon
<1>3. CASE pc = "begin" /\ UNCHANGED storeVars /\ Go("catch")
  <2>1. pc' = "catch" /\ coordinator' = k
    BY <1>0, <1>3, Zenon DEF Go, storeVars
  <2>2. ControlShape'
    BY <2>1, HeldControl, Zenon
  <2> QED
    BY <1>0, <1>3, <2>2, Moved, Zenon
<1>4. CASE pc = "auth" /\ UNCHANGED storeVars /\ Go("p_error")
  <2>1. k \in attempts /\ outcome[k] = "none"
    BY <1>0, <1>4, Zenon DEF ControlShape
  <2>2. pc' = "p_error" /\ UNCHANGED <<coordinator, attempts, outcome>>
    BY <1>4, Zenon DEF Go, storeVars
  <2>3. ControlShape'
    BY <1>0, <2>1, <2>2, ProviderControl, Zenon
  <2> QED
    BY <1>0, <1>4, <2>3, Moved, Zenon
<1> QED
  BY <1>1, <1>2, <1>3, <1>4, Zenon DEF Begin, BeforeNetwork, Working

(* The phase of an unfinished attempt is one of the failure phases. *)
LEMMA PhaseOfFails ==
  ASSUME NEW k, k \in responses => effect[k] # "none"
  PROVE  PhaseOf(k) \in FailurePhases
  BY Zenon DEF PhaseOf, FailurePhases

(* responseReceived, the outcome of a whole completion, and the error that *)
(* the rows support *)
LEMMA OutcomeInv ==
  ASSUME IInv, NEW k \in Msgs, ResponseReceived(k) \/ Completed(k) \/ ProviderError(k)
  PROVE  IInv'
<1>0. /\ TypeOK /\ StoreTypeOK /\ RowsInv /\ ControlShape /\ clock \in Nat
      /\ coordinator = k /\ UNCHANGED <<envVars, worldVars>>
      /\ pc \in {"calling", "streaming", "p_error"}
      /\ {"streaming", "speak", "provider_failed", "p_error", "catch"} \subseteq Steps
  BY TimesAreNat, Zenon DEF IInv, TypeOK, ResponseReceived, Completed, ProviderError, Working,
     Steps, AwaitPoints
<1>1. k \in attempts /\ outcome[k] = "none"
  BY <1>0, Zenon DEF ControlShape
<1>2. CASE pc = "calling" /\ RecordResponse(k, clock) /\ Go("streaming")
  <2>1. effect[k] = "prepared" /\ called[k] = 1
    BY <1>0, <1>2, Zenon DEF ControlShape
  <2>2. StoreTypeOK' /\ RowsInv'
    BY <1>0, <1>1, <1>2, <2>1, AttemptTypes, ResponseRows, Zenon
  <2>3. /\ pc' = "streaming" /\ responses' = responses \cup {k}
        /\ UNCHANGED <<coordinator, attempts, outcome, effect, called>>
    BY <1>0, <1>2, Zenon DEF Go, RecordResponse, worldVars
  <2>4. ControlShape'
    BY <1>0, <1>1, <2>1, <2>3, ProviderControl, Zenon
  <2> QED
    BY <1>0, <1>2, <2>2, <2>4, Committed, Zenon
<1>3. CASE RecordOutcome(k, "success", clock) /\ Go("speak")
  <2>1. StoreTypeOK' /\ RowsInv'
    BY <1>0, <1>3, OutcomeTypes, OutcomeRows, Zenon
  <2>2. /\ pc' = "speak" /\ outcome' = [outcome EXCEPT ![k] = "success"]
        /\ UNCHANGED <<coordinator, speechEffect, receipt>>
    BY <1>3, Zenon DEF Go, RecordOutcome
  <2>3. Speech(k)'
    BY <1>0, <2>2, Zenon DEF StoreTypeOK, Speech
  <2>4. speechEffect[k] = "none" /\ receipt[k] = "none"
    BY <1>0, <1>1, Zenon DEF RowsInv, Shapes, ChainShape, Speech
  <2>5. ControlShape'
    BY <1>0, <2>2, <2>3, <2>4, SpeechControl, Zenon DEF Speech
  <2> QED
    BY <1>0, <1>3, <2>1, <2>5, Committed, Zenon
<1>4. CASE RecordOutcome(k, PhaseOf(k), clock) /\ Go("provider_failed")
  <2>1. PhaseOf(k) \in FailurePhases
    BY <1>0, PhaseOfFails, Zenon DEF RowsInv, Shapes, ChainShape
  <2>2. StoreTypeOK' /\ RowsInv'
    BY <1>0, <1>4, <2>1, OutcomeTypes, OutcomeRows, Zenon
  <2>3. /\ pc' = "provider_failed" /\ outcome' = [outcome EXCEPT ![k] = PhaseOf(k)]
        /\ coordinator' = coordinator
    BY <1>4, Zenon DEF Go, RecordOutcome
  <2>4. outcome'[k] = PhaseOf(k) /\ PhaseOf(k) \notin {"none", "success"}
    BY <1>0, <2>1, <2>3, Zenon DEF StoreTypeOK, FailurePhases
  <2>5. ControlShape'
    BY <1>0, <2>3, <2>4, FailedControl, Zenon
  <2> QED
    BY <1>0, <1>4, <2>2, <2>5, Committed, Zenon
<1>5. CASE UNCHANGED storeVars /\ (Go("p_error") \/ Go("catch"))
  <2>1. pc' \in {"p_error", "catch"} /\ UNCHANGED <<coordinator, attempts, outcome>>
    BY <1>5, Zenon DEF Go, storeVars
  <2>2. ControlShape'
    BY <1>0, <1>1, <2>1, ProviderControl, HeldControl, Zenon
  <2> QED
    BY <1>0, <1>5, <2>2, Moved, Zenon
<1> QED
  BY <1>2, <1>3, <1>4, <1>5, Zenon DEF ResponseReceived, Completed, ProviderError, Working

(* The transport prepares the speech effect, the reply is known to be in   *)
(* the channel, or the Discord executor records the failure *)
LEMMA SpeechInv ==
  ASSUME IInv, NEW k \in Msgs, BeforeDispatch(k) \/ PostReturns(k) \/ SpeechError(k)
  PROVE  IInv'
<1>0. /\ TypeOK /\ StoreTypeOK /\ RowsInv /\ ControlShape /\ clock \in Nat
      /\ coordinator = k /\ UNCHANGED <<envVars, worldVars>>
      /\ pc \in {"speak", "posting", "s_error"}
      /\ {"send", "s_error", "catch", "speech_failed", "reconcile", "assemble"} \subseteq Steps
  BY TimesAreNat, Zenon DEF IInv, TypeOK, BeforeDispatch, PostReturns, SpeechError, Working,
     Steps
<1>1. Speech(k) /\ receipt[k] = "none"
  BY <1>0, Zenon DEF ControlShape
<1>2. CASE pc = "speak" /\ PrepareSpeechEffect(k, clock) /\ Go("send")
  <2>1. StoreTypeOK' /\ RowsInv'
    BY <1>0, <1>2, SpeechTypes, PrepareSpeechRows, Zenon
  <2>2. /\ pc' = "send" /\ speechEffect' = [speechEffect EXCEPT ![k] = "prepared"]
        /\ UNCHANGED <<coordinator, outcome, receipt, posted, inflight>>
    BY <1>0, <1>2, Zenon DEF Go, PrepareSpeechEffect, worldVars
  <2>3. speechEffect'[k] = "prepared"
    BY <1>0, <2>2, Zenon DEF StoreTypeOK
  <2>4. speechEffect[k] = "none"
    BY <1>0, <1>2, Zenon DEF ControlShape
  <2>5. posted[k] = 0 /\ k \notin inflight
    BY <1>0, <2>4, Zenon DEF RowsInv, Shapes, SentShape
  <2>6. ControlShape'
    BY <1>0, <1>1, <2>2, <2>3, <2>5, SpeechControl, Zenon DEF Speech
  <2> QED
    BY <1>0, <1>2, <2>1, <2>6, Committed, Zenon
<1>3. CASE posted[k] > 0 /\ CompleteObserved(k, clock) /\ Go(ret)
  <2>1. StoreTypeOK' /\ RowsInv'
    BY <1>0, <1>3, CompleteTypes, CompleteRows, Zenon
  <2>2. pc' = ret /\ ret' = ret /\ coordinator' \notin Msgs
    BY <1>3, MsgsAssumption, Zenon DEF Go, CompleteObserved
  <2>3. ret \in {"reconcile", "assemble"}
    BY <1>0, Zenon DEF TypeOK
  <2>4. ControlShape'
    BY <2>2, <2>3, FreeControl, Zenon
  <2> QED
    BY <1>0, <1>3, <2>1, <2>3, <2>4, Committed, Zenon
<1>4. CASE RecordSpeechFailure(k, Disposition(k), clock) /\ Go("speech_failed")
  <2>1. StoreTypeOK' /\ RowsInv'
    BY <1>0, <1>4, SpeechTypes, SpeechFailureRows, Zenon
  <2>2. /\ pc' = "speech_failed" /\ receipt' = [receipt EXCEPT ![k] = Disposition(k)]
        /\ coordinator' = coordinator
    BY <1>4, Zenon DEF Go, RecordSpeechFailure
  <2>3. receipt'[k] # "none"
    BY <1>0, <2>2, Zenon DEF StoreTypeOK, Disposition
  <2>4. ControlShape'
    BY <1>0, <2>2, <2>3, FailedControl, Zenon
  <2> QED
    BY <1>0, <1>4, <2>1, <2>4, Committed, Zenon
<1>5. CASE UNCHANGED storeVars /\ (Go("s_error") \/ Go("catch"))
  <2>1. pc' \in {"s_error", "catch"} /\ UNCHANGED <<coordinator, outcome, receipt>>
    BY <1>5, Zenon DEF Go, storeVars
  <2>2. ControlShape'
    BY <1>0, <1>1, <2>1, SpeechControl, HeldControl, Zenon DEF Speech
  <2> QED
    BY <1>0, <1>5, <2>2, Moved, Zenon
<1> QED
  BY <1>2, <1>3, <1>4, <1>5, Zenon DEF BeforeDispatch, PostReturns, SpeechError, Working

(* The cleanup gives an unfinished attempt its outcome and an unfinished   *)
(* speech its receipt *)
LEMMA CleanInv ==
  ASSUME IInv, NEW k \in Msgs, CleanProvider(k) \/ CleanSpeech(k)
  PROVE  IInv'
<1>0. /\ TypeOK /\ StoreTypeOK /\ RowsInv /\ ControlShape /\ at \in Nat
      /\ coordinator = k /\ UNCHANGED <<envVars, worldVars>>
      /\ pc \in {"c_provider", "c_speech"} /\ {"c_speech", "c_recover"} \subseteq Steps
  BY TimesAreNat, Zenon DEF IInv, TypeOK, CleanProvider, CleanSpeech, Working, Steps
<1>1. stamp[k] <= at /\ at <= at
  <2>1. stamp[k] <= at
    BY <1>0, Zenon DEF ControlShape
  <2> QED
    BY <1>0, <2>1, SMT
<1>2. pc = "c_speech" => (k \in attempts => outcome[k] # "none")
  BY <1>0, Zenon DEF ControlShape
<1>3. CASE RecordOutcome(k, PhaseOf(k), at) /\ Go("c_speech")
  <2>1. PhaseOf(k) \in FailurePhases
    BY <1>0, PhaseOfFails, Zenon DEF RowsInv, Shapes, ChainShape
  <2>2. StoreTypeOK' /\ RowsInv'
    BY <1>0, <1>3, <2>1, OutcomeTypes, OutcomeRows, Zenon
  <2>3. /\ pc' = "c_speech" /\ outcome' = [outcome EXCEPT ![k] = PhaseOf(k)]
        /\ stamp' = [stamp EXCEPT ![k] = at] /\ UNCHANGED <<coordinator, at>>
    BY <1>3, Zenon DEF Go, RecordOutcome
  <2>4. outcome'[k] # "none" /\ stamp'[k] = at
    BY <1>0, <2>1, <2>3, Zenon DEF StoreTypeOK, FailurePhases
  <2>5. ControlShape'
    BY <1>0, <1>1, <2>3, <2>4, CleanControl, Zenon
  <2> QED
    BY <1>0, <1>3, <2>2, <2>5, Committed, Zenon
<1>4. CASE pc = "c_speech" /\ RecordSpeechFailure(k, Disposition(k), at) /\ Go("c_recover")
  <2>1. StoreTypeOK' /\ RowsInv'
    BY <1>0, <1>4, SpeechTypes, SpeechFailureRows, Zenon
  <2>2. /\ pc' = "c_recover" /\ receipt' = [receipt EXCEPT ![k] = Disposition(k)]
        /\ stamp' = [stamp EXCEPT ![k] = at]
        /\ UNCHANGED <<coordinator, at, attempts, outcome>>
    BY <1>4, Zenon DEF Go, RecordSpeechFailure
  <2>3. receipt'[k] # "none" /\ stamp'[k] = at
    BY <1>0, <2>2, Zenon DEF StoreTypeOK, Disposition
  <2>4. ControlShape'
    BY <1>0, <1>1, <1>2, <1>4, <2>2, <2>3, CleanControl, Zenon
  <2> QED
    BY <1>0, <1>4, <2>1, <2>4, Committed, Zenon
<1>5. CASE /\ UNCHANGED storeVars
           /\ \/ pc = "c_provider" /\ ~(k \in attempts /\ outcome[k] = "none") /\ Go("c_speech")
              \/ pc = "c_speech" /\ ~(Speech(k) /\ receipt[k] = "none") /\ Go("c_recover")
  <2>1. /\ UNCHANGED <<coordinator, attempts, outcome, receipt, stamp, at>>
        /\ \/ pc = "c_provider" /\ pc' = "c_speech"
           \/ pc = "c_speech" /\ pc' = "c_recover"
    BY <1>5, Zenon DEF Go, storeVars
  <2>2. k \in attempts => outcome[k] # "none"
    BY <1>2, <1>5, Zenon
  <2>3. pc' = "c_recover" => (Speech(k) => receipt[k] # "none")
    BY <1>5, <2>1, Zenon
  <2>4. ControlShape'
    BY <1>0, <1>1, <2>1, <2>2, <2>3, CleanControl, Zenon DEF Speech
  <2> QED
    BY <1>0, <1>5, <2>4, Moved, Zenon
<1> QED
  BY <1>3, <1>4, <1>5, Zenon DEF CleanProvider, CleanSpeech, Working, ReconcileProvider,
     ReconcileSpeech

(* The cleanup, or boot, recovers the coordinator's branch *)
LEMMA RecoverInv ==
  ASSUME IInv, BootRecover \/ CleanRecover
  PROVE  IInv'
<1>0. /\ TypeOK /\ StoreTypeOK /\ RowsInv /\ clock \in Nat /\ at \in Nat
      /\ UNCHANGED <<envVars, worldVars>> /\ {"b_effects", "c_effects"} \subseteq Steps
  BY TimesAreNat, Zenon DEF IInv, TypeOK, BootRecover, CleanRecover, Steps
<1>1. ASSUME NEW t \in Nat, RecoverBranch(t), NEW to \in {"b_effects", "c_effects"}, Go(to)
      PROVE  IInv'
  <2>1. StoreTypeOK' /\ RowsInv'
    BY <1>0, <1>1, RecoverTypes, RecoverRows, Zenon
  <2>2. pc' = to /\ coordinator' \notin Msgs
    BY <1>1, MsgsAssumption, Zenon DEF Go, RecoverBranch
  <2>3. ControlShape'
    BY <2>2, FreeControl, Zenon
  <2> QED
    BY <1>0, <1>1, <2>1, <2>3, Committed, Zenon
<1>2. CASE UNCHANGED storeVars /\ TaskFails
  BY <1>0, <1>2, Rejected, Zenon
<1> QED
  BY <1>0, <1>1, <1>2, Zenon DEF BootRecover, CleanRecover

(* drainDurableState assembles *)
LEMMA AssembleInv ==
  ASSUME IInv, Assemble
  PROVE  IInv'
<1>0. /\ TypeOK /\ StoreTypeOK /\ RowsInv /\ clock \in Nat /\ UNCHANGED <<envVars, worldVars>>
  BY TimesAreNat, Zenon DEF IInv, TypeOK, Assemble
<1>1. PICK k \in Msgs :
        \/ AssembleRequest(k, clock) /\ pc' = "begin" /\ ret' = "assemble"
           /\ UNCHANGED <<phase, at, ending, tasks>>
        \/ UNCHANGED storeVars /\ TaskFails
  BY Zenon DEF Assemble
<1>2. CASE UNCHANGED storeVars /\ TaskFails
  BY <1>0, <1>2, Rejected, Zenon
<1>3. CASE /\ AssembleRequest(k, clock) /\ pc' = "begin" /\ ret' = "assemble"
           /\ UNCHANGED <<phase, at, ending, tasks>>
  <2>1. StoreTypeOK' /\ RowsInv'
    BY <1>0, <1>3, IntakeTypes, AssembleRows, Zenon
  <2>2. TypeOK'
    BY <1>0, <1>3, <2>1, Zenon DEF TypeOK, Steps, envVars, worldVars
  <2>3. branch[k] = "none" /\ coordinator' = k /\ attempts' = attempts
    BY <1>3, Zenon DEF AssembleRequest, CanAssemble, OldestPending, Pending
  <2>4. k \notin attempts
    BY <1>0, <2>3, Zenon DEF RowsInv, Shapes, ChainShape
  <2>5. ControlShape'
    BY <1>3, <2>3, <2>4, HeldControl, Zenon
  <2> QED
    BY <2>1, <2>2, <2>5, Zenon DEF IInv
<1> QED
  BY <1>1, <1>2, <1>3, Zenon

(* recordInbound *)
LEMMA InboundInv ==
  ASSUME IInv, NEW k \in Msgs, Inbound(k)
  PROVE  IInv'
<1>0. /\ TypeOK /\ StoreTypeOK /\ RowsInv /\ ControlShape /\ clock \in Nat
      /\ UNCHANGED <<phase, pc, ret, at, ending, clock, backs, crashes, worldVars>>
      /\ deliveries < MaxDeliveries /\ deliveries' = deliveries + 1 /\ tasks' = tasks + 1
      /\ RecordNewInbound(k, clock) \/ UNCHANGED storeVars
  BY TimesAreNat, Zenon DEF IInv, TypeOK, Inbound, RecordKnownInbound
<1>1. deliveries' \in 0 .. MaxDeliveries /\ tasks' \in Nat
  BY <1>0, BoundsAssumption, SMT DEF TypeOK
<1>2. StoreTypeOK' /\ RowsInv'
  <2>1. CASE RecordNewInbound(k, clock)
    BY <1>0, <2>1, IntakeTypes, InboundRows, Zenon
  <2>2. CASE UNCHANGED storeVars
    <3>1. StoreTypeOK'
      BY <1>0, <2>2, Zenon DEF StoreTypeOK, storeVars
    <3> QED
      BY <1>0, <2>2, <3>1, RowsStutter, Zenon
  <2> QED
    BY <1>0, <2>1, <2>2, Zenon
<1>3. TypeOK'
  BY <1>0, <1>1, <1>2, Zenon DEF TypeOK, worldVars
<1>4. ControlShape'
  <2>1. /\ UNCHANGED <<coordinator, attempts, outcome, effect>>
        /\ UNCHANGED <<responses, speechEffect, receipt, stamp>>
    BY <1>0, Zenon DEF RecordNewInbound, storeVars
  <2>2. pc = "send" => coordinator \notin inflight
    BY <1>0, Zenon DEF ControlShape
  <2> QED
    BY <1>0, <2>1, <2>2, ControlStutter, Zenon DEF worldVars
<1> QED
  BY <1>2, <1>3, <1>4, Zenon DEF IInv

(* The request and the reply leave, Discord accepts or loses the reply *)
LEMMA WorldInv ==
  ASSUME IInv, NEW k \in Msgs,
         Dispatch(k) \/ Post(k) \/ DiscordAccepts(k) \/ DiscordDrops(k)
  PROVE  IInv'
<1>0. /\ TypeOK /\ StoreTypeOK /\ RowsInv /\ ControlShape /\ UNCHANGED <<storeVars, envVars>>
      /\ called \in [Msgs -> Nat] /\ posted \in [Msgs -> Nat] /\ inflight \subseteq Msgs
      /\ called[k] \in Nat /\ posted[k] \in Nat
      /\ {"calling", "posting"} \subseteq Steps
  BY Zenon DEF IInv, TypeOK, Dispatch, Post, DiscordAccepts, DiscordDrops, Steps, AwaitPoints
<1>1. StoreTypeOK' /\ UNCHANGED <<coordinator, attempts, outcome, effect>>
      /\ UNCHANGED <<responses, speechEffect, receipt, stamp>>
  BY <1>0, Zenon DEF StoreTypeOK, storeVars
<1>2. CASE Dispatch(k)
  <2>1. /\ pc = "dispatch" /\ coordinator = k /\ called' = [called EXCEPT ![k] = @ + 1]
        /\ pc' = "calling" /\ UNCHANGED <<phase, ret, at, ending, tasks, posted, inflight>>
    BY <1>2, Zenon DEF Dispatch, Working, Go
  <2>2. /\ k \in attempts /\ outcome[k] = "none" /\ effect[k] = "prepared"
        /\ called[k] = 0 /\ k \notin responses
    BY <1>0, <2>1, Zenon DEF ControlShape
  <2>3. called' \in [Msgs -> Nat] /\ called'[k] = 1
    BY <1>0, <2>1, <2>2, SMT
  <2>4. TypeOK'
    BY <1>0, <1>1, <2>1, <2>3, Zenon DEF TypeOK, envVars
  <2>5. RowsInv'
    BY <1>0, <2>1, <2>2, WorldRows, Zenon
  <2>6. ControlShape'
    BY <1>1, <2>1, <2>2, <2>3, ProviderControl, Zenon
  <2> QED
    BY <2>4, <2>5, <2>6, Zenon DEF IInv
<1>3. CASE Post(k)
  <2>1. /\ pc = "send" /\ coordinator = k /\ inflight' = inflight \cup {k}
        /\ pc' = "posting" /\ UNCHANGED <<phase, ret, at, ending, tasks, called, posted>>
    BY <1>3, Zenon DEF Post, Working, Go
  <2>2. Speech(k) /\ receipt[k] = "none" /\ speechEffect[k] = "prepared" /\ posted[k] = 0
    BY <1>0, <2>1, Zenon DEF ControlShape
  <2>3. TypeOK'
    BY <1>0, <1>1, <2>1, Zenon DEF TypeOK, envVars
  <2>4. RowsInv'
    BY <1>0, <2>1, <2>2, WorldRows, Zenon
  <2>5. ControlShape'
    BY <1>1, <2>1, <2>2, SpeechControl, Zenon DEF Speech
  <2> QED
    BY <2>3, <2>4, <2>5, Zenon DEF IInv
<1>4. CASE DiscordAccepts(k) \/ DiscordDrops(k)
  <2>1. /\ k \in inflight /\ inflight' = inflight \ {k}
        /\ posted' = [posted EXCEPT ![k] = @ + 1] \/ UNCHANGED posted
        /\ UNCHANGED <<phase, pc, ret, at, ending, tasks, called>>
    BY <1>4, Zenon DEF DiscordAccepts, DiscordDrops, runVars
  <2>2. posted' \in [Msgs -> Nat] /\ \A m \in Msgs : m # k => posted'[m] = posted[m]
    BY <1>0, <2>1, SMT
  <2>3. TypeOK'
    BY <1>0, <1>1, <2>1, <2>2, Zenon DEF TypeOK, envVars
  <2>4. RowsInv'
    BY <1>0, <2>1, WorldRows, Zenon
  <2>5. ControlShape'
    <3>1. pc = "send" => coordinator \in Msgs /\ coordinator \notin inflight
      BY <1>0, Zenon DEF ControlShape
    <3>2. pc = "send" => posted'[coordinator] = posted[coordinator] /\ coordinator \notin inflight'
      BY <2>1, <2>2, <3>1, Zenon
    <3> QED
      BY <1>0, <1>1, <2>1, <3>2, ControlStutter, Zenon
  <2> QED
    BY <2>3, <2>4, <2>5, Zenon DEF IInv
<1> QED
  BY <1>2, <1>3, <1>4, Zenon

(* The store starts empty, the process down. *)
LEMMA InitInv == Init => IInv
<1> SUFFICES ASSUME Init PROVE IInv
  BY Zenon
<1> USE MsgsAssumption, BoundsAssumption DEF Init, StoreInit
<1>1. TypeOK
  BY DEF TypeOK, StoreTypeOK, Steps, AwaitPoints, EffectStatus, BranchStatus,
         FailurePhases, ReceiptPhases
<1>2. \A m \in Msgs : Shapes(m)
  BY DEF Shapes, ChainShape, BranchShape, SentShape, Speech
<1>3. OrderShape /\ DarkShape
  BY DEF OrderShape, DarkShape, InOrder
<1>4. ControlShape
  BY Zenon DEF ControlShape
<1> QED
  BY <1>1, <1>2, <1>3, <1>4, Zenon DEF IInv, RowsInv

(* A step of the reply in work *)
LEMMA ReplyStepInv ==
  ASSUME IInv, NEW k \in Msgs, ReplyStep(k)
  PROVE  IInv'
<1>1. CASE QuietReply(k)
  BY <1>1, QuietReplyInv, Zenon
<1>2. CASE Dispatch(k) \/ Post(k)
  BY <1>2, WorldInv, Zenon
<1>3. CASE \/ Begin(k) \/ BeforeNetwork(k) \/ ResponseReceived(k)
           \/ Completed(k) \/ ProviderError(k)
  BY <1>3, AttemptInv, OutcomeInv, Zenon
<1>4. CASE \/ BeforeDispatch(k) \/ PostReturns(k) \/ SpeechError(k)
           \/ CleanProvider(k) \/ CleanSpeech(k)
  BY <1>4, SpeechInv, CleanInv, Zenon
<1> QED
  BY <1>1, <1>2, <1>3, <1>4, Zenon DEF ReplyStep, QuietReply

(* A step that changes nothing keeps the invariant. *)
LEMMA StutterInv ==
  ASSUME IInv, UNCHANGED vars
  PROVE  IInv'
<1>1. TypeOK /\ ControlShape
  BY Zenon DEF IInv
<1>2. /\ UNCHANGED <<storeVars, worldVars>>
      /\ UNCHANGED <<phase, pc, ret, at, ending, tasks, clock, backs, crashes, deliveries>>
  BY Zenon DEF vars, runVars, envVars
<1>3. ControlShape'
  <2>1. pc = "send" => coordinator \notin inflight
    BY <1>1, Zenon DEF ControlShape
  <2> QED
    BY <1>1, <1>2, <2>1, ControlStutter, Zenon DEF storeVars, worldVars
<1> QED
  BY <1>1, <1>2, <1>3, Quiet, Zenon DEF TypeOK

(* Every step keeps the invariant. *)
LEMMA NextInv ==
  ASSUME IInv, [Next]_vars
  PROVE  IInv'
<1>1. CASE QuietStep
  BY <1>1, QuietStepInv, Zenon
<1>2. CASE BootRecover \/ CleanRecover
  BY <1>2, RecoverInv, Zenon
<1>3. CASE Assemble
  BY <1>3, AssembleInv, Zenon
<1>4. CASE \E m \in Msgs : ReplyStep(m)
  BY <1>4, ReplyStepInv, Zenon
<1>5. CASE \E m \in Msgs : Inbound(m) \/ DiscordAccepts(m) \/ DiscordDrops(m)
  BY <1>5, InboundInv, WorldInv, Zenon
<1>6. CASE UNCHANGED vars
  BY <1>6, StutterInv, Zenon
<1> QED
  BY <1>1, <1>2, <1>3, <1>4, <1>5, <1>6, Zenon DEF Next, Running, QuietStep

(* The rows, the world and the place of the running task fit together      *)
(* after any number of crashes, deliveries and clock changes.              *)
THEOREM HomeInvariance == Spec => []IInv
<1>1. Init => IInv
  BY InitInv, Zenon
<1>2. IInv /\ [Next]_vars => IInv'
  BY NextInv, Zenon
<1> QED
  BY <1>1, <1>2, PTL DEF Spec

-----------------------------------------------------------------------------
(* The provider is asked and the channel is answered at most once for a    *)
(* message: SentShape says what went out is covered by one used effect.    *)
THEOREM HomeAtMostOnce == Spec => []AtMostOnce
<1>1. IInv => AtMostOnce
  <2> SUFFICES ASSUME IInv, NEW m \in Msgs PROVE called[m] <= 1 /\ posted[m] <= 1
    BY Zenon DEF AtMostOnce
  <2>1. called[m] \in {0, 1} /\ posted[m] \in {0, 1}
    BY Zenon DEF IInv, RowsInv, Shapes, SentShape
  <2> QED
    BY <2>1, SMT
<1> QED
  BY <1>1, HomeInvariance, PTL

(* The durable receipts say only what is so of the provider and Discord.   *)
THEOREM HomeReceiptsTruthful == Spec => []ReceiptsTruthful
<1>1. IInv => ReceiptsTruthful
  <2> SUFFICES ASSUME IInv, NEW m \in Msgs
               PROVE  /\ outcome[m] = "pre_dispatch_rejected" => called[m] = 0
                      /\ outcome[m] \in {"issued", "success"} => called[m] = 1
                      /\ receipt[m] = "pre_dispatch_rejected" =>
                           posted[m] = 0 /\ m \notin inflight
                      /\ receipt[m] = "observed" => posted[m] = 1
    BY Zenon DEF ReceiptsTruthful
  <2>1. outcome[m] = "pre_dispatch_rejected" => effect[m] = "none"
    BY ZenonT(30) DEF IInv, RowsInv, Shapes, ChainShape, ProviderEffectAfter
  <2> QED
    BY <2>1, ZenonT(30) DEF IInv, RowsInv, Shapes, ChainShape, SentShape
<1> QED
  BY <1>1, HomeInvariance, PTL

(* A crashed branch never hides an unexplained call or reply.              *)
THEOREM HomeNoSilentDrop == Spec => []NoSilentDrop
<1>1. IInv => NoSilentDrop
  <2> SUFFICES ASSUME IInv, NEW m \in Msgs, branch[m] = "crashed"
               PROVE  /\ outcome[m] # "none"
                      /\ outcome[m] = "success" =>
                           receipt[m] \notin {"none", "observed"}
                      /\ effect[m] # "prepared"
                      /\ speechEffect[m] # "prepared"
                      /\ called[m] > 0 =>
                           outcome[m] # "pre_dispatch_rejected"
    BY Zenon DEF NoSilentDrop
  <2>1. outcome[m] # "none" /\ receipt[m] # "observed"
    BY Zenon DEF IInv, RowsInv, Shapes, BranchShape
  <2>2. outcome[m] \in FailurePhases \cup {"success"}
    BY <2>1, ZenonT(30) DEF IInv, TypeOK, StoreTypeOK
  <2>3. /\ effect[m] # "prepared"
        /\ outcome[m] = "pre_dispatch_rejected" => effect[m] = "none"
    BY <2>1, <2>2, ZenonT(30) DEF IInv, RowsInv, Shapes, ChainShape, ProviderEffectAfter,
                      FailurePhases
  <2>4. receipt[m] \in ReceiptPhases
    BY Zenon DEF IInv, TypeOK, StoreTypeOK
  <2>5. speechEffect[m] # "prepared"
    BY <2>1, <2>4, ZenonT(30) DEF IInv, RowsInv, Shapes, ChainShape, BranchShape, Speech,
                      ReceiptPhases
  <2>6. /\ called[m] \in {0, 1} /\ (called[m] = 1 => effect[m] # "none")
        /\ Speech(m) => receipt[m] # "none"
    BY Zenon DEF IInv, RowsInv, Shapes, BranchShape, SentShape
  <2>7. called[m] > 0 => outcome[m] # "pre_dispatch_rejected"
    BY <2>3, <2>6, SMT
  <2> QED
    BY <2>1, <2>3, <2>5, <2>6, <2>7, Zenon DEF Speech
<1> QED
  BY <1>1, HomeInvariance, PTL

(* Once the cleanup has asserted the chronology, no trigger refuses one of *)
(* its transactions, unless there is no attempt to explain the crash with. *)
THEOREM HomeCleanupGoesThrough == Spec => []CleanupGoesThrough
<1>1. IInv => CleanupGoesThrough
  <2> SUFFICES ASSUME IInv PROVE CleanupGoesThrough
    BY Zenon
  <2> DEFINE k == coordinator
  <2>1. pc \in {"c_provider", "c_speech", "c_recover"} =>
          k \in Msgs /\ stamp[k] <= at
    BY ZenonT(30) DEF IInv, ControlShape
  <2>2. k \in Msgs => Current(k) /\ coordBase = head /\ base[k] = head
    BY Zenon DEF IInv, RowsInv, OrderShape, Shapes, BranchShape, Current
  <2>3. ASSUME pc = "c_provider", k \in attempts, outcome[k] = "none"
        PROVE  CanRecordOutcome(k, PhaseOf(k), at)
    <3>1. effect[k] \in {"none", "prepared"} /\ PhaseOf(k) \in FailurePhases
      BY <2>1, <2>3, PhaseOfFails, ZenonT(30) DEF IInv, RowsInv, Shapes, ChainShape
    <3> QED
      BY <2>1, <2>3, <3>1, Zenon DEF CanRecordOutcome, OutcomeLineage, FailurePhases
  <2>4. ASSUME pc = "c_speech", Speech(k), receipt[k] = "none"
        PROVE  CanRecordSpeechFailure(k, Disposition(k), at)
    <3>1. effect[k] = "observed" /\ speechEffect[k] \in {"none", "prepared"}
      BY <2>1, <2>4, ZenonT(30) DEF IInv, RowsInv, Shapes, ChainShape, Speech,
                        ProviderEffectAfter
    <3> QED
      BY <2>1, <2>2, <2>4, <3>1, ZenonT(30) DEF CanRecordSpeechFailure, ReceiptLineage,
                                    Disposition
  <2>5. ASSUME pc = "c_recover", k \in attempts
        PROVE  Chronology(at) /\ CanRecover(at)
    <3>1. outcome[k] # "none" /\ (Speech(k) => receipt[k] # "none")
      BY <2>5, ZenonT(30) DEF IInv, ControlShape
    <3>2. branch[k] = "running" /\ receipt[k] # "observed"
      BY <2>1, <2>5, ZenonT(30) DEF IInv, RowsInv, Shapes, BranchShape
    <3>3. receipt[k] \in ReceiptPhases
      BY <2>1, <2>5, ZenonT(30) DEF IInv, TypeOK, StoreTypeOK
    <3>4. SpeechMayCrash(k) /\ speechEffect[k] # "prepared"
      BY <2>1, <2>5, <3>1, <3>2, <3>3, ZenonT(30)
      DEF IInv, RowsInv, Shapes, ChainShape, SpeechMayCrash, Speech,
          ReceiptPhases
    <3>5. InvocationMayCrash(k, at)
      BY <2>1, <2>5, <3>1, <3>4, ZenonT(30)
      DEF IInv, RowsInv, Shapes, ChainShape, InvocationMayCrash
    <3> QED
      BY <2>1, <2>2, <2>5, <3>2, <3>4, <3>5, ZenonT(30)
      DEF CanRecover, AttachedToHead, Chronology
  <2> QED
    BY <2>1, <2>3, <2>4, <2>5, Zenon DEF CleanupGoesThrough
<1> QED
  BY <1>1, HomeInvariance, PTL

-----------------------------------------------------------------------------
(* The continuation head *)

Yielded == {m \in Msgs : branch[m] = "yielded"}

(* Which transaction of a step can move a branch or the head *)
LEMMA BranchSteps ==
  ASSUME IInv, [Next]_vars
  PROVE  \/ UNCHANGED <<branch, head>>
         \/ \E k \in Msgs : AssembleRequest(k, clock)
         \/ \E k \in Msgs : CompleteObserved(k, clock)
         \/ RecoverBranch(clock) \/ RecoverBranch(at)
<1> USE DEF storeVars
<1>1. CASE QuietStep
  BY <1>1, Zenon DEF QuietStep, Boot, BootEffects, StartTask, ReconcileDone,
              DrainDone, CleanEffects, Tick, ClockSetBack, Crash
<1>2. CASE BootRecover \/ CleanRecover
  BY <1>2, Zenon DEF BootRecover, CleanRecover
<1>3. CASE Assemble
  BY <1>3, Zenon DEF Assemble
<1>4. ASSUME NEW k \in Msgs, ReplyStep(k)
      PROVE  UNCHANGED <<branch, head>> \/ CompleteObserved(k, clock)
  <2>1. CASE QuietReply(k)
    BY ZenonT(60), <2>1 DEF QuietReply, ReconcileAttempted, ReconcileFresh, AuthFails,
                CallFails, StreamFails, Catch, ProviderFailed, Muted,
                PostFails, SpeechFailed, CleanUp
  <2>2. CASE \/ Dispatch(k) \/ Post(k) \/ PostReturns(k)
             \/ Begin(k) \/ BeforeNetwork(k)
    BY ZenonT(60), <2>2 DEF Dispatch, Post, PostReturns, Begin, BeginAttempt,
                BeforeNetwork, PrepareProviderEffect
  <2>3. CASE \/ ResponseReceived(k) \/ Completed(k) \/ ProviderError(k)
             \/ CleanProvider(k)
    BY <2>3, Zenon DEF ResponseReceived, RecordResponse, Completed, RecordOutcome,
                ProviderError, CleanProvider, ReconcileProvider
  <2>4. CASE BeforeDispatch(k) \/ SpeechError(k) \/ CleanSpeech(k)
    BY <2>4, Zenon DEF BeforeDispatch, PrepareSpeechEffect, SpeechError,
                CleanSpeech, ReconcileSpeech, RecordSpeechFailure
  <2> QED
    BY <1>4, <2>1, <2>2, <2>3, <2>4, Zenon DEF ReplyStep, QuietReply
<1>5. CASE \E m \in Msgs : Inbound(m) \/ DiscordAccepts(m) \/ DiscordDrops(m)
  BY <1>5, Zenon DEF Inbound, RecordNewInbound, RecordKnownInbound, DiscordAccepts,
              DiscordDrops
<1>6. CASE UNCHANGED vars
  BY <1>6, Zenon DEF vars
<1> QED
  BY <1>1, <1>2, <1>3, <1>4, <1>5, <1>6, Zenon DEF Next, Running, QuietStep

(* The head of the activation counts the branches that yielded: only       *)
(* RecordOutcome of a success moves it, by one.                            *)
LEMMA CountStep ==
  ASSUME IInv, [Next]_vars, head = Cardinality(Yielded)
  PROVE  head' = Cardinality(Yielded')
<1>1. CASE UNCHANGED <<branch, head>>
  BY <1>1, Zenon DEF Yielded
<1>2. CASE \E k \in Msgs : AssembleRequest(k, clock)
  <2>1. Yielded' = Yielded /\ head' = head
    <3>1. PICK k \in Msgs : /\ branch[k] = "none" /\ head' = head
                            /\ branch' = [branch EXCEPT ![k] = "running"]
      BY <1>2, Zenon DEF AssembleRequest, CanAssemble, OldestPending, Pending
    <3>2. branch \in [Msgs -> BranchStatus]
      BY Zenon DEF IInv, TypeOK, StoreTypeOK
    <3> QED
      BY <3>1, <3>2, SMT DEF Yielded
  <2> QED
    BY <2>1, ZenonT(30)
<1>3. CASE RecoverBranch(clock) \/ RecoverBranch(at)
  <2>1. Yielded' = Yielded /\ head' = head
    BY <1>3, ZenonT(30) DEF RecoverBranch, CanRecover, Yielded, IInv, TypeOK,
                StoreTypeOK, RowsInv, Shapes, BranchShape
  <2> QED
    BY <2>1, Zenon
<1>4. ASSUME NEW k \in Msgs, CompleteObserved(k, clock)
      PROVE  head' = Cardinality(Yielded')
  <2>1. k \notin Yielded /\ Yielded' = Yielded \cup {k} /\ head' = head + 1
    BY <1>4, Zenon DEF CompleteObserved, CanComplete, HeadMayAdvance, Yielded, IInv,
                TypeOK, StoreTypeOK, ReceiptLineage, Current
  <2>2. IsFiniteSet(Yielded)
    BY MsgsAssumption, FS_Subset, Zenon DEF Yielded
  <2> QED
    BY <2>1, <2>2, FS_AddElement, Zenon
<1> QED
  BY <1>1, <1>2, <1>3, <1>4, BranchSteps, Zenon

(* The continuation head counts the answered messages, the coordinator     *)
(* agrees with it and holds exactly the running branches.                  *)
THEOREM HomeHeadCounts == Spec => []HeadCounts
<1> DEFINE Counted == head = Cardinality(Yielded)
<1>1. Init => Counted
  <2> SUFFICES ASSUME Init PROVE Yielded = {}
    BY FS_EmptySet, Zenon DEF Init, StoreInit
  <2> QED
    BY Zenon DEF Init, StoreInit, Yielded
<1>2. IInv /\ Counted /\ [Next]_vars => Counted'
  BY CountStep, Zenon
<1>3. IInv /\ Counted => HeadCounts
  BY MsgsAssumption, ZenonT(30) DEF HeadCounts, Yielded, IInv, RowsInv, OrderShape,
                        Shapes, BranchShape, TypeOK, StoreTypeOK
<1> HIDE DEF Counted
<1> QED
  BY <1>1, <1>2, <1>3, HomeInvariance, PTL DEF Spec


-----------------------------------------------------------------------------

(* The rows and counters that the mapping reads *)
LEMMA MappedStutter ==
  ASSUME UNCHANGED <<seq, nextSeq, admittedAt, branch, called, posted>>,
         UNCHANGED Released
  PROVE  UNCHANGED Promise!replyVars
<1>1. ReplyState' = ReplyState
  BY DEF ReplyState, StateOf
<1> QED
  BY <1>1, Zenon DEF Promise!replyVars

(* The state of a message from its rows *)
LEMMA StateFromRows ==
  ASSUME IInv, NEW m \in Msgs
  PROVE  /\ ReplyState[m] = "new" <=> seq[m] = 0
         /\ ReplyState[m] = "waiting" <=> admittedAt[m] # 0 /\ branch[m] = "none"
         /\ ReplyState[m] = "taken" <=> branch[m] = "running"
<1>1. /\ seq[m] = 0 => admittedAt[m] = 0
      /\ admittedAt[m] = 0 => branch[m] = "none"
      /\ branch[m] \in BranchStatus
  BY Zenon DEF IInv, TypeOK, StoreTypeOK, RowsInv, Shapes, ChainShape
<1> QED
  BY <1>1, ZenonT(30) DEF ReplyState, StateOf, BranchStatus

(* A step that touches the rows of one message only *)
LEMMA StateStep ==
  ASSUME NEW k \in Msgs, NEW v, StateOf(k)' = v,
         \A m \in Msgs \ {k} : /\ seq'[m] = seq[m]
                               /\ admittedAt'[m] = admittedAt[m]
                               /\ branch'[m] = branch[m]
  PROVE  ReplyState' = [ReplyState EXCEPT ![k] = v]
<1>1. ASSUME NEW m \in Msgs \ {k} PROVE StateOf(m)' = StateOf(m)
  BY Zenon DEF StateOf
<1> QED
  BY <1>1, Zenon DEF ReplyState

(* recordInbound *)
LEMMA InboundMaps ==
  ASSUME IInv, NEW k \in Msgs, Inbound(k)
  PROVE  Promise!Accept(k) \/ UNCHANGED Promise!replyVars
<1>1. CASE RecordKnownInbound(k)
  BY <1>1, MappedStutter, Zenon DEF Inbound, RecordKnownInbound, storeVars,
                             worldVars, Released
<1>2. CASE RecordNewInbound(k, clock)
  <2> USE <1>2 DEF Inbound, RecordNewInbound, worldVars
  <2>1. /\ seq[k] = 0 /\ nextSeq \in Nat \ {0} /\ clock \in Nat \ {0}
        /\ seq' = [seq EXCEPT ![k] = nextSeq] /\ nextSeq' = nextSeq + 1
        /\ admittedAt' = IF k \in HomeMsgs
                           THEN [admittedAt EXCEPT ![k] = clock]
                           ELSE admittedAt
    <3>1. /\ nextSeq \in Nat \ {0} /\ clock \in 1 .. MaxTime /\ clock >= ActivatedAt
      BY Zenon DEF IInv, TypeOK, StoreTypeOK
    <3>2. clock \in Nat \ {0}
      BY <3>1, SMT
    <3> QED
      BY <3>1, <3>2, Zenon DEF IngressLineage
  <2>2. admittedAt[k] = 0 /\ branch[k] = "none"
    BY <2>1, ZenonT(30) DEF IInv, RowsInv, Shapes, ChainShape
  <2>3. StateOf(k)' = IF k \in HomeMsgs THEN "waiting" ELSE "ignored"
    BY <2>1, <2>2, ZenonT(30) DEF StateOf, IInv, TypeOK, StoreTypeOK
  <2>4. \A m \in Msgs \ {k} : /\ seq'[m] = seq[m]
                              /\ admittedAt'[m] = admittedAt[m]
                              /\ branch'[m] = branch[m]
    BY <2>1, Zenon DEF IInv, TypeOK, StoreTypeOK
  <2>5. ReplyState' = [ReplyState EXCEPT ![k] = IF k \in HomeMsgs
                                       THEN "waiting" ELSE "ignored"]
    BY <2>3, <2>4, StateStep, Zenon
  <2>6. UNCHANGED Released
    BY Zenon DEF Released
  <2>7. ReplyState[k] = "new"
    BY <2>1, StateFromRows, ZenonT(30)
  <2>8. nextSeq' - 1 = (nextSeq - 1) + 1 /\ seq' = [seq EXCEPT ![k] = nextSeq' - 1]
    BY <2>1
  <2> QED
    BY <2>5, <2>6, <2>7, <2>8, ZenonT(30) DEF Promise!Accept
<1> QED
  BY <1>1, <1>2, Zenon DEF Inbound

(* drainDurableState takes the oldest pending message *)
LEMMA AssembleMaps ==
  ASSUME IInv, Assemble
  PROVE  (\E k \in Msgs : Promise!Take(k)) \/ UNCHANGED Promise!replyVars
<1>1. CASE UNCHANGED storeVars
  BY <1>1, MappedStutter, Zenon DEF Assemble, storeVars, worldVars, Released
<1>2. ASSUME NEW k \in Msgs, AssembleRequest(k, clock)
      PROVE  Promise!Take(k)
  <2> USE <1>2 DEF Assemble, AssembleRequest, CanAssemble, worldVars
  <2>1. /\ admittedAt[k] # 0 /\ branch[k] = "none"
        /\ \A n \in Msgs : admittedAt[n] # 0 /\ branch[n] = "none" =>
                            seq[k] <= seq[n]
    BY Zenon DEF OldestPending, Pending
  <2>2. \A n \in Msgs : branch[n] # "running"
    BY MsgsAssumption, Zenon DEF CoordinatorFree, IInv, RowsInv, Shapes, BranchShape
  <2>3. branch' = [branch EXCEPT ![k] = "running"] /\ seq[k] # 0
    BY <2>1, ZenonT(30) DEF IInv, RowsInv, Shapes, ChainShape
  <2>4. StateOf(k)' = "taken"
    BY <2>1, <2>3, Zenon DEF StateOf, IInv, TypeOK, StoreTypeOK
  <2>5. ReplyState' = [ReplyState EXCEPT ![k] = "taken"]
    BY <2>3, <2>4, StateStep, ZenonT(30) DEF IInv, TypeOK, StoreTypeOK
  <2>6. UNCHANGED <<Released, seq, nextSeq, called, posted>>
    BY Zenon DEF Released
  <2> QED
    BY <2>1, <2>2, <2>5, <2>6, StateFromRows, ZenonT(30) DEF Promise!Take
<1> QED
  BY <1>1, <1>2, Zenon DEF Assemble

(* The request leaves for the provider *)
LEMMA DispatchMaps ==
  ASSUME IInv, NEW k \in Msgs, Dispatch(k)
  PROVE  Promise!Ask(k)
<1> USE DEF Dispatch, Working, storeVars
<1>1. called[k] = 0 /\ called' = [called EXCEPT ![k] = 1]
  <2>1. called[k] = 0
    BY Zenon DEF IInv, ControlShape
  <2>2. 0 + 1 = 1
    OBVIOUS
  <2> QED
    BY <2>1, <2>2, Zenon
<1>2. ReplyState[k] = "taken"
  BY StateFromRows, Zenon DEF IInv, RowsInv, Shapes, BranchShape
<1>3. UNCHANGED <<ReplyState, Released, seq, nextSeq, posted>>
  BY DEF ReplyState, StateOf, Released
<1> QED
  BY <1>1, <1>2, <1>3, ZenonT(30) DEF Promise!Ask

(* The speech effect becomes durable: from here on the reply may go out *)
LEMMA ReleaseMaps ==
  ASSUME IInv, NEW k \in Msgs, BeforeDispatch(k)
  PROVE  Promise!Release(k) \/ UNCHANGED Promise!replyVars
<1>1. CASE UNCHANGED storeVars
  BY <1>1, MappedStutter, Zenon DEF BeforeDispatch, storeVars, worldVars, Released
<1>2. CASE PrepareSpeechEffect(k, clock)
  <2> USE <1>2 DEF BeforeDispatch, PrepareSpeechEffect, worldVars
  <2>1. /\ speechEffect[k] = "none" /\ Speech(k) /\ branch[k] = "running"
        /\ speechEffect' = [speechEffect EXCEPT ![k] = "prepared"]
    BY Zenon DEF CanPrepareSpeech, SpeechEffectAuthorized, Current
  <2>2. called[k] = 1
    BY <2>1, ZenonT(30) DEF IInv, RowsInv, Shapes, ChainShape, SentShape, Speech
  <2>3. k \notin Released /\ Released' = Released \cup {k}
    BY <2>1, ZenonT(30) DEF Released, IInv, TypeOK, StoreTypeOK
  <2>4. UNCHANGED <<ReplyState, seq, nextSeq, called, posted>>
    BY DEF ReplyState, StateOf
  <2> QED
    BY <2>1, <2>2, <2>3, <2>4, StateFromRows, Zenon DEF Promise!Release
<1> QED
  BY <1>1, <1>2, Zenon DEF BeforeDispatch

(* Discord accepts the reply, in time or after everybody has given up *)
LEMMA AcceptsMaps ==
  ASSUME IInv, NEW k \in Msgs, DiscordAccepts(k)
  PROVE  Promise!Say(k)
<1> USE DEF DiscordAccepts, storeVars
<1>1. posted[k] = 0 /\ speechEffect[k] # "none"
  BY ZenonT(30) DEF IInv, RowsInv, Shapes, SentShape
<1>2. posted' = [posted EXCEPT ![k] = 1]
  BY <1>1 DEF IInv, TypeOK
<1>3. UNCHANGED <<ReplyState, Released, seq, nextSeq, called>>
  BY DEF ReplyState, StateOf, Released
<1> QED
  BY <1>1, <1>2, <1>3, Zenon DEF Promise!Say, Released

(* The reply is observed and the branch yields *)
LEMMA AnswerMaps ==
  ASSUME IInv, NEW k \in Msgs, PostReturns(k)
  PROVE  Promise!Answer(k) \/ UNCHANGED Promise!replyVars
<1>1. CASE UNCHANGED storeVars
  BY <1>1, MappedStutter, Zenon DEF PostReturns, storeVars, worldVars, Released
<1>2. CASE CompleteObserved(k, clock)
  <2> USE <1>2 DEF PostReturns, CompleteObserved, worldVars
  <2>1. /\ branch[k] = "running" /\ speechEffect[k] = "prepared"
        /\ branch' = [branch EXCEPT ![k] = "yielded"]
        /\ speechEffect' = [speechEffect EXCEPT ![k] = "observed"]
    BY ZenonT(30) DEF CanComplete, ReceiptLineage, Current
  <2>2. admittedAt[k] # 0 /\ seq[k] # 0 /\ posted[k] = 1
    <3>1. ChainShape(k) /\ SentShape(k) /\ posted[k] > 0
      BY Zenon DEF IInv, RowsInv, Shapes
    <3>2. posted[k] \in Nat
      BY Zenon DEF IInv, TypeOK
    <3> HIDE <1>2 DEF PostReturns, CompleteObserved, worldVars
    <3> QED
      BY <2>1, <3>1, <3>2 DEF ChainShape, SentShape
  <2>3. StateOf(k)' = "answered"
    BY <2>1, <2>2, ZenonT(30) DEF StateOf, IInv, TypeOK, StoreTypeOK
  <2>4. ReplyState' = [ReplyState EXCEPT ![k] = "answered"]
    BY <2>1, <2>3, StateStep, ZenonT(30) DEF IInv, TypeOK, StoreTypeOK
  <2>5. UNCHANGED Released
    BY <2>1, Zenon DEF Released, IInv, TypeOK, StoreTypeOK
  <2>6. UNCHANGED <<seq, nextSeq, called, posted>>
    BY Zenon
  <2> QED
    BY <2>1, <2>2, <2>4, <2>5, <2>6, StateFromRows, ZenonT(30) DEF Promise!Answer
<1> QED
  BY <1>1, <1>2, Zenon DEF PostReturns

(* Recovery fails the message whose branch holds the coordinator *)
LEMMA RecoverMaps ==
  ASSUME IInv, BootRecover \/ CleanRecover
  PROVE  (\E k \in Msgs : Promise!Fail(k)) \/ UNCHANGED Promise!replyVars
<1> USE DEF BootRecover, CleanRecover, worldVars
<1>1. CASE UNCHANGED storeVars
  BY <1>1, MappedStutter, Zenon DEF storeVars, Released
<1>2. ASSUME NEW t \in {clock, at}, RecoverBranch(t), coordinator \notin Msgs
      PROVE  UNCHANGED Promise!replyVars
  BY <1>2, MappedStutter, Zenon DEF RecoverBranch, Released
<1>3. ASSUME NEW t \in {clock, at}, RecoverBranch(t), coordinator \in Msgs
      PROVE  Promise!Fail(coordinator)
  <2> DEFINE k == coordinator
  <2>1. branch[k] = "running" /\ branch' = [branch EXCEPT ![k] = "crashed"]
    BY <1>3, Zenon DEF RecoverBranch, IInv, RowsInv, Shapes, BranchShape
  <2>2. admittedAt[k] # 0 /\ seq[k] # 0
    BY ZenonT(60), <1>3, <2>1 DEF IInv, RowsInv, Shapes, ChainShape
  <2>3. PICK m \in Msgs : m = k
    BY <1>3, Zenon
  <2>4. StateOf(m)' = "failed"
    BY <1>3, <2>1, <2>2, <2>3, ZenonT(30) DEF StateOf, IInv, TypeOK, StoreTypeOK,
                                  RecoverBranch
  <2>5. ReplyState' = [ReplyState EXCEPT ![m] = "failed"]
    BY <1>3, <2>1, <2>3, <2>4, StateStep, ZenonT(30) DEF IInv, TypeOK, StoreTypeOK,
                                             RecoverBranch
  <2>6. UNCHANGED <<Released, seq, nextSeq, called, posted>>
    BY <1>3, Zenon DEF Released, RecoverBranch
  <2> QED
    BY <2>1, <2>3, <2>5, <2>6, StateFromRows, Zenon DEF Promise!Fail
<1> QED
  BY <1>1, <1>2, <1>3, Zenon

(* The other steps of a reply are invisible *)
LEMMA SilentReply ==
  ASSUME IInv, NEW k \in Msgs, ReplyStep(k),
         ~Dispatch(k), ~BeforeDispatch(k), ~PostReturns(k)
  PROVE  UNCHANGED Promise!replyVars
<1> USE MappedStutter DEF storeVars, worldVars, Released
<1>1. CASE QuietReply(k)
  BY ZenonT(60), <1>1 DEF QuietReply, ReconcileAttempted, ReconcileFresh, AuthFails,
              CallFails, StreamFails, Catch, ProviderFailed, Muted, PostFails,
              SpeechFailed, CleanUp
<1>2. CASE Post(k) \/ Begin(k) \/ BeforeNetwork(k) \/ ResponseReceived(k)
  BY <1>2, Zenon DEF Post, Begin, BeginAttempt, BeforeNetwork,
              PrepareProviderEffect, ResponseReceived, RecordResponse
<1>3. CASE Completed(k) \/ ProviderError(k) \/ CleanProvider(k)
  BY <1>3, Zenon DEF Completed, RecordOutcome, ProviderError, CleanProvider,
              ReconcileProvider
<1>4. CASE SpeechError(k) \/ CleanSpeech(k)
  <2>1. CASE UNCHANGED storeVars
    BY <1>4, <2>1, Zenon DEF SpeechError, CleanSpeech
  <2>2. ASSUME NEW t \in {clock, at}, RecordSpeechFailure(k, Disposition(k), t)
        PROVE  UNCHANGED Promise!replyVars
    <3>1. UNCHANGED Released
      BY <2>2, Zenon DEF RecordSpeechFailure, CanRecordSpeechFailure,
                  ReceiptLineage, Disposition, IInv, TypeOK, StoreTypeOK
    <3> QED
      BY <1>4, <2>2, <3>1, Zenon DEF RecordSpeechFailure, SpeechError, CleanSpeech
  <2> QED
    BY <1>4, <2>1, <2>2, Zenon DEF SpeechError, CleanSpeech, ReconcileSpeech
<1> QED
  BY ZenonT(60), <1>1, <1>2, <1>3, <1>4 DEF ReplyStep, QuietReply

(* Every step of ActiveHome is a step of HomeReply, or a stutter.          *)
LEMMA NextMaps ==
  ASSUME IInv, [Next]_vars
  PROVE  [Promise!Next]_(Promise!replyVars)
<1>1. CASE QuietStep
  BY <1>1, MappedStutter, Zenon
  DEF QuietStep, Boot, BootEffects, StartTask, ReconcileDone, DrainDone,
      CleanEffects, Tick, ClockSetBack, Crash, storeVars, worldVars, Released
<1>2. CASE BootRecover \/ CleanRecover
  BY <1>2, RecoverMaps, Zenon DEF Promise!Next
<1>3. CASE Assemble
  BY <1>3, AssembleMaps, Zenon DEF Promise!Next
<1>4. ASSUME NEW k \in Msgs, ReplyStep(k)
      PROVE  Promise!Next \/ UNCHANGED Promise!replyVars
  BY <1>4, DispatchMaps, ReleaseMaps, AnswerMaps, SilentReply, Zenon DEF
                      Promise!Next
<1>5. ASSUME NEW k \in Msgs, Inbound(k) \/ DiscordAccepts(k) \/ DiscordDrops(k)
      PROVE  Promise!Next \/ UNCHANGED Promise!replyVars
  <2>1. CASE DiscordDrops(k)
    BY <2>1, MappedStutter, Zenon DEF DiscordDrops, storeVars, Released
  <2> QED
    BY <1>5, <2>1, InboundMaps, AcceptsMaps, Zenon DEF Promise!Next
<1>6. CASE UNCHANGED vars
  BY <1>6, MappedStutter, Zenon DEF vars, storeVars, worldVars, Released
<1> QED
  BY <1>1, <1>2, <1>3, <1>4, <1>5, <1>6, Zenon DEF Next, Running, QuietStep

(* The home conversation, with its crashes, redeliveries, late acceptances *)
(* and clock changes, does nothing that HomeReply does not allow: messages *)
(* are taken in order, asked once, released once, and settled for good.    *)
THEOREM HomeImplementsReply == Spec => ImplementsReply
<1>1. Init => Promise!Init
  <2> SUFFICES ASSUME Init PROVE Promise!Init
    BY Zenon
  <2>1. ReplyState = [m \in Msgs |-> "new"] /\ Released = {}
    BY Zenon DEF Init, StoreInit, ReplyState, StateOf, Released
  <2> QED
    BY <2>1 DEF Init, StoreInit, Promise!Init
<1>2. IInv /\ [Next]_vars => [Promise!Next]_(Promise!replyVars)
  BY NextMaps, Zenon
<1> QED
  BY <1>1, <1>2, HomeInvariance, PTL DEF Spec, ImplementsReply, Promise!Spec

==============================================================================

-------------------------- MODULE ActiveHomeStore --------------------------
(***************************************************************************)
(* The durable half of the active home conversation: the rows that         *)
(* src/src/store/context-graph.ts keeps for every admitted Discord message *)
(* and the SQLite triggers of src/src/store/db.ts that guard them.         *)
(*                                                                         *)
(* Every operator with primes is ONE SQLite transaction.  A transaction    *)
(* that the code or a trigger refuses is rolled back, so it is enabled     *)
(* exactly when both let it commit; the runtime (ActiveHome) turns the     *)
(* refusal into the exception the caller sees.                             *)
(*                                                                         *)
(* One message owns at most one branch, invocation, attempt, provider      *)
(* effect, outcome, speech effect and receipt, so the rows are functions   *)
(* of the message.  All timestamps of one chain of rows are kept as the    *)
(* newest of them, stamp[m]: each guard compares the time of the row it    *)
(* adds with the newest row of the same chain.                             *)
(***************************************************************************)
EXTENDS Integers, FiniteSets

CONSTANTS
  Msgs,        \* Discord messages a peer can send
  HomeMsgs,    \* those whose content activeHomeIngressContent admits
  NoMsg,       \* coordinator is free
  Dark,        \* a branch left running by the dark mode before activation
  ActivatedAt  \* activation.updatedAt and scope.authorizedAt

ASSUME MsgsAssumption ==
  /\ HomeMsgs \subseteq Msgs
  /\ IsFiniteSet(Msgs)
  /\ NoMsg \notin Msgs
  /\ Dark \notin Msgs
  /\ NoMsg # Dark
  /\ ActivatedAt \in Nat \ {0}

VARIABLES
  seq,          \* context_world_events.sequence of the message, 0 = no event
  nextSeq,      \* next AUTOINCREMENT sequence
  admittedAt,   \* ingress admission, 0 = none
  branch,       \* context_branches.status of the message's branch
  base,         \* context_branch_starts.base_revision of that branch
  attempts,     \* messages with a provider execution attempt row
  effect,       \* context_effects.status of the provider effect
  responses,    \* messages with provider response evidence
  outcome,      \* provider outcome row (kind and phase)
  speechEffect, \* context_effects.status of the Discord effect
  receipt,      \* speech receipt and its finalization (phase)
  stamp,        \* newest timestamp of the message's chain of rows
  coordinator,  \* context_root_coordinator.active_branch_id
  coordBase,    \* context_root_coordinator.base_revision
  head,         \* context_continuation_head.revision
  dark          \* status of the branch left by the dark mode

storeVars == <<seq, nextSeq, admittedAt, branch, base, attempts, effect,
               responses, outcome, speechEffect, receipt, stamp,
               coordinator, coordBase, head, dark>>

EffectStatus == {"none", "prepared", "uncertain", "observed", "failed"}
BranchStatus == {"none", "running", "yielded", "crashed"}
FailurePhases == {"pre_dispatch_rejected", "issuance_uncertain", "issued"}
ReceiptPhases == {"none", "pre_dispatch_rejected", "issuance_uncertain",
                  "observed"}

StoreTypeOK ==
  /\ seq \in [Msgs -> Nat]
  /\ nextSeq \in Nat \ {0}
  /\ admittedAt \in [Msgs -> Nat]
  /\ branch \in [Msgs -> BranchStatus]
  /\ base \in [Msgs -> Nat]
  /\ attempts \subseteq Msgs
  /\ effect \in [Msgs -> EffectStatus]
  /\ responses \subseteq Msgs
  /\ outcome \in [Msgs -> {"none", "success"} \cup FailurePhases]
  /\ speechEffect \in [Msgs -> EffectStatus]
  /\ receipt \in [Msgs -> ReceiptPhases]
  /\ stamp \in [Msgs -> Nat]
  /\ coordinator \in Msgs \cup {NoMsg, Dark}
  /\ coordBase \in Nat
  /\ head \in Nat
  /\ dark \in {"none", "running", "crashed"}

(* The database on the first boot after activation: no active rows yet;    *)
(* the dark mode may have left the coordinator holding a running branch.   *)
StoreInit ==
  /\ seq = [m \in Msgs |-> 0]
  /\ nextSeq = 1
  /\ admittedAt = [m \in Msgs |-> 0]
  /\ branch = [m \in Msgs |-> "none"]
  /\ base = [m \in Msgs |-> 0]
  /\ attempts = {}
  /\ effect = [m \in Msgs |-> "none"]
  /\ responses = {}
  /\ outcome = [m \in Msgs |-> "none"]
  /\ speechEffect = [m \in Msgs |-> "none"]
  /\ receipt = [m \in Msgs |-> "none"]
  /\ stamp = [m \in Msgs |-> 0]
  /\ coordBase = 0
  /\ head = 0
  /\ \/ coordinator = NoMsg /\ dark = "none"
     \/ coordinator = Dark /\ dark = "running"

-----------------------------------------------------------------------------
(* Ingress *)

Pending(m) == admittedAt[m] # 0 /\ branch[m] = "none"

(* Mutant: the pending query without its ORDER BY. *)
AnyPending(m) == Pending(m)

(* getOldestPendingActiveHomeIngressAdmission *)
OldestPending(m) ==
  /\ Pending(m)
  /\ \A n \in Msgs : Pending(n) => seq[m] <= seq[n]

(* context_active_home_ingress_admissions_lineage_guard *)
IngressLineage(m, at) == m \in HomeMsgs /\ at >= ActivatedAt

(* recordActiveSocialInbound of a message that has no event yet: the event *)
(* and, for home content, its admission in the same transaction.           *)
RecordNewInbound(m, at) ==
  /\ seq[m] = 0
  /\ at >= ActivatedAt
  /\ seq' = [seq EXCEPT ![m] = nextSeq]
  /\ nextSeq' = nextSeq + 1
  /\ admittedAt' = IF IngressLineage(m, at)
                     THEN [admittedAt EXCEPT ![m] = at]
                     ELSE admittedAt
  /\ UNCHANGED <<branch, base, attempts, effect, responses, outcome,
                 speechEffect, receipt, stamp, coordinator, coordBase, head,
                 dark>>

(* recordActiveSocialInbound of a message that is stored already: the      *)
(* caller passes the stored recordedAt and admittedAt back, nothing is     *)
(* written.                                                                *)
RecordKnownInbound(m) ==
  /\ seq[m] # 0
  /\ UNCHANGED storeVars

-----------------------------------------------------------------------------
(* Branch, invocation, attempt *)

(* context_branch_starts_head_guard: a branch starts on the current head.  *)
StartsOnHead(b) == b = head

(* beginCoordinatedBranchInTransaction: the root coordinator runs one      *)
(* branch at a time and agrees with the continuation head.                 *)
CoordinatorFree == coordinator = NoMsg /\ coordBase = head

(* context_active_home_provider_invocation_admissions_lineage_guard *)
InvocationLineage(m, at) == admittedAt[m] # 0 /\ admittedAt[m] <= at

(* assembleActiveHomeRequest *)
CanAssemble(m, at) ==
  /\ CoordinatorFree
  /\ StartsOnHead(head)
  /\ at >= ActivatedAt
  /\ InvocationLineage(m, at)
  /\ OldestPending(m)

AssembleRequest(m, at) ==
  /\ CanAssemble(m, at)
  /\ branch' = [branch EXCEPT ![m] = "running"]
  /\ base' = [base EXCEPT ![m] = head]
  /\ stamp' = [stamp EXCEPT ![m] = at]
  /\ coordinator' = m
  /\ UNCHANGED <<seq, nextSeq, admittedAt, attempts, effect, responses,
                 outcome, speechEffect, receipt, coordBase, head, dark>>

(* The branch runs, holds the coordinator and starts at the head: what     *)
(* every lineage guard asks of the branch it adds a row to.                *)
Current(m) ==
  /\ branch[m] = "running"
  /\ coordinator = m
  /\ coordBase = base[m]
  /\ head = base[m]

(* context_active_home_provider_execution_attempts_lineage_guard *)
AttemptLineage(m, at) ==
  /\ Current(m)
  /\ stamp[m] <= at
  /\ effect[m] = "none"

(* beginActiveHomeProviderExecutionAttempt, when no attempt exists *)
CanBegin(m, at) == m \notin attempts /\ AttemptLineage(m, at)

BeginAttempt(m, at) ==
  /\ CanBegin(m, at)
  /\ attempts' = attempts \cup {m}
  /\ stamp' = [stamp EXCEPT ![m] = at]
  /\ UNCHANGED <<seq, nextSeq, admittedAt, branch, base, effect, responses,
                 outcome, speechEffect, receipt, coordinator, coordBase,
                 head, dark>>

-----------------------------------------------------------------------------
(* Provider effect, response evidence, outcome *)

(* context_active_home_provider_invocation_effect_guard, provider half;    *)
(* effect_id is a primary key.                                             *)
ProviderEffectAuthorized(m, at) ==
  m \in attempts /\ effect[m] = "none" /\ stamp[m] <= at

(* prepareActiveHomeProviderExecutionEffect *)
PrepareProviderEffect(m, at) ==
  /\ ProviderEffectAuthorized(m, at)
  /\ effect' = [effect EXCEPT ![m] = "prepared"]
  /\ stamp' = [stamp EXCEPT ![m] = at]
  /\ UNCHANGED <<seq, nextSeq, admittedAt, branch, base, attempts, responses,
                 outcome, speechEffect, receipt, coordinator, coordBase,
                 head, dark>>

(* context_active_home_provider_response_evidence_lineage_guard *)
ResponseLineage(m, at) ==
  m \in attempts /\ effect[m] = "prepared" /\ m \notin responses /\ stamp[m] <= at

(* recordIsolatedProviderResponse *)
RecordResponse(m, at) ==
  /\ ResponseLineage(m, at)
  /\ responses' = responses \cup {m}
  /\ stamp' = [stamp EXCEPT ![m] = at]
  /\ UNCHANGED <<seq, nextSeq, admittedAt, branch, base, attempts, effect,
                 outcome, speechEffect, receipt, coordinator, coordBase,
                 head, dark>>

(* Mutant: a call without response is taken for one that never left. *)
PhaseOfOptimist(m) ==
  IF m \in responses THEN "issued" ELSE "pre_dispatch_rejected"

(* The phase an unfinished attempt stands in, from its durable rows *)
PhaseOf(m) ==
  CASE effect[m] = "none" -> "pre_dispatch_rejected"
    [] effect[m] # "none" /\ m \notin responses -> "issuance_uncertain"
    [] effect[m] # "none" /\ m \in responses -> "issued"

(* context_active_home_provider_outcomes_lineage_guard: the recorded phase *)
(* is the one the effect and response rows support.                        *)
OutcomeLineage(m, kind, at) ==
  /\ m \in attempts
  /\ stamp[m] <= at
  /\ effect[m] \in {"none", "prepared"}
  /\ PhaseOf(m) = IF kind = "success" THEN "issued" ELSE kind

(* context_active_home_provider_effect_transition_guard: the effect leaves *)
(* 'prepared' only together with the outcome that explains it.             *)
ProviderEffectAfter(kind) ==
  CASE kind = "pre_dispatch_rejected" -> "none"
    [] kind = "issuance_uncertain" -> "uncertain"
    [] kind = "issued" -> "failed"
    [] kind = "success" -> "observed"

(* context_active_home_text_speech_attempts_lineage_guard: the speech      *)
(* attempt that a success obliges the transaction to add.                  *)
SpeechLineage(m) == Current(m) /\ speechEffect[m] = "none"

(* recordIsolatedProviderOutcome; attempt_id is the key of the outcome     *)
(* table.                                                                  *)
CanRecordOutcome(m, kind, at) ==
  /\ outcome[m] = "none"
  /\ OutcomeLineage(m, kind, at)
  /\ kind = "success" => SpeechLineage(m)

(* insertIsolatedProviderOutcomeInTransaction.  A success also writes the  *)
(* speech attempt and its private capsule in the same transaction          *)
(* (recordActiveHomeTextProviderSuccess), which the success obligation     *)
(* trigger demands: a speech attempt exists exactly when outcome[m] is     *)
(* "success".                                                              *)
RecordOutcome(m, kind, at) ==
  /\ CanRecordOutcome(m, kind, at)
  /\ outcome' = [outcome EXCEPT ![m] = kind]
  /\ effect' = [effect EXCEPT ![m] = ProviderEffectAfter(kind)]
  /\ stamp' = [stamp EXCEPT ![m] = at]
  /\ UNCHANGED <<seq, nextSeq, admittedAt, branch, base, attempts, responses,
                 speechEffect, receipt, coordinator, coordBase, head, dark>>

Speech(m) == outcome[m] = "success"

-----------------------------------------------------------------------------
(* Speech effect and receipt *)

(* context_active_home_provider_invocation_effect_guard, speech half *)
SpeechEffectAuthorized(m, at) ==
  /\ Speech(m)
  /\ Current(m)
  /\ receipt[m] = "none"
  /\ stamp[m] <= at

(* prepareAnyHomeTextSpeechEffect *)
CanPrepareSpeech(m, at) ==
  /\ receipt[m] = "none"
  /\ speechEffect[m] = "none"
  /\ SpeechEffectAuthorized(m, at)

PrepareSpeechEffect(m, at) ==
  /\ CanPrepareSpeech(m, at)
  /\ speechEffect' = [speechEffect EXCEPT ![m] = "prepared"]
  /\ stamp' = [stamp EXCEPT ![m] = at]
  /\ UNCHANGED <<seq, nextSeq, admittedAt, branch, base, attempts, effect,
                 responses, outcome, receipt, coordinator, coordBase, head,
                 dark>>

(* context_active_home_text_speech_receipts_lineage_guard *)
ReceiptLineage(m, phase, at) ==
  /\ Speech(m)
  /\ Current(m)
  /\ effect[m] = "observed"
  /\ stamp[m] <= at
  /\ IF phase = "pre_dispatch_rejected"
       THEN speechEffect[m] = "none"
       ELSE speechEffect[m] = "prepared"

(* context_active_home_text_speech_finalizations_lineage_guard, evaluated  *)
(* at the end of the transaction: a failure leaves the branch running on   *)
(* the head, an observed reply has moved it on and released it.            *)
FinalizationLineage(m) ==
  \/ receipt[m] = "pre_dispatch_rejected" /\ Current(m)
                                          /\ speechEffect[m] = "none"
  \/ receipt[m] = "issuance_uncertain" /\ Current(m)
                                       /\ speechEffect[m] = "uncertain"
  \/ /\ receipt[m] = "observed"
     /\ branch[m] = "yielded"
     /\ speechEffect[m] = "observed"
     /\ head = base[m] + 1
     /\ coordinator = NoMsg
     /\ coordBase = base[m] + 1

(* The phase of a speech that did not complete, from its durable effect *)
Disposition(m) == IF speechEffect[m] = "none"
                    THEN "pre_dispatch_rejected" ELSE "issuance_uncertain"

(* recordAnyHomeTextSpeechFailure, when no receipt exists.  The speech     *)
(* effect transition guard lets the effect become uncertain only with this *)
(* receipt.                                                                *)
CanRecordSpeechFailure(m, phase, at) ==
  /\ receipt[m] = "none"
  /\ phase \in {"pre_dispatch_rejected", "issuance_uncertain"}
  /\ ReceiptLineage(m, phase, at)

RecordSpeechFailure(m, phase, at) ==
  /\ CanRecordSpeechFailure(m, phase, at)
  /\ receipt' = [receipt EXCEPT ![m] = phase]
  /\ speechEffect' = [speechEffect EXCEPT
                        ![m] = IF phase = "issuance_uncertain"
                                 THEN "uncertain" ELSE @]
  /\ stamp' = [stamp EXCEPT ![m] = at]
  /\ UNCHANGED <<seq, nextSeq, admittedAt, branch, base, attempts, effect,
                 responses, outcome, coordinator, coordBase, head, dark>>
  /\ FinalizationLineage(m)'

(* The yielding half of context_active_home_text_success_transition_guard, *)
(* evaluated after receipt and effect are written.                         *)
MayYield(m) == receipt[m] = "observed" /\ speechEffect[m] = "observed"

(* advanceContinuationHeadInTransaction with the head and coordinator      *)
(* guards of migration 0059: one step on from the branch's own base.       *)
HeadMayAdvance(m) == head = base[m] /\ coordBase = base[m] /\ coordinator = m

(* completeObservedAnyHomeTextSpeech: receipt, effect, root capsule,       *)
(* yielded branch, advanced head, released coordinator and finalization in *)
(* one transaction.                                                        *)
CanComplete(m, at) ==
  /\ receipt[m] = "none"
  /\ ReceiptLineage(m, "observed", at)
  /\ HeadMayAdvance(m)

CompleteObserved(m, at) ==
  /\ CanComplete(m, at)
  /\ receipt' = [receipt EXCEPT ![m] = "observed"]
  /\ speechEffect' = [speechEffect EXCEPT ![m] = "observed"]
  /\ branch' = [branch EXCEPT ![m] = "yielded"]
  /\ head' = base[m] + 1
  /\ coordBase' = base[m] + 1
  /\ coordinator' = NoMsg
  /\ stamp' = [stamp EXCEPT ![m] = at]
  /\ UNCHANGED <<seq, nextSeq, admittedAt, base, attempts, effect, responses,
                 outcome, dark>>
  /\ MayYield(m)'
  /\ FinalizationLineage(m)'

-----------------------------------------------------------------------------
(* Recovery *)

(* getActiveHomeProviderTextInvocation: the invocation of the coordinator's *)
(* branch; a dark branch has none.                                          *)
ActiveInvocation == IF coordinator \in Msgs THEN coordinator ELSE NoMsg

(* assertActiveRecoveryChronology: no durable row of the active chain is   *)
(* newer than the recovery.                                                *)
Chronology(at) == coordinator \in Msgs => stamp[coordinator] <= at

(* reconcileIsolatedProviderBeforeRecovery: an attempt without outcome     *)
(* gets the error its rows support, an outcome is kept.                    *)
ReconcileProvider(m, at) ==
  IF m \in attempts /\ outcome[m] = "none"
    THEN RecordOutcome(m, PhaseOf(m), at)
    ELSE UNCHANGED storeVars

(* reconcileActiveHomeTextSpeechBeforeRecovery: a speech attempt of the    *)
(* running branch without receipt gets the failure its effect supports.    *)
ReconcileSpeech(m, at) ==
  IF Speech(m) /\ receipt[m] = "none"
    THEN RecordSpeechFailure(m, Disposition(m), at)
    ELSE UNCHANGED storeVars

(* Mutant: the transition guard does not ask for an outcome. *)
MayCrashUnexplained(m, at) ==
  effect[m] # "prepared" /\ speechEffect[m] # "prepared" /\ stamp[m] <= at

(* context_active_home_provider_invocation_transition_guard and            *)
(* .._recovery_guard: a branch of an active invocation is crashed only     *)
(* after its attempt has an outcome, no effect is still prepared and its   *)
(* times are in order.                                                     *)
InvocationMayCrash(m, at) ==
  /\ m \in attempts
  /\ outcome[m] # "none"
  /\ effect[m] = ProviderEffectAfter(outcome[m])
  /\ speechEffect[m] # "prepared"
  /\ stamp[m] <= at

(* context_active_home_text_success_transition_guard and                   *)
(* .._recovery_guard: after a successful provider call also its speech     *)
(* must have a failure receipt.                                            *)
SpeechMayCrash(m) ==
  Speech(m) => receipt[m] \in {"pre_dispatch_rejected", "issuance_uncertain"}

(* recoverCoordinatedBranch refuses a branch that is detached from the     *)
(* continuation head.                                                      *)
AttachedToHead(b) == coordBase = head /\ b = coordBase

CanRecover(at) ==
  \/ coordinator = NoMsg
  \/ coordinator = Dark /\ coordBase = head /\ dark = "running"
  \/ /\ coordinator \in Msgs
     /\ AttachedToHead(base[coordinator])
     /\ branch[coordinator] = "running"
     /\ InvocationMayCrash(coordinator, at)
     /\ SpeechMayCrash(coordinator)

(* recoverCoordinatedBranch: the branch is crashed, the coordinator is     *)
(* released and the continuation head stays.                               *)
RecoverBranch(at) ==
  /\ CanRecover(at)
  /\ branch' = IF coordinator \in Msgs
                 THEN [branch EXCEPT ![coordinator] = "crashed"] ELSE branch
  /\ stamp' = IF coordinator \in Msgs
                THEN [stamp EXCEPT ![coordinator] = at] ELSE stamp
  /\ dark' = IF coordinator = Dark THEN "crashed" ELSE dark
  /\ coordinator' = NoMsg
  /\ UNCHANGED <<seq, nextSeq, admittedAt, base, attempts, effect, responses,
                 outcome, speechEffect, receipt, coordBase, head>>

(* recoverPreparedEffects finds nothing to do: the effect transition       *)
(* guards would refuse any effect it found.                                *)
NoPreparedEffect ==
  \A m \in Msgs : effect[m] # "prepared" /\ speechEffect[m] # "prepared"

=============================================================================

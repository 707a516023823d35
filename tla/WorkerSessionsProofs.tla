------------------------ MODULE WorkerSessionsProofs ------------------------
(***************************************************************************)
(* Proofs about WorkerSessions, for every set of sessions and Mind items,  *)
(* every concurrency limit and any number of restarts: first the types and *)
(* the finished rows, then who may touch a session and the truth of        *)
(* cleanup receipts, then notices, admission and the theorems.             *)
(***************************************************************************)
EXTENDS WorkerSessions, FiniteSetTheorems, TLAPS


\* Every step of the broker, the Agent, the worker and the cluster keeps each
\* variable in its type.
LEMMA TypePreserved == TypeOK /\ Ownership /\ [Next]_vars => TypeOK'
<1> SUFFICES ASSUME TypeOK, Ownership, [Next]_vars PROVE TypeOK'
  BY Zenon
<1> USE DEF TypeOK, RowTypes, ClusterTypes, CallTypes, PassTypes, FlagTypes,
            NoticeTypes, LifeTypes, Status, Active, Terminal, Phase, Creating, db, cluster,
            calls, rPass, cPass, notices, process
<1>1. ASSUME NEW s \in Session, StartStep(s) PROVE TypeOK'
  <2>1. ASSUME NEW m \in Mind, Claim(s, m) PROVE TypeOK'
    BY <2>1 DEF Claim
  <2>2. ASSUME NEW r \in BOOLEAN, SourceReady(s, r) PROVE TypeOK'
    BY <2>2 DEF SourceReady, Settled
  <2>3. CASE SourceFailed(s)
    BY <2>3 DEF SourceFailed, Settled
  <2>4. CASE SecretCreated(s)
    BY <2>4 DEF SecretCreated
  <2>5. ASSUME NEW r \in BOOLEAN, ProvisionRejected(s, r) PROVE TypeOK'
    BY <2>5 DEF ProvisionRejected, Settled, cleanupRuntime
  <2>6. CASE Provisioned(s)
    BY <2>6 DEF Provisioned, Advanced, Settled, cleanupRuntime
  <2>7. CASE StartUnwinds(s)
    BY <2>7 DEF StartUnwinds, Settled
  <2> QED
    BY ONLY <1>1, <2>1, <2>2, <2>3, <2>4, <2>5, <2>6, <2>7, Zenon DEF StartStep
<1>2. ASSUME NEW s \in Session, DismissStep(s) PROVE TypeOK'
  <2>1. CASE Dismiss(s)
    BY <2>1 DEF Dismiss, MustWait, cleanupRuntime
  <2>2. CASE DismissResumes(s)
    BY SMTT(30), <2>2 DEF DismissResumes, MustWait, cleanupRuntime
  <2> QED
    BY ONLY <1>2, <2>1, <2>2, Zenon DEF DismissStep
<1>3. ASSUME NEW s \in Session, CleanupCall(s) PROVE TypeOK'
  <2>1. CASE CleanupSucceeds(s)
    BY <2>1 DEF CleanupSucceeds, CanPersist
  <2>2. CASE CleanupFails(s)
    BY SMTT(30), <2>2 DEF CleanupFails
  <2> QED
    BY ONLY <1>3, <2>1, <2>2, Zenon DEF CleanupCall
<1>4. ASSUME NEW s \in Session, AgentStep(s) PROVE TypeOK'
  <2>1. CASE NoticeDelivered(s)
    BY <2>1 DEF NoticeDelivered
  <2>2. CASE NoticeDropped(s)
    BY <2>2 DEF NoticeDropped
  <2> QED
    BY ONLY <1>4, <2>1, <2>2, Zenon DEF AgentStep
<1>5. ASSUME NEW s \in Session, WorkerStep(s) PROVE TypeOK'
  <2>1. CASE PutArtifact(s)
    BY <2>1 DEF PutArtifact
  <2>2. CASE SendFinish(s)
    BY <2>2 DEF SendFinish
  <2>3. CASE insertFinish(s)
    BY <2>3 DEF insertFinish
  <2> QED
    BY ONLY <1>5, <2>1, <2>2, <2>3, Zenon DEF WorkerStep
<1>6. ASSUME NEW s \in Session, ClusterStep(s) PROVE TypeOK'
  <2>1. CASE AdmitSecret(s)
    BY <2>1 DEF AdmitSecret
  <2>2. CASE AdmitPod(s)
    BY <2>2 DEF AdmitPod
  <2>3. CASE PodStep(s)
    BY <2>3 DEF PodStep
  <2>4. CASE DeletePod(s)
    BY <2>4 DEF DeletePod, Deleting
  <2>5. CASE DeleteSecret(s)
    BY <2>5 DEF DeleteSecret, Deleting
  <2> QED
    BY ONLY <1>6, <2>1, <2>2, <2>3, <2>4, <2>5, ZenonT(30) DEF ClusterStep
<1>7. ASSUME NEW s \in Session, GraceExpires(s) PROVE TypeOK'
  BY <1>7 DEF GraceExpires
<1>8. CASE RecoverPass
  <2>1. ASSUME NEW s \in Session, RecoverNext(s) PROVE TypeOK'
    BY <2>1 DEF RecoverNext, View
  <2>2. CASE RecoverApply
    BY <2>2 DEF RecoverApply, Verdict, Ownership
  <2>3. CASE RecoverDone
    <3>1. RowTypes'
      BY <2>3 DEF RecoverDone, BeginRecover, RecoverRows
    <3>2. PassTypes'
      BY <2>3, ZenonT(30) DEF RecoverDone, BeginRecover, RecoverQueue, kickCleanup, BeginCleanup,
          CleanupQueue, Is
    <3>3. FlagTypes'
      BY <2>3, Zenon DEF RecoverDone, BeginRecover, kickCleanup, BeginCleanup
    <3>4. NoticeTypes'
      BY <2>3 DEF RecoverDone, deliverPending, Pending
    <3> QED
      BY <2>3, <3>1, <3>2, <3>3, <3>4, Zenon DEF RecoverDone
  <2>4. CASE RecoverStops
    BY <2>4 DEF RecoverStops
  <2> QED
    BY ONLY <1>8, <2>1, <2>2, <2>3, <2>4, Zenon DEF RecoverPass
<1>9. CASE CleanupPass
  <2>1. ASSUME NEW s \in Session, CleanupNext(s) PROVE TypeOK'
    <3>1. CallTypes'
      BY <2>1, ZenonT(30) DEF CleanupNext, cleanupRuntime
    <3>2. PassTypes'
      BY <2>1 DEF CleanupNext, View
    <3>3. FlagTypes'
      BY <2>1, Zenon DEF CleanupNext
    <3> QED
      BY <2>1, <3>1, <3>2, <3>3, Zenon DEF CleanupNext
  <2>2. CASE CleanupApply
    <3>1. CallTypes'
      BY <2>2, ZenonT(30) DEF CleanupApply, cleanupRuntime
    <3>2. PassTypes'
      BY <2>2, Zenon DEF CleanupApply
    <3>3. FlagTypes'
      BY <2>2, Zenon DEF CleanupApply
    <3> QED
      BY <2>2, <3>1, <3>2, <3>3, Zenon DEF CleanupApply
  <2>3. CASE CleanupAwaited
    BY <2>3 DEF CleanupAwaited
  <2>4. CASE CleanupDone
    <3>1. PassTypes'
      BY <2>4, ZenonT(30) DEF CleanupDone, BeginCleanup, CleanupQueue, Is
    <3>2. FlagTypes'
      BY <2>4, Zenon DEF CleanupDone, BeginCleanup
    <3> QED
      BY <2>4, <3>1, <3>2, Zenon DEF CleanupDone
  <2>5. CASE CleanupStops
    <3>1. PassTypes'
      BY <2>5, Zenon DEF CleanupStops
    <3>2. FlagTypes'
      BY <2>5, Zenon DEF CleanupStops
    <3> QED
      BY <2>5, <3>1, <3>2, Zenon DEF CleanupStops
  <2> QED
    BY ONLY <1>9, <2>1, <2>2, <2>3, <2>4, <2>5, Zenon DEF CleanupPass
<1>10. CASE Trigger
  <2>1. CASE Poll
    <3>1. RowTypes'
      BY SMTT(30), <2>1 DEF Poll, reconcile, BeginRecover, RecoverRows
    <3>2. PassTypes'
      BY <2>1 DEF Poll, reconcile, BeginRecover, RecoverQueue, Is
    <3>3. FlagTypes'
      BY <2>1, Zenon DEF Poll, reconcile, BeginRecover
    <3> QED
      BY <2>1, <3>1, <3>2, <3>3, Zenon DEF Poll
  <2>2. CASE FinishHint
    <3>1. RowTypes'
      BY <2>2 DEF FinishHint, reconcile, BeginRecover, RecoverRows
    <3>2. PassTypes'
      BY <2>2 DEF FinishHint, reconcile, BeginRecover, RecoverQueue, Is
    <3>3. FlagTypes'
      BY <2>2, Zenon DEF FinishHint, reconcile, BeginRecover
    <3>4. NoticeTypes'
      BY <2>2 DEF FinishHint, deliverPending, Pending
    <3> QED
      BY <2>2, <3>1, <3>2, <3>3, <3>4, ZenonT(30) DEF FinishHint
  <2> QED
    BY ONLY <1>10, <2>1, <2>2, Zenon DEF Trigger
<1>11. CASE ProcessStep
  <2>1. CASE activate
    <3>1. RowTypes'
      BY <2>1 DEF activate, reconcile, BeginRecover, RecoverRows
    <3>2. PassTypes'
      BY <2>1 DEF activate, reconcile, BeginRecover, RecoverQueue, Is
    <3>3. FlagTypes'
      BY <2>1, Zenon DEF activate, reconcile, BeginRecover
    <3>4. NoticeTypes'
      BY SMTT(30), <2>1 DEF activate, deliverPending, Pending
    <3> QED
      BY <2>1, <3>1, <3>2, <3>3, <3>4, ZenonT(30) DEF activate
  <2>2. CASE dispose
    <3>1. RowTypes'
      BY <2>2, Zenon DEF dispose
    <3>2. FlagTypes'
      BY <2>2, Zenon DEF dispose
    <3> QED
      BY SMTT(30), <2>2, <3>1, <3>2 DEF dispose
  <2>3. CASE Crash
    <3>1. (CallTypes /\ PassTypes)'
      BY <2>3, Zenon DEF Crash
    <3>2. FlagTypes'
      BY <2>3, Zenon DEF Crash
    <3>3. (NoticeTypes /\ LifeTypes)'
      BY <2>3, Zenon DEF Crash
    <3> QED
      BY <2>3, <3>1, <3>2, <3>3, Zenon DEF Crash
  <2>4. CASE Boot
    BY SMTT(30), <2>4, ConfigAssumption DEF Boot
  <2> QED
    BY ONLY <1>11, <2>1, <2>2, <2>3, <2>4, Zenon DEF ProcessStep
<1>12. CASE UNCHANGED vars
  BY <1>12 DEF vars
<1> QED
  BY ONLY [Next]_vars, <1>1, <1>2, <1>3, <1>4, <1>5, <1>6, <1>7, <1>8, <1>9, <1>10, <1>11, <1>12, ZenonT(30) DEF Next

\* How rows move: a claim creates one, and any other step takes an active row
\* to "running" or to a terminal status and leaves the rest alone.
ClaimStep == \E s \in Session, m \in Mind : Claim(s, m)
RowsForward ==
  /\ mind' = mind
  /\ \A s \in Session :
       \/ status'[s] = status[s]
       \/ status[s] \in Active /\ status'[s] \in {"running"} \cup Terminal
StatusMoves == ClaimStep \/ RowsForward

\* The repair of failed rows that opens a recoverState pass finds nothing to
\* repair: a row with a finish is already "finished".
LEMMA RecoverRowsSame == ASSUME TypeOK, FinishOutranks PROVE RecoverRows = status
  BY Zenon DEF TypeOK, RowTypes, FinishOutranks, RecoverRows

\* A recovery verdict touches active rows only, and never one with a finish.
LEMMA VerdictMoves ==
  ASSUME FinishOutranks, NEW s \in Session, NEW seen
  PROVE  /\ status[s] \notin Active => Verdict(s, seen) = status[s]
         /\ status[s] \in Active => Verdict(s, seen) \in {status[s], "running", "failed"}
  BY Zenon DEF FinishOutranks, Verdict, Active

\* Every step moves rows as StatusMoves says and keeps the durable finish and
\* the finished status together.
LEMMA RowsPreserved ==
  TypeOK /\ Ownership /\ FinishOutranks /\ [Next]_vars => StatusMoves /\ FinishOutranks'
<1> SUFFICES ASSUME TypeOK, Ownership, FinishOutranks, [Next]_vars
             PROVE  StatusMoves /\ FinishOutranks'
  BY Zenon
<1>a. DOMAIN status = Session /\ finish \in SUBSET Session
  BY Zenon DEF TypeOK, RowTypes
<1> USE <1>a DEF StatusMoves, RowsForward, FinishOutranks, Active, Terminal, db
<1>1. ASSUME NEW s \in Session, StartStep(s) PROVE StatusMoves /\ FinishOutranks'
  <2>1. ASSUME NEW m \in Mind, Claim(s, m) PROVE StatusMoves /\ FinishOutranks'
    <3>1. ClaimStep
      BY <2>1, Zenon DEF ClaimStep
    <3> QED
      BY <2>1, <3>1, Zenon DEF Claim
  <2>2. ASSUME NEW r \in BOOLEAN, SourceReady(s, r) PROVE StatusMoves /\ FinishOutranks'
    BY <2>2, Zenon DEF SourceReady
  <2>3. CASE SourceFailed(s)
    BY <2>3, Zenon DEF SourceFailed
  <2>4. CASE SecretCreated(s)
    BY <2>4, Zenon DEF SecretCreated
  <2>5. ASSUME NEW r \in BOOLEAN, ProvisionRejected(s, r) PROVE StatusMoves /\ FinishOutranks'
    BY <2>5, Zenon DEF ProvisionRejected
  <2>6. CASE Provisioned(s)
    BY <2>6, Zenon DEF Provisioned, Advanced
  <2>7. CASE StartUnwinds(s)
    BY <2>7, Zenon DEF StartUnwinds
  <2> QED
    BY ONLY <1>1, <2>1, <2>2, <2>3, <2>4, <2>5, <2>6, <2>7, Zenon DEF StartStep
<1>2. ASSUME NEW s \in Session, DismissStep(s) PROVE StatusMoves /\ FinishOutranks'
  <2>1. CASE Dismiss(s)
    BY <2>1, Zenon DEF Dismiss
  <2>2. CASE DismissResumes(s)
    BY <2>2, Zenon DEF DismissResumes
  <2> QED
    BY ONLY <1>2, <2>1, <2>2, Zenon DEF DismissStep
<1>3. ASSUME NEW s \in Session, CleanupCall(s) PROVE StatusMoves /\ FinishOutranks'
  <2>1. CASE CleanupSucceeds(s)
    BY <2>1, Zenon DEF CleanupSucceeds
  <2>2. CASE CleanupFails(s)
    BY <2>2, Zenon DEF CleanupFails
  <2> QED
    BY ONLY <1>3, <2>1, <2>2, Zenon DEF CleanupCall
<1>4. ASSUME NEW s \in Session, AgentStep(s) PROVE StatusMoves /\ FinishOutranks'
  <2>1. CASE NoticeDelivered(s)
    BY <2>1, Zenon DEF NoticeDelivered
  <2>2. CASE NoticeDropped(s)
    BY <2>2, Zenon DEF NoticeDropped
  <2> QED
    BY ONLY <1>4, <2>1, <2>2, Zenon DEF AgentStep
<1>5. ASSUME NEW s \in Session, WorkerStep(s) PROVE StatusMoves /\ FinishOutranks'
  <2>1. CASE PutArtifact(s)
    BY <2>1, Zenon DEF PutArtifact
  <2>2. CASE SendFinish(s)
    BY <2>2, Zenon DEF SendFinish
  <2>3. CASE insertFinish(s)
    BY <2>3, Zenon DEF insertFinish
  <2> QED
    BY ONLY <1>5, <2>1, <2>2, <2>3, Zenon DEF WorkerStep
<1>6. ASSUME NEW s \in Session, ClusterStep(s) PROVE StatusMoves /\ FinishOutranks'
  <2>1. CASE AdmitSecret(s)
    BY <2>1, Zenon DEF AdmitSecret
  <2>2. CASE AdmitPod(s)
    BY <2>2, Zenon DEF AdmitPod
  <2>3. CASE PodStep(s)
    BY <2>3, Zenon DEF PodStep
  <2>4. CASE DeletePod(s)
    BY <2>4, Zenon DEF DeletePod
  <2>5. CASE DeleteSecret(s)
    BY <2>5, Zenon DEF DeleteSecret
  <2> QED
    BY ONLY <1>6, <2>1, <2>2, <2>3, <2>4, <2>5, ZenonT(60) DEF ClusterStep
<1>7. ASSUME NEW s \in Session, GraceExpires(s) PROVE StatusMoves /\ FinishOutranks'
  BY <1>7, Zenon DEF GraceExpires
<1>8. CASE RecoverPass
  <2>1. ASSUME NEW s \in Session, RecoverNext(s) PROVE StatusMoves /\ FinishOutranks'
    BY <2>1, Zenon DEF RecoverNext
  <2>2. CASE RecoverApply
    <3>1. rAt \in Session
      BY <2>2, Zenon DEF RecoverApply, Ownership
    <3> QED
      BY <2>2, <3>1, VerdictMoves, Zenon DEF RecoverApply
  <2>3. CASE RecoverDone
    BY <2>3, RecoverRowsSame, Zenon DEF RecoverDone, BeginRecover
  <2>4. CASE RecoverStops
    BY <2>4, Zenon DEF RecoverStops
  <2> QED
    BY ONLY <1>8, <2>1, <2>2, <2>3, <2>4, Zenon DEF RecoverPass
<1>9. CASE CleanupPass
  <2>1. ASSUME NEW s \in Session, CleanupNext(s) PROVE StatusMoves /\ FinishOutranks'
    BY <2>1, Zenon DEF CleanupNext
  <2>2. CASE CleanupApply
    BY <2>2, Zenon DEF CleanupApply
  <2>3. CASE CleanupAwaited
    BY <2>3, Zenon DEF CleanupAwaited
  <2>4. CASE CleanupDone
    BY <2>4, Zenon DEF CleanupDone
  <2>5. CASE CleanupStops
    BY <2>5, Zenon DEF CleanupStops
  <2> QED
    BY ONLY <1>9, <2>1, <2>2, <2>3, <2>4, <2>5, Zenon DEF CleanupPass
<1>10. CASE Trigger
  <2>1. CASE Poll
    BY <2>1, RecoverRowsSame, Zenon DEF Poll, reconcile, BeginRecover
  <2>2. CASE FinishHint
    BY <2>2, RecoverRowsSame, Zenon DEF FinishHint, reconcile, BeginRecover
  <2> QED
    BY ONLY <1>10, <2>1, <2>2, Zenon DEF Trigger
<1>11. CASE ProcessStep
  <2>1. CASE activate
    BY <2>1, RecoverRowsSame, Zenon DEF activate, reconcile, BeginRecover
  <2>2. CASE dispose
    BY <2>2, Zenon DEF dispose, Is
  <2>3. CASE Crash
    BY <2>3, Zenon DEF Crash
  <2>4. CASE Boot
    BY <2>4, Zenon DEF Boot
  <2> QED
    BY ONLY <1>11, <2>1, <2>2, <2>3, <2>4, Zenon DEF ProcessStep
<1>12. CASE UNCHANGED vars
  BY <1>12, Zenon DEF vars
<1> QED
  BY ONLY [Next]_vars, <1>1, <1>2, <1>3, <1>4, <1>5, <1>6, <1>7, <1>8, <1>9, <1>10, <1>11, <1>12, Zenon DEF Next

\* What a reconcile() call leaves behind: no row changed, and the rows it queues
\* exist and are not under creation.
LEMMA ReconcileEffect ==
  ASSUME TypeOK, FinishOutranks, Ownership, reconcile
  PROVE  /\ status' = status
         /\ rStep' = "seen" => rStep = "seen" /\ rAt' = rAt
         /\ \A s \in rQueue' : status[s] # "none" /\ start[s] \notin Creating
<1>1. CASE rStep = "off"
  BY <1>1, RecoverRowsSame, Zenon
  DEF reconcile, BeginRecover, RecoverQueue, Is, Provisioning, Active, Creating
<1>2. CASE rStep # "off"
  BY <1>2, Zenon DEF reconcile, Ownership, TypeOK, PassTypes
<1> QED
  BY <1>1, <1>2, Zenon

\* What a kickCleanup() call leaves behind: the rows it queues exist.
LEMMA KickEffect ==
  ASSUME TypeOK, Ownership, kickCleanup
  PROVE  /\ cStep' \in {"seen", "wait"} => cStep \in {"seen", "wait"} /\ cAt' = cAt
         /\ \A s \in cQueue' : status[s] # "none"
<1>1. CASE cStep = "off"
  BY <1>1, Zenon DEF kickCleanup, BeginCleanup, CleanupQueue, Is, Terminal
<1>2. CASE cStep # "off"
  BY <1>2, Zenon DEF kickCleanup, Ownership, TypeOK, PassTypes
<1> QED
  BY <1>1, <1>2, Zenon

\* What deliverPending leaves behind while the supervisor delivers: the book of
\* claims, queued notices and receipts of an active supervisor.
LEMMA DeliverEffect ==
  ASSUME TypeOK, NoticeBook, NoticeOfOutcome, deliverPending, life \in {"up", "dormant"},
         NEW s \in Session
  PROVE  /\ inbox'[s] = IF s \in claimed' THEN 1 ELSE 0
         /\ s \in claimed' => /\ told[s] = 0 /\ s \notin notified
                              /\ status[s] \in {"finished", "failed"}
         /\ told[s] > 0 => s \in notified
         /\ told' = told
<1>1. CASE s \in Pending
  BY <1>1 DEF deliverPending, Pending, NoticeBook, TypeOK, NoticeTypes
<1>2. CASE s \notin Pending
  BY <1>2 DEF deliverPending, NoticeBook, TypeOK, NoticeTypes
<1> QED
  BY <1>1, <1>2, Zenon

-----------------------------------------------------------------------------

\* A session under creation stays in start()'s hands alone, and a cleanup
\* receipt stays true.
LEMMA OwnershipPreserved ==
  /\ TypeOK /\ Ownership /\ FinishOutranks /\ CleanupReceiptTrue
  /\ [Next]_vars
  => Ownership' /\ CleanupReceiptTrue'
<1> SUFFICES ASSUME TypeOK, Ownership, FinishOutranks, CleanupReceiptTrue, [Next]_vars
             PROVE  Ownership' /\ CleanupReceiptTrue'
  BY Zenon
<1>a. /\ DOMAIN status = Session /\ DOMAIN start = Session
      /\ DOMAIN pod = Session /\ DOMAIN cleaning = Session
      /\ {cleaned, secret, waiting, rQueue, cQueue} \subseteq SUBSET Session
  BY Zenon DEF TypeOK, RowTypes, ClusterTypes, CallTypes, PassTypes
<1> USE <1>a DEF Ownership, CleanupReceiptTrue, Active, Terminal, Removed, Creating, db, cluster,
            calls, rPass, cPass
<1>1. ASSUME NEW s \in Session, StartStep(s) PROVE Ownership' /\ CleanupReceiptTrue'
  <2>1. ASSUME NEW m \in Mind, Claim(s, m) PROVE Ownership' /\ CleanupReceiptTrue'
    BY <2>1, Zenon DEF Claim
  <2>2. ASSUME NEW r \in BOOLEAN, SourceReady(s, r) PROVE Ownership' /\ CleanupReceiptTrue'
    BY <2>2, ZenonT(30) DEF SourceReady, Settled
  <2>3. CASE SourceFailed(s)
    BY <2>3, SMTT(60) DEF SourceFailed, Settled
  <2>4. CASE SecretCreated(s)
    BY <2>4, ZenonT(30) DEF SecretCreated
  <2>5. ASSUME NEW r \in BOOLEAN, ProvisionRejected(s, r) PROVE Ownership' /\ CleanupReceiptTrue'
    BY <2>5, SMTT(60) DEF ProvisionRejected, Settled, cleanupRuntime
  <2>6. CASE Provisioned(s)
    BY <2>6, SMTT(60) DEF Provisioned, Advanced, Settled, cleanupRuntime
  <2>7. CASE StartUnwinds(s)
    BY <2>7, Zenon DEF StartUnwinds, Settled
  <2> QED
    BY ONLY <1>1, <2>1, <2>2, <2>3, <2>4, <2>5, <2>6, <2>7, Zenon DEF StartStep
<1>2. ASSUME NEW s \in Session, DismissStep(s) PROVE Ownership' /\ CleanupReceiptTrue'
  <2>1. CASE Dismiss(s)
    BY <2>1, ZenonT(30) DEF Dismiss, MustWait, cleanupRuntime
  <2>2. CASE DismissResumes(s)
    BY <2>2, Zenon DEF DismissResumes, MustWait, cleanupRuntime
  <2> QED
    BY ONLY <1>2, <2>1, <2>2, Zenon DEF DismissStep
<1>3. ASSUME NEW s \in Session, CleanupCall(s) PROVE Ownership' /\ CleanupReceiptTrue'
  <2>1. CASE CleanupSucceeds(s)
    BY <2>1, Zenon DEF CleanupSucceeds, CanPersist
  <2>2. CASE CleanupFails(s)
    BY <2>2, Zenon DEF CleanupFails
  <2> QED
    BY ONLY <1>3, <2>1, <2>2, Zenon DEF CleanupCall
<1>4. ASSUME NEW s \in Session, AgentStep(s) PROVE Ownership' /\ CleanupReceiptTrue'
  <2>1. CASE NoticeDelivered(s)
    BY <2>1, Zenon DEF NoticeDelivered
  <2>2. CASE NoticeDropped(s)
    BY <2>2, Zenon DEF NoticeDropped
  <2> QED
    BY ONLY <1>4, <2>1, <2>2, Zenon DEF AgentStep
<1>5. ASSUME NEW s \in Session, WorkerStep(s) PROVE Ownership' /\ CleanupReceiptTrue'
  <2>1. CASE PutArtifact(s)
    BY <2>1, Zenon DEF PutArtifact
  <2>2. CASE SendFinish(s)
    BY <2>2, Zenon DEF SendFinish
  <2>3. CASE insertFinish(s)
    BY <2>3, ZenonT(30) DEF insertFinish
  <2> QED
    BY ONLY <1>5, <2>1, <2>2, <2>3, Zenon DEF WorkerStep
<1>6. ASSUME NEW s \in Session, ClusterStep(s) PROVE Ownership' /\ CleanupReceiptTrue'
  <2>1. CASE AdmitSecret(s)
    BY <2>1, Zenon DEF AdmitSecret
  <2>2. CASE AdmitPod(s)
    BY <2>2, Zenon DEF AdmitPod
  <2>3. CASE PodStep(s)
    BY <2>3, ZenonT(30) DEF PodStep
  <2>4. CASE DeletePod(s)
    BY <2>4, Zenon DEF DeletePod, Deleting
  <2>5. CASE DeleteSecret(s)
    BY <2>5, Zenon DEF DeleteSecret, Deleting
  <2> QED
    BY ONLY <1>6, <2>1, <2>2, <2>3, <2>4, <2>5, Zenon DEF ClusterStep
<1>7. ASSUME NEW s \in Session, GraceExpires(s) PROVE Ownership' /\ CleanupReceiptTrue'
  BY <1>7, Zenon DEF GraceExpires
<1>8. CASE RecoverPass
  <2>1. ASSUME NEW s \in Session, RecoverNext(s) PROVE Ownership' /\ CleanupReceiptTrue'
    BY <2>1, SMTT(60) DEF RecoverNext
  <2>2. CASE RecoverApply
    <3>1. rAt \in Session
      BY <2>2, Zenon DEF RecoverApply, Ownership
    <3> QED
      BY <2>2, <3>1, VerdictMoves, Zenon DEF RecoverApply
  <2>3. CASE RecoverDone
    <3>1. kickCleanup
      BY <2>3, Zenon DEF RecoverDone
    <3>2. /\ status' = status
          /\ rStep' # "seen"
          /\ \A s \in rQueue' : status[s] # "none" /\ start[s] \notin Creating
      BY <2>3, RecoverRowsSame, Zenon DEF RecoverDone, BeginRecover, RecoverQueue, Is, Provisioning
    <3> QED
      BY <2>3, <3>1, <3>2, KickEffect, Zenon DEF RecoverDone
  <2>4. CASE RecoverStops
    BY <2>4, Zenon DEF RecoverStops
  <2> QED
    BY ONLY <1>8, <2>1, <2>2, <2>3, <2>4, Zenon DEF RecoverPass
<1>9. CASE CleanupPass
  <2>1. ASSUME NEW s \in Session, CleanupNext(s) PROVE Ownership' /\ CleanupReceiptTrue'
    BY <2>1, Zenon DEF CleanupNext, cleanupRuntime, Provisioning
  <2>2. CASE CleanupApply
    BY <2>2, Zenon DEF CleanupApply, cleanupRuntime
  <2>3. CASE CleanupAwaited
    BY <2>3, Zenon DEF CleanupAwaited
  <2>4. CASE CleanupDone
    <3>1. cStep' \notin {"seen", "wait"} /\ \A s \in cQueue' : status[s] # "none"
      BY <2>4, Zenon DEF CleanupDone, BeginCleanup, CleanupQueue, Is
    <3> QED
      BY <2>4, <3>1, Zenon DEF CleanupDone
  <2>5. CASE CleanupStops
    BY <2>5, Zenon DEF CleanupStops
  <2> QED
    BY ONLY <1>9, <2>1, <2>2, <2>3, <2>4, <2>5, ZenonT(30) DEF CleanupPass
<1>10. CASE Trigger
  <2>1. CASE Poll
    <3>1. reconcile
      BY <2>1, Zenon DEF Poll
    <3> QED
      BY <2>1, <3>1, ReconcileEffect, Zenon DEF Poll
  <2>2. CASE FinishHint
    <3>1. reconcile
      BY <2>2, Zenon DEF FinishHint
    <3> QED
      BY <2>2, <3>1, ReconcileEffect, Zenon DEF FinishHint
  <2> QED
    BY ONLY <1>10, <2>1, <2>2, Zenon DEF Trigger
<1>11. CASE ProcessStep
  <2>1. CASE activate
    <3>1. reconcile
      BY <2>1, Zenon DEF activate
    <3> QED
      BY <2>1, <3>1, ReconcileEffect, Zenon DEF activate
  <2>2. CASE dispose
    BY <2>2, Zenon DEF dispose, Is, Provisioning
  <2>3. CASE Crash
    BY <2>3, Zenon DEF Crash
  <2>4. CASE Boot
    BY <2>4, Zenon DEF Boot
  <2> QED
    BY ONLY <1>11, <2>1, <2>2, <2>3, <2>4, Zenon DEF ProcessStep
<1>12. CASE UNCHANGED vars
  BY <1>12, Zenon DEF vars
<1> QED
  BY ONLY [Next]_vars, <1>1, <1>2, <1>3, <1>4, <1>5, <1>6, <1>7, <1>8, <1>9, <1>10, <1>11, <1>12, ZenonT(30) DEF Next

-----------------------------------------------------------------------------

\* What the proofs carry about notices.
NoticeInv == NoticeBook /\ OneNotice /\ NoticeOfOutcome

\* A step that leaves the Agent's queue and every told row alone.
NoticesUntouched ==
  /\ UNCHANGED <<claimed, inbox, told, life>>
  /\ notified' \subseteq notified
  /\ \A t \in Session : status[t] \in {"finished", "failed"} =>
       status'[t] = status[t] /\ (t \in notified => t \in notified')

\* A handler that does not touch the notices keeps claims, queue and receipts in
\* step.
LEMMA NoticesKept == ASSUME TypeOK, NoticeInv, NoticesUntouched PROVE NoticeInv'
<1>1. OneNotice'
  BY Zenon DEF NoticesUntouched, NoticeInv, OneNotice
<1>2. notified \subseteq Session
  BY Zenon DEF TypeOK, RowTypes
<1>3. NoticeOfOutcome'
  BY <1>2, Zenon DEF NoticesUntouched, NoticeInv, NoticeOfOutcome
<1>4. NoticeBook'
  BY Zenon DEF NoticesUntouched, NoticeInv, NoticeBook, NoticeOfOutcome
<1> QED
  BY <1>1, <1>3, <1>4, Zenon DEF NoticeInv

\* deliverPending in an active supervisor keeps the book.
LEMMA NoticesDelivering ==
  ASSUME TypeOK, NoticeInv, deliverPending, life \in {"up", "dormant"}, life' = "up",
         status' = status, notified' = notified
  PROVE  NoticeInv'
<1>1. \A t \in Session :
        /\ inbox'[t] = IF t \in claimed' THEN 1 ELSE 0
        /\ t \in claimed' => /\ told[t] = 0 /\ t \notin notified
                             /\ status[t] \in {"finished", "failed"}
        /\ told[t] > 0 => t \in notified
        /\ told' = told
  BY DeliverEffect, Zenon DEF NoticeInv
<1>2. NoticeBook' /\ NoticeOfOutcome'
  BY <1>1, Zenon DEF NoticeInv, NoticeBook, NoticeOfOutcome
<1>3. OneNotice'
  <2> SUFFICES ASSUME NEW t \in Session PROVE inbox'[t] + told'[t] <= 1
    BY Zenon DEF OneNotice
  <2>1. told[t] \in Nat /\ told[t] <= 1
    BY DEF TypeOK, NoticeTypes, NoticeInv, OneNotice
  <2> QED
    BY <1>1, <2>1
<1> QED
  BY <1>2, <1>3, Zenon DEF NoticeInv

\* The Agent drains a notice: the claim becomes a receipt.
LEMMA DeliveredEffect ==
  ASSUME TypeOK, NoticeInv, NEW s \in Session, NoticeDelivered(s)
  PROVE  NoticeInv'
<1>a. /\ DOMAIN inbox = Session /\ DOMAIN told = Session
      /\ \A t \in Session : inbox[t] \in Nat /\ told[t] \in Nat
  BY Zenon DEF TypeOK, NoticeTypes
<1>b. life \in {"down", "dormant", "up", "disposed"} /\ notified \subseteq Session
  BY Zenon DEF TypeOK, LifeTypes, RowTypes
<1>1. NoticeOfOutcome'
  BY <1>b, Zenon DEF NoticeDelivered, NoticeInv, NoticeOfOutcome
<1>2. OneNotice'
  BY <1>a DEF NoticeDelivered, NoticeInv, OneNotice
<1>3. NoticeBook!(s)'
  <2>1. life \notin {"down", "dormant"}
    BY <1>a DEF NoticeDelivered, NoticeInv, NoticeBook
  <2>2. CASE life = "up"
    <3>1. s \in claimed /\ inbox[s] = 1 /\ told[s] = 0
      BY <1>a, <2>2 DEF NoticeDelivered, NoticeInv, NoticeBook
    <3>2. status[s] \in {"finished", "failed"}
      BY <3>1, Zenon DEF NoticeInv, NoticeBook
    <3>3. inbox'[s] = 0 /\ s \notin claimed' /\ s \in notified'
      BY <1>a, <3>1, <3>2 DEF NoticeDelivered
    <3> QED
      BY <2>2, <3>3, Zenon DEF NoticeDelivered, process
  <2> QED
    BY <1>b, <2>1, <2>2, Zenon DEF NoticeDelivered, process
<1>4. ASSUME NEW t \in Session, t # s PROVE NoticeBook!(t)'
  BY <1>a, <1>4, Zenon DEF NoticeDelivered, NoticeInv, NoticeBook, process
<1> QED
  BY <1>1, <1>2, <1>3, <1>4, Zenon DEF NoticeInv, NoticeBook

\* A dropped notice gives its claim back.
LEMMA DroppedEffect ==
  ASSUME TypeOK, NoticeInv, NEW s \in Session, NoticeDropped(s)
  PROVE  NoticeInv'
<1>a. /\ DOMAIN inbox = Session
      /\ \A t \in Session : inbox[t] \in Nat /\ told[t] \in Nat
  BY Zenon DEF TypeOK, NoticeTypes
<1>1. NoticeOfOutcome'
  BY Zenon DEF NoticeDropped, NoticeInv, NoticeOfOutcome, db
<1>2. OneNotice'
  BY <1>a DEF NoticeDropped, NoticeInv, OneNotice
<1>3. NoticeBook!(s)'
  BY <1>a DEF NoticeDropped, NoticeInv, NoticeBook, db, process
<1>4. ASSUME NEW t \in Session, t # s PROVE NoticeBook!(t)'
  BY <1>a, <1>4, Zenon DEF NoticeDropped, NoticeInv, NoticeBook, db, process
<1> QED
  BY <1>1, <1>2, <1>3, <1>4, Zenon DEF NoticeInv, NoticeBook

\* Claims, queued notices and receipts stay in step, so that no session is
\* reported twice in one process life.
LEMMA NoticesPreserved ==
  TypeOK /\ Ownership /\ FinishOutranks /\ NoticeInv /\ [Next]_vars => NoticeInv'
<1> SUFFICES ASSUME TypeOK, Ownership, FinishOutranks, NoticeInv, [Next]_vars
             PROVE  NoticeInv'
  BY Zenon
<1>a. /\ DOMAIN status = Session
      /\ life \in {"down", "dormant", "up", "disposed"}
      /\ \A t \in Session : inbox[t] \in Nat /\ told[t] \in Nat
  BY Zenon DEF TypeOK, RowTypes, NoticeTypes, LifeTypes
<1>b. notified \subseteq Session
  BY Zenon DEF TypeOK, RowTypes
<1> USE DEF db, notices, process
<1>1. ASSUME NEW s \in Session, StartStep(s) PROVE NoticeInv'
  <2>1. ASSUME NEW m \in Mind, Claim(s, m) PROVE NoticeInv'
    BY <1>a, <2>1, NoticesKept, Zenon DEF NoticesUntouched, Claim
  <2>2. ASSUME NEW r \in BOOLEAN, SourceReady(s, r) PROVE NoticeInv'
    BY <1>a, <2>2, NoticesKept, Zenon DEF NoticesUntouched, SourceReady
  <2>3. CASE SourceFailed(s)
    BY <1>a, <2>3, NoticesKept, Zenon DEF NoticesUntouched, SourceFailed
  <2>4. CASE SecretCreated(s)
    BY <1>a, <2>4, NoticesKept, Zenon DEF NoticesUntouched, SecretCreated
  <2>5. ASSUME NEW r \in BOOLEAN, ProvisionRejected(s, r) PROVE NoticeInv'
    BY <1>a, <2>5, NoticesKept, Zenon DEF NoticesUntouched, ProvisionRejected
  <2>6. CASE Provisioned(s)
    BY <1>a, <2>6, NoticesKept, Zenon DEF NoticesUntouched, Provisioned, Advanced
  <2>7. CASE StartUnwinds(s)
    BY <1>a, <2>7, NoticesKept, Zenon DEF NoticesUntouched, StartUnwinds
  <2> QED
    BY ONLY <1>1, <2>1, <2>2, <2>3, <2>4, <2>5, <2>6, <2>7, ZenonT(60) DEF StartStep
<1>2. ASSUME NEW s \in Session, DismissStep(s) PROVE NoticeInv'
  <2>1. CASE Dismiss(s)
    BY <1>a, <2>1, NoticesKept, Zenon DEF NoticesUntouched, Dismiss, Active
  <2>2. CASE DismissResumes(s)
    BY <1>a, <2>2, NoticesKept, Zenon DEF NoticesUntouched, DismissResumes
  <2> QED
    BY ONLY <1>2, <2>1, <2>2, Zenon DEF DismissStep
<1>3. ASSUME NEW s \in Session, CleanupCall(s) PROVE NoticeInv'
  <2>1. CASE CleanupSucceeds(s)
    BY <1>a, <2>1, NoticesKept, Zenon DEF NoticesUntouched, CleanupSucceeds
  <2>2. CASE CleanupFails(s)
    BY <1>a, <2>2, NoticesKept, Zenon DEF NoticesUntouched, CleanupFails
  <2> QED
    BY ONLY <1>3, <2>1, <2>2, Zenon DEF CleanupCall
<1>4. ASSUME NEW s \in Session, AgentStep(s) PROVE NoticeInv'
  <2>1. CASE NoticeDelivered(s)
    BY <1>a, <2>1, DeliveredEffect, Zenon
  <2>2. CASE NoticeDropped(s)
    BY <1>a, <2>2, DroppedEffect, Zenon
  <2> QED
    BY ONLY <1>4, <2>1, <2>2, Zenon DEF AgentStep
<1>5. ASSUME NEW s \in Session, WorkerStep(s) PROVE NoticeInv'
  <2>1. CASE PutArtifact(s)
    BY <1>a, <2>1, NoticesKept, Zenon DEF NoticesUntouched, PutArtifact
  <2>2. CASE SendFinish(s)
    BY <1>a, <2>2, NoticesKept, Zenon DEF NoticesUntouched, SendFinish
  <2>3. CASE insertFinish(s)
    BY <1>a, <2>3, NoticesKept, Zenon DEF NoticesUntouched, insertFinish, FinishOutranks, Active
  <2> QED
    BY ONLY <1>5, <2>1, <2>2, <2>3, Zenon DEF WorkerStep
<1>6. ASSUME NEW s \in Session, ClusterStep(s) PROVE NoticeInv'
  <2>1. CASE AdmitSecret(s)
    BY <1>a, <2>1, NoticesKept, Zenon DEF NoticesUntouched, AdmitSecret
  <2>2. CASE AdmitPod(s)
    BY <1>a, <2>2, NoticesKept, Zenon DEF NoticesUntouched, AdmitPod
  <2>3. CASE PodStep(s)
    BY <1>a, <2>3, NoticesKept, Zenon DEF NoticesUntouched, PodStep
  <2>4. CASE DeletePod(s)
    BY <1>a, <2>4, NoticesKept, Zenon DEF NoticesUntouched, DeletePod
  <2>5. CASE DeleteSecret(s)
    BY <1>a, <2>5, NoticesKept, Zenon DEF NoticesUntouched, DeleteSecret
  <2> QED
    BY ONLY <1>6, <2>1, <2>2, <2>3, <2>4, <2>5, Zenon DEF ClusterStep
<1>7. ASSUME NEW s \in Session, GraceExpires(s) PROVE NoticeInv'
  BY <1>7, NoticesKept, Zenon DEF NoticesUntouched, GraceExpires
<1>8. CASE RecoverPass
  <2>1. ASSUME NEW s \in Session, RecoverNext(s) PROVE NoticeInv'
    BY <1>a, <2>1, NoticesKept, Zenon DEF NoticesUntouched, RecoverNext, Active
  <2>2. CASE RecoverApply
    <3>1. rAt \in Session
      BY <1>a, <2>2, Zenon DEF RecoverApply, Ownership
    <3> QED
      BY <1>a, <2>2, <3>1, VerdictMoves, NoticesKept, Zenon
      DEF NoticesUntouched, RecoverApply, Active
  <2>3. CASE RecoverDone
    <3>1. status' = status
      BY <1>a, <2>3, RecoverRowsSame, Zenon DEF RecoverDone, BeginRecover
    <3>2. deliverPending /\ life \in {"up", "dormant"} /\ life' = "up" /\ notified' = notified
      BY <1>a, <2>3, Zenon DEF RecoverDone
    <3> QED
      BY ONLY TypeOK, NoticeInv, <3>1, <3>2, NoticesDelivering
  <2>4. CASE RecoverStops
    BY <1>a, <2>4, NoticesKept, Zenon DEF NoticesUntouched, RecoverStops
  <2> QED
    BY ONLY <1>8, <2>1, <2>2, <2>3, <2>4, Zenon DEF RecoverPass
<1>9. CASE CleanupPass
  <2>1. ASSUME NEW s \in Session, CleanupNext(s) PROVE NoticeInv'
    BY <1>a, <2>1, NoticesKept, Zenon DEF NoticesUntouched, CleanupNext
  <2>2. CASE CleanupApply
    BY <1>a, <2>2, NoticesKept, Zenon DEF NoticesUntouched, CleanupApply
  <2>3. CASE CleanupAwaited
    BY <1>a, <2>3, NoticesKept, Zenon DEF NoticesUntouched, CleanupAwaited
  <2>4. CASE CleanupDone
    BY <1>a, <2>4, NoticesKept, Zenon DEF NoticesUntouched, CleanupDone
  <2>5. CASE CleanupStops
    BY <1>a, <2>5, NoticesKept, Zenon DEF NoticesUntouched, CleanupStops
  <2> QED
    BY ONLY <1>9, <2>1, <2>2, <2>3, <2>4, <2>5, Zenon DEF CleanupPass
<1>10. CASE Trigger
  <2>1. CASE Poll
    BY <1>a, <2>1, RecoverRowsSame, NoticesKept, Zenon DEF NoticesUntouched, Poll, reconcile, BeginRecover
  <2>2. CASE FinishHint
    <3>1. status' = status
      BY <1>a, <2>2, RecoverRowsSame, Zenon DEF FinishHint, reconcile, BeginRecover
    <3>2. deliverPending /\ life \in {"up", "dormant"} /\ life' = "up" /\ notified' = notified
      BY <1>a, <2>2, Zenon DEF FinishHint
    <3> QED
      BY ONLY TypeOK, NoticeInv, <3>1, <3>2, NoticesDelivering
  <2> QED
    BY ONLY <1>10, <2>1, <2>2, Zenon DEF Trigger
<1>11. CASE ProcessStep
  <2>1. CASE activate
    <3>1. status' = status
      BY <1>a, <2>1, RecoverRowsSame, Zenon DEF activate, reconcile, BeginRecover
    <3>2. deliverPending /\ life \in {"up", "dormant"} /\ life' = "up" /\ notified' = notified
      BY <1>a, <2>1, Zenon DEF activate
    <3> QED
      BY ONLY TypeOK, NoticeInv, <3>1, <3>2, NoticesDelivering
  <2>2. CASE dispose
    <3>1. OneNotice'
      BY <1>a, <2>2, Zenon DEF dispose, NoticeInv, OneNotice
    <3>2. NoticeOfOutcome'
      BY <1>a, <2>2, <1>b, Zenon DEF dispose, NoticeInv, NoticeOfOutcome, Is
    <3>3. NoticeBook'
      BY <1>a, <2>2, ZenonT(30) DEF dispose, NoticeInv, NoticeBook
    <3> QED
      BY <3>1, <3>2, <3>3, Zenon DEF NoticeInv
  <2>3. CASE Crash
    BY <1>a, <2>3 DEF Crash, NoticeInv, NoticeBook, OneNotice, NoticeOfOutcome
  <2>4. CASE Boot
    BY <1>a, <2>4, Zenon DEF Boot, NoticeInv, NoticeBook, OneNotice, NoticeOfOutcome
  <2> QED
    BY ONLY <1>11, <2>1, <2>2, <2>3, <2>4, ZenonT(60) DEF ProcessStep
<1>12. CASE UNCHANGED vars
  BY <1>12, NoticesKept, Zenon DEF NoticesUntouched, vars
<1> QED
  BY ONLY [Next]_vars, <1>1, <1>2, <1>3, <1>4, <1>5, <1>6, <1>7, <1>8, <1>9, <1>10, <1>11, <1>12, ZenonT(60) DEF Next

\* No step lets two active sessions share a Mind item, or exceeds the limit:
\* only a claim adds an active row, and it checks both.
LEMMA AdmissionPreserved ==
  ASSUME TypeOK, TypeOK', OneActivePerMind, WithinCapacity, StatusMoves
  PROVE  OneActivePerMind' /\ WithinCapacity'
<1> DEFINE A == Is(Active)
           B == {s \in Session : status'[s] \in Active}
<1> USE SessionAssumption, ConfigAssumption
<1>1. IsFiniteSet(A) /\ A \subseteq Session
  BY FS_Subset, Zenon DEF Is
<1>2. Cardinality(A) \in Nat
  BY <1>1, FS_CardinalityType, Zenon
<1>3. Is(Active)' = B
  BY Zenon DEF Is
<1>4. CASE ClaimStep
  <2>1. PICK s \in Session, m \in Mind : Claim(s, m)
    BY <1>4, Zenon DEF ClaimStep
  <2>2. B = A \cup {s} /\ s \notin A
    BY <2>1, ZenonT(30) DEF Claim, Is, TypeOK, RowTypes, Active
  <2>3. Cardinality(B) = Cardinality(A) + 1
    BY <1>1, <2>2, FS_AddElement, Zenon
  <2>4. WithinCapacity'
    BY SMTT(60), <1>2, <1>3, <2>1, <2>3 DEF WithinCapacity, Claim, HasCapacity
  <2>5. OneActivePerMind'
    BY <1>3, <2>1, <2>2, ZenonT(30) DEF OneActivePerMind, Claim, Unclaimed, TypeOK, RowTypes
  <2> QED
    BY <2>4, <2>5, Zenon
<1>5. CASE RowsForward
  <2>1. B \subseteq A
    BY <1>5, Zenon DEF RowsForward, Is
  <2>2. Cardinality(B) <= Cardinality(A) /\ Cardinality(B) \in Nat
    BY <1>1, <2>1, FS_Subset, FS_CardinalityType, Zenon
  <2> QED
    BY <1>2, <1>3, <1>5, <2>1, <2>2 DEF RowsForward, OneActivePerMind, WithinCapacity
<1> QED
  BY <1>4, <1>5, Zenon DEF StatusMoves

\* The initial state satisfies the whole invariant.
LEMMA InitInv == Init => Inv
<1> SUFFICES ASSUME Init PROVE Inv
  BY Zenon
<1> USE SessionAssumption, MindAssumption, ConfigAssumption DEF Init
<1>1. TypeOK
  <2>1. FlagTypes
    BY Zenon DEF FlagTypes
  <2>2. RowTypes /\ ClusterTypes /\ CallTypes
    BY Zenon DEF RowTypes, ClusterTypes, CallTypes, Status, Phase
  <2>3. PassTypes /\ NoticeTypes /\ LifeTypes
    BY DEF PassTypes, NoticeTypes, LifeTypes, Phase
  <2> QED
    BY <2>1, <2>2, <2>3, Zenon DEF TypeOK
<1>2. Is(Active) = {}
  BY Zenon DEF Is, Active
<1>3. OneActivePerMind /\ WithinCapacity
  BY <1>2, FS_EmptySet DEF OneActivePerMind, WithinCapacity
<1>4. FinishOutranks /\ CleanupReceiptTrue /\ Ownership
  BY Zenon DEF FinishOutranks, CleanupReceiptTrue, Ownership, Creating
<1>5. NoticeOfOutcome /\ OneNotice /\ NoticeBook
  BY DEF NoticeOfOutcome, OneNotice, NoticeBook
<1> QED
  BY <1>1, <1>3, <1>4, <1>5, Zenon DEF Inv

\* Every step preserves the whole invariant and moves rows as StatusMoves says.
LEMMA StepInv == Inv /\ [Next]_vars => Inv' /\ StatusMoves
<1> SUFFICES ASSUME Inv, [Next]_vars PROVE Inv' /\ StatusMoves
  BY Zenon
<1>1. TypeOK'
  BY TypePreserved, Zenon DEF Inv
<1>2. StatusMoves /\ FinishOutranks'
  BY RowsPreserved, Zenon DEF Inv
<1>3. Ownership' /\ CleanupReceiptTrue'
  BY OwnershipPreserved, Zenon DEF Inv
<1>4. NoticeInv'
  BY NoticesPreserved, Zenon DEF Inv, NoticeInv
<1>5. OneActivePerMind' /\ WithinCapacity'
  BY <1>1, <1>2, AdmissionPreserved, Zenon DEF Inv
<1> QED
  BY <1>1, <1>2, <1>3, <1>4, <1>5, Zenon DEF Inv, NoticeInv

\* The broker keeps the whole invariant of WorkerSessions in every reachable
\* state: types, one worker per Mind item, capacity, finish and status in step,
\* true cleanup receipts, one notice per life.
THEOREM Invariance == Spec => []Inv
  BY InitInv, StepInv, PTL DEF Spec

\* A cleanup receipt is true for good (cleanupCompleted, cleanupRuntime).
THEOREM ReceiptsTrue == Spec => []CleanupReceiptTrue
<1>1. Inv => CleanupReceiptTrue
  BY Zenon DEF Inv
<1> QED
  BY Invariance, <1>1, PTL

\* The claiming transaction of start admits one active worker per Mind item and
\* at most maxConcurrent of them, for any number of sessions and restarts.
THEOREM Admission == Spec => [](OneActivePerMind /\ WithinCapacity)
<1>1. Inv => OneActivePerMind /\ WithinCapacity
  BY Zenon DEF Inv
<1> QED
  BY Invariance, <1>1, PTL

\* A durable finish outranks every later verdict on the session.
THEOREM FinishDurable == Spec => []FinishOutranks
<1>1. Inv => FinishOutranks
  BY Zenon DEF Inv
<1> QED
  BY Invariance, <1>1, PTL

\* The Agent is told at most once per process life.
THEOREM ToldOnce == Spec => []OneNotice
<1>1. Inv => OneNotice
  BY Zenon DEF Inv
<1> QED
  BY Invariance, <1>1, PTL

\* No step revives or relabels a terminal row.
THEOREM TerminalForGood == Spec => TerminalIsFinal
<1>1. Inv /\ [Next]_vars =>
        [\A s \in Session : status[s] \in Terminal => status'[s] = status[s]]_vars
  BY StepInv, Zenon DEF StatusMoves, ClaimStep, RowsForward, Claim, Inv, TypeOK, RowTypes, Active, Terminal
<1> QED
  BY Invariance, <1>1, PTL DEF Spec, TerminalIsFinal
=============================================================================

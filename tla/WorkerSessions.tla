--------------------------- MODULE WorkerSessions ---------------------------
(***************************************************************************)
(* The delegated-worker broker: src/src/worker/spawn.ts (start, dismiss,   *)
(* recoverState, cleanupPending), supervisor.ts (reconcile, deliverPending,*)
(* kickCleanup, dispose) and the finish transaction of mailbox.ts, run     *)
(* against a Kubernetes cluster, against crashes of the resident process,  *)
(* and against the Agent that consumes terminal notices.                   *)
(*                                                                         *)
(* One Node process runs all of this, so a handler is atomic up to its     *)
(* next `await`.  Every await is a control point of the model: start[s],   *)
(* rStep, cStep, cleaning[s] and waiting.  SQLite rows (status, mind,      *)
(* finish, ...) survive a crash; everything else of the process does not.  *)
(***************************************************************************)
EXTENDS Naturals, FiniteSets

CONSTANTS Session,        \* worker session ids the broker may draw
          Mind,           \* Mind items validateMind accepts
          MaxConcurrent,  \* config.workers.maxConcurrent
          SourceRoot,     \* whether workers.workspace.source_root is configured
          MaxRestarts,    \* bound: how often the process exits and boots again
          NoMind,         \* mind_id of a session that was never claimed
          NoSession       \* no row under inspection

ASSUME SessionAssumption == IsFiniteSet(Session) /\ NoSession \notin Session
ASSUME MindAssumption == NoMind \notin Mind
ASSUME ConfigAssumption == /\ MaxConcurrent \in Nat /\ MaxRestarts \in Nat
                           /\ SourceRoot \in BOOLEAN

VARIABLES
  \* worker_sessions rows, and the rows of the mailbox and artifact tables
  status,     \* worker_sessions.status; "none" before the row exists
  mind,       \* worker_sessions.mind_id
  bound,      \* sessions with a bound source receipt
  artifact,   \* sessions with a workspace artifact in custody
  finish,     \* sessions with a durable finish message
  notified,   \* completion_notified_at IS NOT NULL
  cleaned,    \* runtime_cleanup_completed_at IS NOT NULL
  \* the cluster and the worker inside the Pod
  pod,        \* phase of the session's Pod; "terminating" once deletion is accepted
  secret,     \* sessions whose control-token Secret exists
  sent,       \* workers that have put their finish on the wire
  \* the resident process
  life,       \* "down", "dormant" (not activated), "up", "disposed"
  restarts,   \* boots so far
  start,      \* control point of the start() call that owns the session
  cleaning,   \* the single-flight runtime.cleanup call, and its canPersist
  waiting,    \* dismiss() calls awaiting a locally owned start
  observed,   \* finishCleanupObservedAt: "no", "fresh" or "expired"
  rStep, rDirty, rQueue, rAt, rSeen,           \* the reconcile pass
  cStep, cDirty, cQueue, cAt, cSeen, cExpired, \* the cleanup pass
  claimed,    \* supervisor's claimed set
  inbox,      \* notices of each session waiting in the Agent's queue
  told        \* history: notices of this process life the Agent consumed

db      == <<status, mind, bound, artifact, finish, notified, cleaned>>
cluster == <<pod, secret, sent>>
calls   == <<start, cleaning, waiting>>
rPass   == <<rStep, rDirty, rQueue, rAt, rSeen>>
cPass   == <<cStep, cDirty, cQueue, cAt, cSeen, cExpired>>
notices == <<claimed, inbox, told>>
process == <<life, restarts>>
vars    == <<db, cluster, calls, rPass, cPass, notices, process, observed>>

Active   == {"spawning", "running", "idle"}
Terminal == {"finished", "failed", "dismissed"}
Status   == {"none"} \cup Active \cup Terminal
Phase    == {"none", "pending", "running", "succeeded", "failed", "terminating", "gone"}
Removed  == {"none", "terminating", "gone"}
Creating == {"source", "secret", "pod"}

Is(S) == {s \in Session : status[s] \in S}

\* provisioning.has(s): the local start() has not reached its finally block.
Provisioning(s) == start[s] # "no"

RowTypes ==
  /\ status \in [Session -> Status]
  /\ mind \in [Session -> Mind \cup {NoMind}]
  /\ bound \subseteq Session /\ artifact \subseteq Session
  /\ finish \subseteq Session
  /\ notified \subseteq Session /\ cleaned \subseteq Session

ClusterTypes ==
  /\ pod \in [Session -> Phase]
  /\ secret \subseteq Session /\ sent \subseteq Session

CallTypes ==
  /\ start \in [Session -> {"no", "failing", "compensating"} \cup Creating]
  /\ cleaning \in [Session -> {"no", "fenced", "unfenced"}]
  /\ waiting \subseteq Session
  /\ observed \in [Session -> {"no", "fresh", "expired"}]

PassTypes ==
  /\ rStep \in {"off", "next", "seen", "settling"}
  /\ cStep \in {"off", "next", "seen", "wait", "settling"}
  /\ rQueue \subseteq Session /\ cQueue \subseteq Session
  /\ rAt \in Session \cup {NoSession} /\ cAt \in Session \cup {NoSession}
  /\ rSeen \in Phase \cup {"error"} /\ cSeen \in Phase \cup {"error"}

FlagTypes == rDirty \in BOOLEAN /\ cDirty \in BOOLEAN /\ cExpired \in BOOLEAN

NoticeTypes ==
  /\ claimed \subseteq Session
  /\ inbox \in [Session -> Nat] /\ told \in [Session -> Nat]

LifeTypes ==
  /\ life \in {"down", "dormant", "up", "disposed"}
  /\ restarts \in 0..MaxRestarts
  /\ life = "down" => restarts < MaxRestarts

TypeOK ==
  /\ RowTypes /\ ClusterTypes /\ CallTypes /\ PassTypes /\ FlagTypes
  /\ NoticeTypes /\ LifeTypes

Init ==
  /\ status = [s \in Session |-> "none"]
  /\ mind = [s \in Session |-> NoMind]
  /\ bound = {} /\ artifact = {} /\ finish = {} /\ notified = {} /\ cleaned = {}
  /\ pod = [s \in Session |-> "none"]
  /\ secret = {} /\ sent = {}
  /\ life = "dormant" /\ restarts = 0
  /\ start = [s \in Session |-> "no"]
  /\ cleaning = [s \in Session |-> "no"]
  /\ waiting = {}
  /\ observed = [s \in Session |-> "no"]
  /\ rStep = "off" /\ rDirty = FALSE /\ rQueue = {}
  /\ rAt = NoSession /\ rSeen = "none"
  /\ cStep = "off" /\ cDirty = FALSE /\ cQueue = {}
  /\ cAt = NoSession /\ cSeen = "none" /\ cExpired = FALSE
  /\ claimed = {}
  /\ inbox = [s \in Session |-> 0] /\ told = [s \in Session |-> 0]

-----------------------------------------------------------------------------
(* Shared steps of the handlers.                                           *)

MutPendingForgetsClaims ==
  {s \in Session : status[s] \in {"finished", "failed"} /\ s \notin notified}

\* deliverPending: claim every unnotified finished or failed row that is not
\* claimed yet and hand a notice to the Agent's queue.
Pending == {s \in Session : /\ status[s] \in {"finished", "failed"}
                            /\ s \notin notified
                            /\ s \notin claimed}
deliverPending ==
  /\ claimed' = claimed \cup Pending
  /\ inbox' = [s \in Session |-> inbox[s] + IF s \in Pending THEN 1 ELSE 0]
  /\ UNCHANGED told

\* cleanupRuntime: nothing once the receipt exists; otherwise join the call in
\* flight or issue one that persists its result under the given fence.
cleanupRuntime(s, fence) ==
  cleaning' = IF s \in cleaned \/ cleaning[s] # "no" THEN cleaning
              ELSE [cleaning EXCEPT ![s] = fence]

\* The finally block of start: release the ownership marker.  Its listener
\* only calls reconcile() in a setImmediate, which is Poll.
Settled(s) == start' = [start EXCEPT ![s] = "no"]

\* Begin a recoverState pass: repair failed rows that have a finish, snapshot
\* the active rows no local start owns.
RecoverRows == [s \in Session |-> IF status[s] = "failed" /\ s \in finish
                                  THEN "finished" ELSE status[s]]

RecoverQueue == {s \in Is(Active) : ~Provisioning(s)}

BeginRecover ==
  /\ status' = RecoverRows
  /\ rStep' = "next" /\ rDirty' = FALSE
  /\ rQueue' = RecoverQueue
  /\ UNCHANGED <<rAt, rSeen>>

\* reconcile(): mark dirty and start a pass unless one is current.
reconcile ==
  IF rStep = "off" THEN BeginRecover
  ELSE rDirty' = TRUE /\ UNCHANGED <<status, rStep, rQueue, rAt, rSeen>>

\* Begin a cleanupPending pass over the terminal rows with no receipt.
CleanupQueue == Is(Terminal) \ cleaned

BeginCleanup ==
  /\ cStep' = "next" /\ cDirty' = FALSE
  /\ cQueue' = CleanupQueue
  /\ UNCHANGED <<cAt, cSeen, cExpired>>

\* kickCleanup(): mark dirty and start a pass unless one is current.
kickCleanup ==
  IF cStep = "off" THEN BeginCleanup
  ELSE cDirty' = TRUE /\ UNCHANGED <<cStep, cQueue, cAt, cSeen, cExpired>>

-----------------------------------------------------------------------------
(* start(): claim, prepare source, provision.                              *)

HasCapacity == Cardinality(Is(Active)) < MaxConcurrent

Unclaimed(m) == \A t \in Is(Active) : mind[t] # m

\* The claiming transaction: capacity, one active session per Mind item, a
\* fresh id; then the session is locally owned.
Claim(s, m) ==
  /\ life = "up"
  /\ status[s] = "none"
  /\ HasCapacity /\ Unclaimed(m)
  /\ status' = [status EXCEPT ![s] = "spawning"]
  /\ mind' = [mind EXCEPT ![s] = m]
  /\ start' = [start EXCEPT ![s] = "source"]
  /\ UNCHANGED <<bound, artifact, finish, notified, cleaned, cluster, cleaning,
                 waiting, rPass, cPass, notices, process, observed>>

\* prepareSource returned, with a receipt to bind or with none.
SourceReady(s, receipt) ==
  /\ start[s] = "source"
  /\ receipt => SourceRoot
  /\ IF life # "up" \/ (receipt /\ status[s] # "spawning")
     THEN Settled(s) /\ UNCHANGED bound
     ELSE /\ start' = [start EXCEPT ![s] = "secret"]
          /\ bound' = IF receipt THEN bound \cup {s} ELSE bound
  /\ UNCHANGED <<status, mind, artifact, finish, notified, cleaned, cluster,
                 cleaning, waiting, rPass, cPass, notices, process, observed>>

\* prepareSource threw: fail the row with its cleanup receipt already set,
\* because no Pod was created.
SourceFailed(s) ==
  /\ start[s] = "source"
  /\ IF life = "up" /\ status[s] = "spawning"
     THEN /\ status' = [status EXCEPT ![s] = "failed"]
          /\ notified' = notified \ {s}
          /\ cleaned' = cleaned \cup {s}
     ELSE UNCHANGED <<status, notified, cleaned>>
  /\ Settled(s)
  /\ UNCHANGED <<mind, bound, artifact, finish, cluster, cleaning, waiting,
                 rPass, cPass, notices, process, observed>>

\* The Secret was created and its creation acknowledged.
SecretCreated(s) ==
  /\ start[s] = "secret" /\ s \in secret
  /\ start' = [start EXCEPT ![s] = "pod"]
  /\ UNCHANGED <<db, cluster, cleaning, waiting, rPass, cPass, notices, process,
                 observed>>

\* runtime.provision rejected (an API error, a lost reply, the abort of
\* dispose).  A failed Pod creation tries to take its Secret back first.
ProvisionRejected(s, secretTaken) ==
  /\ start[s] \in {"secret", "pod"}
  /\ secretTaken => start[s] = "pod"
  /\ secret' = IF secretTaken THEN secret \ {s} ELSE secret
  /\ IF life # "up"
     THEN /\ start' = [start EXCEPT ![s] = "compensating"]
          /\ UNCHANGED <<status, notified, cleaning>>
     ELSE /\ status' = [status EXCEPT ![s] = IF @ = "spawning" THEN "failed" ELSE @]
          /\ notified' = IF status[s] = "spawning" THEN notified \ {s} ELSE notified
          /\ IF status[s] = "finished"
             THEN Settled(s) /\ UNCHANGED cleaning
             ELSE /\ start' = [start EXCEPT ![s] = "failing"]
                  /\ cleanupRuntime(s, "unfenced")
  /\ UNCHANGED <<mind, bound, artifact, finish, cleaned, pod, sent, waiting,
                 rPass, cPass, notices, process, observed>>

\* The guarded UPDATE after a provision: only a spawning row starts running.
MutAdvancedUnguarded(s) == "running"
Advanced(s) == IF status[s] = "spawning" THEN "running" ELSE status[s]

\* runtime.provision returned its receipt.
Provisioned(s) ==
  /\ start[s] = "pod" /\ pod[s] # "none"
  /\ IF life # "up"
     THEN /\ start' = [start EXCEPT ![s] = "compensating"]
          /\ UNCHANGED <<status, cleaning>>
     ELSE /\ status' = [status EXCEPT ![s] = Advanced(s)]
          /\ IF status[s] \in {"spawning", "finished"}
             THEN Settled(s) /\ UNCHANGED cleaning
             ELSE /\ start' = [start EXCEPT ![s] = "failing"]
                  /\ cleanupRuntime(s, "unfenced")
  /\ UNCHANGED <<mind, bound, artifact, finish, notified, cleaned, cluster,
                 waiting, rPass, cPass, notices, process, observed>>

\* start() stops waiting: for the cleanup it joined, or for the best-effort
\* compensation of a start that outlived its supervisor.
StartUnwinds(s) ==
  /\ \/ start[s] = "failing" /\ cleaning[s] = "no"
     \/ start[s] = "compensating"
  /\ Settled(s)
  /\ UNCHANGED <<db, cluster, cleaning, waiting, rPass, cPass, notices, process,
                 observed>>

-----------------------------------------------------------------------------
(* dismiss() and the single-flight runtime cleanup.                        *)

MutMustWaitOnlyForSource(s) == start[s] = "source"

\* The creation dismiss() awaits: the promise of provisioning.get(id), which
\* settleProvisioning resolves as soon as runtime.provision settles.
MustWait(s) == start[s] \in Creating

\* Revoke an active row (or retry the cleanup of a dismissed one); wait for a
\* locally owned creation to settle before cleaning up.
Dismiss(s) ==
  /\ life = "up"
  /\ status[s] \in Active \/ (status[s] = "dismissed" /\ s \notin cleaned)
  /\ status' = [status EXCEPT ![s] = "dismissed"]
  /\ IF MustWait(s)
     THEN waiting' = waiting \cup {s} /\ UNCHANGED cleaning
     ELSE cleanupRuntime(s, "fenced") /\ UNCHANGED waiting
  /\ UNCHANGED <<mind, bound, artifact, finish, notified, cleaned, cluster, start,
                 rPass, cPass, notices, process, observed>>

DismissResumes(s) ==
  /\ s \in waiting /\ ~MustWait(s)
  /\ waiting' = waiting \ {s}
  /\ IF life = "up" THEN cleanupRuntime(s, "fenced") ELSE UNCHANGED cleaning
  /\ UNCHANGED <<db, cluster, start, rPass, cPass, notices, process, observed>>

\* canPersist: the caller's scope is current, or the caller gave no scope.
CanPersist(s) == cleaning[s] = "unfenced" \/ life = "up"

\* runtime.cleanup returned.  kubectl delete runs with --wait=false: the cluster
\* accepted both deletions, and a running Pod may still be terminating.
CleanupSucceeds(s) ==
  /\ cleaning[s] # "no" /\ pod[s] \in Removed /\ s \notin secret
  /\ cleaning' = [cleaning EXCEPT ![s] = "no"]
  /\ cleaned' = IF CanPersist(s) /\ status[s] \in Terminal
                THEN cleaned \cup {s} ELSE cleaned
  /\ UNCHANGED <<status, mind, bound, artifact, finish, notified, cluster, start,
                 waiting, rPass, cPass, notices, process, observed>>

\* runtime.cleanup threw; only runtime_cleanup_error is recorded.
CleanupFails(s) ==
  /\ cleaning[s] # "no"
  /\ cleaning' = [cleaning EXCEPT ![s] = "no"]
  /\ UNCHANGED <<db, cluster, start, waiting, rPass, cPass, notices, process,
                 observed>>

-----------------------------------------------------------------------------
(* The reconcile pass: recoverState, then deliverPending and kickCleanup.  *)

\* What runtime.inspect can answer: a terminating Pod still reports Running, and
\* a Pod never created reads as missing like one that is gone.
View(s) == {IF pod[s] = "terminating" THEN "running" ELSE pod[s], "error"}

\* Next row of the pass: a durable finish settles it, otherwise inspect.
RecoverNext(s) ==
  /\ rStep = "next" /\ life = "up" /\ s \in rQueue
  /\ rQueue' = rQueue \ {s}
  /\ IF s \in finish
     THEN /\ status' = [status EXCEPT ![s] = IF @ \in Active THEN "finished" ELSE @]
          /\ UNCHANGED <<rStep, rAt, rSeen>>
     ELSE /\ rStep' = "seen" /\ rAt' = s
          /\ rSeen' \in View(s)
          /\ UNCHANGED status
  /\ UNCHANGED <<mind, bound, artifact, finish, notified, cleaned, cluster, calls,
                 rDirty, cPass, notices, process, observed>>

\* The inspection returned: apply what it saw to a row that is still active.
MutVerdictOnStaleRow(s, seen) ==
  CASE s \in finish -> "finished"
    [] s \notin finish /\ seen \in {"error", "pending"} -> status[s]
    [] s \notin finish /\ seen = "running" -> "running"
    [] OTHER -> "failed"
Verdict(s, seen) ==
  IF status[s] \notin Active THEN status[s]
  ELSE CASE s \in finish -> "finished"
         [] s \notin finish /\ seen \in {"error", "pending"} -> status[s]
         [] s \notin finish /\ seen = "running" -> "running"
         [] OTHER -> "failed"

RecoverApply ==
  /\ rStep = "seen" /\ life = "up"
  /\ status' = [status EXCEPT ![rAt] = Verdict(rAt, rSeen)]
  /\ notified' = IF status'[rAt] = "failed" /\ status[rAt] \in Active
                 THEN notified \ {rAt} ELSE notified
  /\ rStep' = "next" /\ rAt' = NoSession /\ rSeen' = "none"
  /\ UNCHANGED <<mind, bound, artifact, finish, cleaned, cluster, calls, rDirty,
                 rQueue, cPass, notices, process, observed>>

\* End of the pass; again while dirty.
RecoverDone ==
  /\ rStep = "next" /\ life = "up" /\ rQueue = {}
  /\ deliverPending
  /\ kickCleanup
  /\ IF rDirty THEN BeginRecover
     ELSE rStep' = "settling" /\ UNCHANGED <<status, rDirty, rQueue, rAt, rSeen>>
  /\ UNCHANGED <<mind, bound, artifact, finish, notified, cleaned, cluster, calls,
                 process, observed>>

\* A disposed pass stops at its next isCurrent check; a finished pass clears
\* reconcileCurrent one microtask after its last look at the dirty flag.
RecoverStops ==
  /\ rStep = "settling" \/ (rStep \in {"next", "seen"} /\ life = "disposed")
  /\ rStep' = "off" /\ rQueue' = {} /\ rAt' = NoSession /\ rSeen' = "none"
  /\ UNCHANGED <<db, cluster, calls, rDirty, cPass, notices, process, observed>>

\* The poll timer, the reconcile() every API call begins with, and the one a
\* settled start() schedules.
Poll ==
  /\ life = "up"
  /\ reconcile
  /\ UNCHANGED <<mind, bound, artifact, finish, notified, cleaned, cluster, calls,
                 cPass, notices, process, observed>>

\* The setImmediate of the finish listener.  It fires after the first finish
\* and after every exact retry, and a retry can arrive at any time.
FinishHint ==
  /\ life = "up" /\ finish \cap sent # {}
  /\ deliverPending
  /\ reconcile
  /\ UNCHANGED <<mind, bound, artifact, finish, notified, cleaned, cluster, calls,
                 cPass, process, observed>>

-----------------------------------------------------------------------------
(* The cleanup pass: cleanupPending.                                       *)

\* Next row: skip a locally owned one; inspect a finished one, noting when it
\* was first seen; clean up the others at once.
CleanupNext(s) ==
  /\ cStep = "next" /\ life = "up" /\ s \in cQueue
  /\ cQueue' = cQueue \ {s}
  /\ CASE Provisioning(s) ->
            UNCHANGED <<cStep, cAt, cSeen, cExpired, observed, cleaning>>
       [] ~Provisioning(s) /\ status[s] = "finished" ->
            /\ cStep' = "seen" /\ cAt' = s
            /\ cSeen' \in View(s)
            /\ observed' = [observed EXCEPT ![s] = IF @ = "no" THEN "fresh" ELSE @]
            /\ cExpired' = (observed[s] = "expired")
            /\ UNCHANGED cleaning
       [] OTHER ->
            /\ cStep' = "wait" /\ cAt' = s
            /\ cleanupRuntime(s, "fenced")
            /\ UNCHANGED <<cSeen, cExpired, observed>>
  /\ UNCHANGED <<db, cluster, start, waiting, rPass, cDirty, notices, process>>

WithinGrace == cSeen \in {"pending", "running", "error"} /\ ~cExpired

\* The inspection of a finished row returned: within the grace an active or
\* unreadable Pod is left alone.
CleanupApply ==
  /\ cStep = "seen" /\ life = "up"
  /\ IF WithinGrace
     THEN cStep' = "next" /\ cAt' = NoSession /\ UNCHANGED cleaning
     ELSE cStep' = "wait" /\ cleanupRuntime(cAt, "fenced") /\ UNCHANGED cAt
  /\ cSeen' = "none" /\ cExpired' = FALSE
  /\ UNCHANGED <<db, cluster, start, waiting, rPass, cDirty, cQueue, notices,
                 process, observed>>

CleanupAwaited ==
  /\ cStep = "wait" /\ life = "up" /\ cleaning[cAt] = "no"
  /\ observed' = IF cAt \in cleaned THEN [observed EXCEPT ![cAt] = "no"] ELSE observed
  /\ cStep' = "next" /\ cAt' = NoSession
  /\ UNCHANGED <<db, cluster, calls, rPass, cDirty, cQueue, cSeen, cExpired,
                 notices, process>>

CleanupDone ==
  /\ cStep = "next" /\ life = "up" /\ cQueue = {}
  /\ IF cDirty THEN BeginCleanup
     ELSE cStep' = "settling" /\ UNCHANGED <<cDirty, cQueue, cAt, cSeen, cExpired>>
  /\ UNCHANGED <<db, cluster, calls, rPass, notices, process, observed>>

CleanupStops ==
  /\ \/ cStep = "settling"
     \/ cStep \in {"next", "seen"} /\ life = "disposed"
     \/ cStep = "wait" /\ life = "disposed" /\ cleaning[cAt] = "no"
  /\ cStep' = "off" /\ cQueue' = {} /\ cAt' = NoSession
  /\ cSeen' = "none" /\ cExpired' = FALSE
  /\ UNCHANGED <<db, cluster, calls, rPass, cDirty, notices, process, observed>>

\* FINISH_CLEANUP_GRACE_MS pass on the monotonic clock.
GraceExpires(s) ==
  /\ observed[s] = "fresh"
  /\ observed' = [observed EXCEPT ![s] = "expired"]
  /\ UNCHANGED <<db, cluster, calls, rPass, cPass, notices, process>>

-----------------------------------------------------------------------------
(* Terminal notices in the Agent.                                          *)

\* The Agent drains the notice: notice.delivered() records the receipt unless
\* the claim is gone.
NoticeDelivered(s) ==
  /\ inbox[s] > 0
  /\ inbox' = [inbox EXCEPT ![s] = @ - 1]
  /\ told' = [told EXCEPT ![s] = @ + 1]
  /\ claimed' = claimed \ {s}
  /\ notified' = IF s \in claimed /\ status[s] \in {"finished", "failed"}
                 THEN notified \cup {s} ELSE notified
  /\ UNCHANGED <<status, mind, bound, artifact, finish, cleaned, cluster, calls,
                 rPass, cPass, process, observed>>

MutNoticeDroppedKeepsClaim(s) ==
  /\ inbox[s] > 0
  /\ inbox' = [inbox EXCEPT ![s] = @ - 1]
  /\ UNCHANGED <<told, claimed, db, cluster, calls, rPass, cPass, process, observed>>

\* The queue is dropped (a /clear): notice.dropped() releases the claim.
NoticeDropped(s) ==
  /\ inbox[s] > 0
  /\ inbox' = [inbox EXCEPT ![s] = @ - 1]
  /\ claimed' = claimed \ {s}
  /\ UNCHANGED <<told, db, cluster, calls, rPass, cPass, process, observed>>

-----------------------------------------------------------------------------
(* The worker's requests at the token-bound server.                        *)

Serving == life # "down"

\* putArtifactForWorker: an active session whose source is bound.
PutArtifact(s) ==
  /\ Serving /\ pod[s] \in {"running", "terminating"}
  /\ status[s] \in Active /\ s \in bound
  /\ artifact' = artifact \cup {s}
  /\ UNCHANGED <<status, mind, bound, finish, notified, cleaned, cluster, calls,
                 rPass, cPass, notices, process, observed>>

\* The worker puts its one journalled finish on the wire; the request may
\* arrive late and more than once.
SendFinish(s) ==
  /\ pod[s] \in {"running", "terminating"} /\ s \notin sent
  /\ sent' = sent \cup {s}
  /\ UNCHANGED <<db, pod, secret, calls, rPass, cPass, notices, process, observed>>

\* finishFromWorker refuses a source-bound session without an artifact receipt.
InCustody(s) == s \in bound => s \in artifact

\* postFromWorker/insertFinish: an exact retry restores "finished" unless the
\* row was dismissed; a first finish needs an active row and, for a source-bound
\* session, its artifact.  The listeners' step is FinishHint.
insertFinish(s) ==
  /\ Serving /\ s \in sent
  /\ \/ /\ s \in finish
        /\ status[s] \in Active \cup {"finished", "failed"}
        /\ UNCHANGED <<finish, notified, cleaned>>
     \/ /\ s \notin finish
        /\ status[s] \in Active
        /\ InCustody(s)
        /\ finish' = finish \cup {s}
        /\ notified' = notified \ {s}
        /\ cleaned' = cleaned \ {s}
  /\ status' = [status EXCEPT ![s] = "finished"]
  /\ UNCHANGED <<mind, bound, artifact, cluster, calls, rPass, cPass, notices,
                 process, observed>>

-----------------------------------------------------------------------------
(* The cluster (external).                                                 *)

AdmitSecret(s) ==
  /\ start[s] = "secret"
  /\ s \notin secret
  /\ secret' = secret \cup {s}
  /\ UNCHANGED <<db, pod, sent, calls, rPass, cPass, notices, process, observed>>

AdmitPod(s) ==
  /\ start[s] = "pod" /\ pod[s] = "none"
  /\ pod' = [pod EXCEPT ![s] = "pending"]
  /\ UNCHANGED <<db, secret, sent, calls, rPass, cPass, notices, process, observed>>

\* restartPolicy Never: a Pod runs once and ends once.
PodStep(s) ==
  /\ \/ pod[s] = "pending" /\ pod' = [pod EXCEPT ![s] = "running"]
     \/ pod[s] = "running" /\ pod' = [pod EXCEPT ![s] = "succeeded"]
     \/ pod[s] \in {"pending", "running"} /\ pod' = [pod EXCEPT ![s] = "failed"]
     \/ pod[s] = "terminating" /\ pod' = [pod EXCEPT ![s] = "gone"]
  /\ UNCHANGED <<db, secret, sent, calls, rPass, cPass, notices, process, observed>>

\* A delete request is in flight: from cleanupRuntime or from compensation.
Deleting(s) == cleaning[s] # "no" \/ start[s] = "compensating"

DeletePod(s) ==
  /\ Deleting(s) /\ pod[s] \notin Removed
  /\ pod' = [pod EXCEPT ![s] = IF @ = "running" THEN "terminating" ELSE "gone"]
  /\ UNCHANGED <<db, secret, sent, calls, rPass, cPass, notices, process, observed>>

DeleteSecret(s) ==
  /\ Deleting(s) /\ s \in secret
  /\ secret' = secret \ {s}
  /\ UNCHANGED <<db, pod, sent, calls, rPass, cPass, notices, process, observed>>

-----------------------------------------------------------------------------
(* The life of the process.                                                *)

\* activate(): deliver persisted notices, then reconcile.
activate ==
  /\ life = "dormant"
  /\ life' = "up"
  /\ deliverPending
  /\ reconcile
  /\ UNCHANGED <<mind, bound, artifact, finish, notified, cleaned, cluster, calls,
                 cPass, restarts, observed>>

\* dispose(): revokeProvisioning fails every locally owned spawning row, then
\* the passes are fenced and the claims forgotten.
dispose ==
  /\ life \in {"dormant", "up"} /\ restarts < MaxRestarts
  /\ life' = "disposed"
  /\ LET revoked == {s \in Is({"spawning"}) : Provisioning(s)}
     IN  /\ status' = [s \in Session |-> IF s \in revoked THEN "failed" ELSE status[s]]
         /\ notified' = notified \ revoked
         /\ cleaned' = cleaned \ revoked
  /\ rDirty' = FALSE /\ cDirty' = FALSE
  /\ claimed' = {}
  /\ UNCHANGED <<mind, bound, artifact, finish, cluster, calls, rStep, rQueue, rAt,
                 rSeen, cStep, cQueue, cAt, cSeen, cExpired, inbox, told, restarts,
                 observed>>

\* The process ends, by exit after dispose or by a crash: memory is lost.
Crash ==
  /\ life # "down" /\ restarts < MaxRestarts
  /\ life' = "down"
  /\ start' = [s \in Session |-> "no"]
  /\ cleaning' = [s \in Session |-> "no"]
  /\ waiting' = {} /\ claimed' = {}
  /\ observed' = [s \in Session |-> "no"]
  /\ rStep' = "off" /\ rDirty' = FALSE /\ rQueue' = {}
  /\ rAt' = NoSession /\ rSeen' = "none"
  /\ cStep' = "off" /\ cDirty' = FALSE /\ cQueue' = {}
  /\ cAt' = NoSession /\ cSeen' = "none" /\ cExpired' = FALSE
  /\ inbox' = [s \in Session |-> 0] /\ told' = [s \in Session |-> 0]
  /\ UNCHANGED <<db, cluster, restarts>>

\* startWorkerSupervisor of the next process.
Boot ==
  /\ life = "down"
  /\ life' = "dormant" /\ restarts' = restarts + 1
  /\ UNCHANGED <<db, cluster, calls, rPass, cPass, notices, observed>>

-----------------------------------------------------------------------------
StartStep(s) ==
  \/ \E m \in Mind : Claim(s, m)
  \/ \E r \in BOOLEAN : SourceReady(s, r)
  \/ SourceFailed(s)
  \/ SecretCreated(s)
  \/ \E r \in BOOLEAN : ProvisionRejected(s, r)
  \/ Provisioned(s)
  \/ StartUnwinds(s)

DismissStep(s) == Dismiss(s) \/ DismissResumes(s)

CleanupCall(s) == CleanupSucceeds(s) \/ CleanupFails(s)

RecoverPass ==
  \/ \E s \in Session : RecoverNext(s)
  \/ RecoverApply \/ RecoverDone \/ RecoverStops

CleanupPass ==
  \/ \E s \in Session : CleanupNext(s)
  \/ CleanupApply \/ CleanupAwaited \/ CleanupDone \/ CleanupStops

Trigger == Poll \/ FinishHint

AgentStep(s) == NoticeDelivered(s) \/ NoticeDropped(s)

WorkerStep(s) == PutArtifact(s) \/ SendFinish(s) \/ insertFinish(s)

ClusterStep(s) ==
  AdmitSecret(s) \/ AdmitPod(s) \/ PodStep(s) \/ DeletePod(s) \/ DeleteSecret(s)

ProcessStep == activate \/ dispose \/ Crash \/ Boot

Next ==
  \/ \E s \in Session : \/ StartStep(s) \/ DismissStep(s) \/ CleanupCall(s)
                        \/ AgentStep(s) \/ WorkerStep(s) \/ ClusterStep(s)
                        \/ GraceExpires(s)
  \/ RecoverPass \/ CleanupPass \/ Trigger \/ ProcessStep

Spec == Init /\ [][Next]_vars

(***************************************************************************)
(* Fairness.  Local steps run because Node's event loop runs them; kubectl *)
(* calls return; a Pod ends (activeDeadlineSeconds); an inspection or a    *)
(* delete that is retried for ever succeeds in the end; the Agent drains a *)
(* notice that keeps being enqueued.  Crashes and disposals are not fair.  *)
(***************************************************************************)
StartReturns(s) ==
  \/ \E r \in BOOLEAN : SourceReady(s, r) \/ ProvisionRejected(s, r)
  \/ SourceFailed(s) \/ SecretCreated(s) \/ Provisioned(s) \/ StartUnwinds(s)

\* Local progress: the process boots, activates and, once disposed, exits; the
\* passes run on from await to await.
LifeGoesOn == activate \/ Boot \/ (life = "disposed" /\ Crash)

Fairness ==
  /\ WF_vars(LifeGoesOn) /\ WF_vars(rStep = "off" /\ Poll)
  /\ WF_vars(RecoverPass) /\ WF_vars(CleanupPass)
  /\ \A s \in Session :
       /\ WF_vars(StartReturns(s)) /\ WF_vars(DismissResumes(s))
       /\ WF_vars(GraceExpires(s)) /\ WF_vars(PodStep(s))
       /\ SF_vars(RecoverNext(s) /\ rSeen' # "error")
       /\ WF_vars(CleanupCall(s)) /\ SF_vars(CleanupSucceeds(s))
       /\ SF_vars(DeletePod(s)) /\ SF_vars(DeleteSecret(s))
       /\ SF_vars(NoticeDelivered(s))

FairSpec == Spec /\ Fairness

-----------------------------------------------------------------------------
(* Properties.                                                             *)

\* One active worker may claim a Mind item at a time (the claiming transaction
\* of start), whatever recovery, dismissal and restarts do in between.
OneActivePerMind ==
  \A s, t \in Is(Active) : s # t => mind[s] # mind[t]

\* workers.maxConcurrent bounds the sessions that hold worker authority.
WithinCapacity == Cardinality(Is(Active)) <= MaxConcurrent

\* A durable finish and the finished status are one fact: no Pod failure,
\* dismissal, recovery verdict or late start() continuation separates them.
FinishOutranks == \A s \in Session : s \in finish <=> status[s] = "finished"

\* The cleanup receipt is true for good: once it is set the cluster has accepted
\* the deletion of the Pod, the Secret is gone, and no call of this process
\* could still create either.
CleanupReceiptTrue ==
  \A s \in cleaned : /\ pod[s] \in Removed /\ s \notin secret
                     /\ start[s] \notin Creating

\* A process life shows the Agent one terminal notice per session at most,
\* queued or consumed, although three triggers race to deliver it.
OneNotice == \A s \in Session : inbox[s] + told[s] <= 1

\* A notice receipt is only ever recorded for an outcome there is to tell.
NoticeOfOutcome == \A s \in notified : status[s] \in {"finished", "failed"}

\* Terminal rows are final: a late finish, a late provision result or a stale
\* inspection never revives or relabels one.
TerminalIsFinal ==
  [][\A s \in Session : status[s] \in Terminal => status'[s] = status[s]]_vars

\* docs/workers.md:27: disposal "prevents their late continuations from
\* touching persistent state".
DisposedNeverWrites == [][life = "disposed" => UNCHANGED cleaned]_vars

\* Every session comes to its end, whichever process claimed it: it does not stay
\* active for ever, its runtime objects are removed, and the Agent is told how it
\* ended, unless it was the Agent that dismissed it.
EventuallyClosed ==
  \A s \in Session :
    status[s] # "none" ~> s \in cleaned /\ (status[s] = "dismissed" \/ s \in notified)

-----------------------------------------------------------------------------
(* The inductive invariant behind the safety properties.                   *)

\* A row exists before anything refers to it, a session start() is still
\* creating is in nobody else's hands, and start() creates the Pod last.
Ownership ==
  /\ \A s \in Session :
       /\ status[s] = "none" => start[s] = "no" /\ pod[s] = "none" /\ s \notin secret
       /\ start[s] = "source" => pod[s] = "none" /\ s \notin secret
       /\ s \in rQueue \/ cleaning[s] # "no" =>
            status[s] # "none" /\ start[s] \notin Creating
       /\ s \in cQueue \cup waiting => status[s] # "none"
       /\ s \in cleaned => status[s] \in Terminal
  /\ rStep = "seen" =>
       rAt \in Session /\ status[rAt] # "none" /\ start[rAt] \notin Creating
  /\ cStep \in {"seen", "wait"} =>
       cAt \in Session /\ status[cAt] # "none" /\ start[cAt] \notin Creating

\* Claims, queued notices and receipts agree while the supervisor is active.
NoticeBook ==
  \A s \in Session :
    /\ life \in {"down", "dormant"} =>
         s \notin claimed /\ inbox[s] = 0 /\ told[s] = 0
    /\ life = "up" =>
         /\ inbox[s] = IF s \in claimed THEN 1 ELSE 0
         /\ s \in claimed => told[s] = 0 /\ s \notin notified
         /\ told[s] > 0 => s \in notified
    /\ s \in claimed => status[s] \in {"finished", "failed"}

\* The conjunction the proofs carry through every step: the properties above
\* together with what start(), the passes and the Agent know of each other.
Inv ==
  /\ TypeOK /\ FinishOutranks /\ OneActivePerMind /\ WithinCapacity
  /\ NoticeOfOutcome /\ OneNotice /\ NoticeBook
  /\ CleanupReceiptTrue /\ Ownership
=============================================================================

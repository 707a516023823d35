-------------------------- MODULE ResidentLineage --------------------------
(***************************************************************************)
(* The resident's dark lineage: how Elpis, by its own tool calls, turns    *)
(* its SOUL file into a consented profile of a world, assembles a request  *)
(* candidate for that world's pending events, binds it to a provider, and  *)
(* finds all of it again after a restart (src/src/store/context-graph.ts,  *)
(* the resident-*.ts hosts of src/src/context/, the run leases of          *)
(* src/src/sandbox/manager.ts, and the turn loop of src/src/agent.ts).     *)
(*                                                                         *)
(* The graph is in its dark mode throughout: nothing in src/ calls the     *)
(* cut-over.  Each store operation is one SQLite transaction and is one    *)
(* step.  A call that throws, or that finds its own earlier receipt and    *)
(* returns it again, changes nothing, so it is no step.                    *)
(***************************************************************************)
EXTENDS LineageSchema

CONSTANTS Feeds,      \* the messages people may send, in order: sequences of
                      \* [world, kind] records
          DeliveryBound, BatchBound, CallBound, DetachBound,
          CandidateBound, EditBound, CrashBound

Message == [world : Worlds, kind : {"text", "image", "ambient"}]

ASSUME FeedAssumption == \A f \in Feeds : f \in Seq(Message)

VARIABLES up,        \* the process runs
          feed,      \* the messages people send
          soul,      \* the content of the SOUL file
          target,    \* the boot-resolved target of the main role
          inbox,     \* Agent.inbound: event sequences, in arrival order
          history,   \* the events whose message entered the transcript
          turn,      \* the turn in progress: Idle, Internal, or its event
          nbatch,    \* the tool batches prepared so far
          call,      \* the calls of the current batch already issued
          runs,      \* the accepted runs that have not settled
          booted,    \* nbatch when the process last started
          deliveries, edits, crashes

process == <<up, feed, soul, target, inbox, history, turn, nbatch, call, runs, booted>>
bounds == <<deliveries, edits, crashes>>
vars == <<rows, process, bounds>>

Idle == -1
Internal == 0

\* A run: its call, the event its turn answers (0: none), its lease's state.
RunOf(b, c, scope, life) == [b |-> b, c |-> c, scope |-> scope, life |-> life]
Detached == {r \in runs : r.life = "detached"}
ActiveRuns == {r \in runs : r.life = "active"}

SoulOf(d) == d.authorization.candidate.soul

\* A database with no lineage rows.
NoRows ==
    /\ events = <<>> /\ projected = {} /\ candidates = {} /\ authorizations = {}
    /\ derivations = <<>> /\ layers = {} /\ bindings = {}
    /\ heads = [w \in Worlds |-> NoSoul]
    /\ admissions = {} /\ attempts = <<>> /\ crashed = {} /\ abandoned = {}
    /\ recovered = {} /\ coordinator = 0 /\ providers = <<>>

\* A process that has just started, n batches into its history.
JustBooted(n) ==
    /\ up = TRUE /\ feed \in Feeds /\ soul \in Souls /\ target \in Targets
    /\ inbox = <<>> /\ history = {} /\ turn = Idle
    /\ nbatch = n /\ call = 0 /\ runs = {} /\ booted = n

Init ==
    /\ NoRows
    /\ JustBooted(0)
    /\ deliveries = 0 /\ edits = 0 /\ crashes = 0

----------------------------------------------------------------------------
(* Ingress and the turn loop.                                              *)

\* Agent.enqueue: recordInbound appends the event, or finds the row of a
\* message that is delivered again, and the message joins the inbox.
Enqueue(e) ==
    /\ up /\ deliveries < DeliveryBound
    /\ inbox' = Append(inbox, e)
    /\ deliveries' = deliveries + 1
    /\ UNCHANGED <<projected, consent, branches, providers, up, feed, soul, target,
                   history, turn, nbatch, call, runs, booted, edits, crashes>>

Arrive ==
    /\ Len(events) < Len(feed)
    /\ events' = Append(events, feed[Len(events) + 1])
    /\ Enqueue(Len(events) + 1)

ArriveAgain(e) ==
    /\ e \in DOMAIN events
    /\ UNCHANGED events
    /\ Enqueue(e)

\* The message that wakes a turn: the first one that is not ambient, unless
\* an internal notice came before it.
Waking == {i \in DOMAIN inbox : events[inbox[i]].kind # "ambient"}
Wakes == {Internal} \cup (IF Waking = {} THEN {} ELSE {inbox[Min(Waking)]})

\* prepareRequestObservation: with a wake of some world, every text message
\* of that world in the transcript gets its projection.
Observe(wake, seen) ==
    IF wake = Internal THEN {}
    ELSE {e \in seen : events[e].kind # "image" /\ events[e].world = events[wake].world}

\* Every queued message enters the transcript.
Drain ==
    /\ history' = history \cup Elements(inbox)
    /\ inbox' = <<>>

\* ResidentRunIssuer.prepare and commit: a batch id never used before.
PrepareBatch ==
    /\ nbatch' = nbatch + 1
    /\ call' = 0

\* One round of the loop: drain the inbox, start a turn if none is in
\* progress, observe the request, call the model, and prepare and commit the
\* batch of tool calls it answers with.  A message drained in the middle of
\* a turn does not retarget it.
OpenBatch(wake) ==
    /\ up /\ ActiveRuns = {} /\ nbatch < BatchBound
    /\ wake \in IF turn = Idle THEN Wakes ELSE {turn}
    /\ Drain
    /\ turn' = wake
    /\ projected' = projected \cup Observe(wake, history')
    /\ PrepareBatch
    /\ UNCHANGED <<events, consent, branches, providers, up, feed, soul, target, runs,
                   booted, bounds>>

\* The turn ends: its calls have returned and nothing new came in.
EndTurn ==
    /\ up /\ turn # Idle /\ ActiveRuns = {}
    /\ turn' = Idle
    /\ UNCHANGED <<rows, up, feed, soul, target, inbox, history, nbatch, call, runs,
                   booted, bounds>>

----------------------------------------------------------------------------
(* Run leases (ResidentRunAuthority and SandboxManager).                   *)

\* issue and accept: the calls of a batch run one after the other, each with
\* a token of its own; the lease keeps the turn's event.
StartRun ==
    /\ up /\ turn # Idle /\ ActiveRuns = {} /\ call < CallBound
    /\ runs' = runs \cup {RunOf(nbatch, call, turn, "active")}
    /\ call' = call + 1
    /\ UNCHANGED <<rows, up, feed, soul, target, inbox, history, turn, nbatch, booted, bounds>>

\* A run past its deadline goes on in the background, and its call returns.
Detach(r) ==
    /\ up /\ r \in ActiveRuns /\ Cardinality(Detached) < DetachBound
    /\ runs' = (runs \ {r}) \cup {[r EXCEPT !.life = "detached"]}
    /\ UNCHANGED <<rows, up, feed, soul, target, inbox, history, turn, nbatch, call,
                   booted, bounds>>

\* The program of the run ends: its lease closes.
Settle(r) ==
    /\ up /\ r \in runs
    /\ runs' = runs \ {r}
    /\ UNCHANGED <<rows, up, feed, soul, target, inbox, history, turn, nbatch, call,
                   booted, bounds>>

\* resolveActive: only an active lease may act.
ResolvesDetached(r) == r \in runs
ResolveActive(r) == r \in runs /\ r.life = "active"

\* What an operation that writes graph rows leaves alone.
KeepProcess == UNCHANGED <<events, projected, process, bounds>>
KeepBranches == UNCHANGED <<branches, providers>>

----------------------------------------------------------------------------
(* The consent chain.  Each operation is what the store checks, the row,   *)
(* and what the schema accepts.                                            *)

CandidateRow(r) == [soul |-> soul, b |-> r.b, c |-> r.c]
AuthorizationRow(r, k) == [candidate |-> k, b |-> r.b, c |-> r.c, seen |-> soul]
DerivationRow(r, a) == [authorization |-> a, b |-> r.b, c |-> r.c, seen |-> soul]
BindingRow(r, n) ==
    [derivation |-> n, world |-> events[r.scope].world, event |-> r.scope,
     b |-> r.b, c |-> r.c]

\* inspectIdentityCandidate: a snapshot of the SOUL file, and the candidate.
InspectChecks(r) == FreshCall(candidates, CandidateRow(r))

InsertCandidate(row) ==
    /\ candidates' = candidates \cup {row}
    /\ UNCHANGED <<authorizations, derivations, layers, bindings, heads>>

Inspect(r) ==
    /\ up /\ ResolveActive(r) /\ InspectChecks(r)
    /\ Cardinality(candidates) < CandidateBound
    /\ CandidateAccepted(CandidateRow(r))
    /\ InsertCandidate(CandidateRow(r))
    /\ KeepBranches /\ KeepProcess

\* authorizeIdentityCandidate: a later batch, the SOUL file still the same,
\* and neither the call nor the candidate used before.
AuthorizeChecks(r, k) ==
    /\ k \in candidates /\ k.b # r.b /\ k.soul = soul
    /\ \A x \in authorizations : ~SameCall(x, r) /\ x.candidate # k

InsertAuthorization(row) ==
    /\ authorizations' = authorizations \cup {row}
    /\ UNCHANGED <<candidates, derivations, layers, bindings, heads>>

Authorize(r, k) ==
    /\ up /\ ResolveActive(r) /\ AuthorizeChecks(r, k)
    /\ AuthorizationAccepted(AuthorizationRow(r, k))
    /\ InsertAuthorization(AuthorizationRow(r, k))
    /\ KeepBranches /\ KeepProcess

\* deriveAuthorizedIdentityLayers: again a later batch and the same SOUL.
DeriveChecks(r, a) ==
    /\ a \in authorizations /\ r.b \notin {a.b, a.candidate.b} /\ a.candidate.soul = soul
    /\ \A x \in Elements(derivations) : ~SameCall(x, r) /\ x.authorization # a

\* verifyReceiptedPair: layer rows that are already there are accepted only
\* as the work of an earlier derivation.
ReceiptedPair(s) == s \in layers => \E d \in Elements(derivations) : SoulOf(d) = s

\* The layers and their approvals are created unless they exist.
CreateLayers(s) == layers' = layers \cup {s}

InsertDerivation(row) ==
    /\ derivations' = Append(derivations, row)
    /\ UNCHANGED <<candidates, authorizations, bindings, heads>>

Derive(r, a) ==
    /\ up /\ ResolveActive(r) /\ DeriveChecks(r, a) /\ ReceiptedPair(a.candidate.soul)
    /\ DerivationAccepted(DerivationRow(r, a), Len(derivations) + 1, Len(derivations),
                          a.candidate.soul \in layers)
    /\ CreateLayers(a.candidate.soul)
    /\ InsertDerivation(DerivationRow(r, a))
    /\ KeepBranches /\ KeepProcess

\* bindCurrentWorldProfile: the newest derivation, a later batch than all of
\* its chain, and a world that has no profile yet.
StaleBindChecks(r, n) ==
    /\ r.scope # Internal /\ n \in DOMAIN derivations
    /\ r.b \notin {derivations[n].b, derivations[n].authorization.b,
                   derivations[n].authorization.candidate.b}
    /\ \A x \in bindings : ~SameCall(x, r) /\ x.world # events[r.scope].world
    /\ heads[events[r.scope].world] = NoSoul
BindChecks(r, n) ==
    /\ r.scope # Internal /\ n \in DOMAIN derivations /\ n = Len(derivations)
    /\ r.b \notin {derivations[n].b, derivations[n].authorization.b,
                   derivations[n].authorization.candidate.b}
    /\ \A x \in bindings : ~SameCall(x, r) /\ x.world # events[r.scope].world
    /\ heads[events[r.scope].world] = NoSoul

\* The profile, the world's first head, and the receipt.
InsertBinding(row, head) ==
    /\ bindings' = bindings \cup {row}
    /\ heads' = [heads EXCEPT ![row.world] = head]
    /\ UNCHANGED <<candidates, authorizations, derivations, layers>>

Bind(r, n) ==
    /\ up /\ ResolveActive(r) /\ BindChecks(r, n)
    /\ BindingAccepted(BindingRow(r, n), SoulOf(derivations[n]))
    /\ InsertBinding(BindingRow(r, n), SoulOf(derivations[n]))
    /\ KeepBranches /\ KeepProcess

----------------------------------------------------------------------------
(* The pending request of a world.                                         *)

\* The world's consented profile: its binding's SOUL is still its head.
Consented(w) ==
    \E p \in bindings : p.world = w /\ heads[w] = SoulOf(derivations[p.derivation])

\* ORDER BY event_sequence: a set of sequences, in order.
Increasing(q) == \A i, j \in DOMAIN q : i < j => q[i] < q[j]
InOrder(S) == CHOOSE q \in [1..Cardinality(S) -> S] : Increasing(q)

\* inspectNextDarkPendingBatch: the first admissions of all, up to Limit,
\* that are of the first one's world and have a projection.
UpTo(admitted, e) == {d \in admitted : d <= e}
Fits(admitted, e) == events[e].world = events[Min(admitted)].world /\ e \in projected

Frontier(admitted) ==
    InOrder({e \in admitted : /\ Cardinality(UpTo(admitted, e)) <= Limit
                              /\ \A d \in UpTo(admitted, e) : Fits(admitted, d)})

AttemptRow(r, items) ==
    [items |-> items, world |-> events[r.scope].world,
     profile |-> heads[events[r.scope].world], b |-> r.b, c |-> r.c]

\* assembleResidentCurrentWorldDarkRequest, up to the admission.  An event
\* that is already admitted is only reread.
AssembleChecks(r) ==
    /\ r.scope # Internal
    /\ Consented(events[r.scope].world)
    /\ r.scope \in projected
    /\ r.scope >= First
    /\ r.scope \notin admissions

\* The inspected batch is of this world and ends in the current event.
TailUnchecked(r, items) == items # <<>> /\ events[items[1]].world = events[r.scope].world
TailIsCurrent(r, items) ==
    /\ items # <<>> /\ events[items[1]].world = events[r.scope].world
    /\ items[Len(items)] = r.scope

\* beginCoordinatedBranch: the coordinator is free.
CoordinatorFree == coordinator = 0

InsertAdmission(e) == admissions' = admissions \cup {e}

\* The branch, its start row, and the coordinator that points to it.
HoldCoordinator(n) == coordinator' = n

\* The manifest, the request view and the attempt.
InsertAttempt(row) == attempts' = Append(attempts, row)

Assemble(r) ==
    /\ up /\ ResolveActive(r) /\ AssembleChecks(r)
    /\ AdmissionAccepted(r.scope)
    /\ InsertAdmission(r.scope)
    /\ \E items \in {Frontier(admissions')} :
          /\ TailIsCurrent(r, items)
          /\ CoordinatorFree /\ StartAccepted(Len(attempts) + 1)
          /\ RequestProfileAccepted(AttemptRow(r, items))
          /\ AttemptAccepted(AttemptRow(r, items), admissions')
          /\ InsertAttempt(AttemptRow(r, items))
    /\ HoldCoordinator(Len(attempts) + 1)
    /\ UNCHANGED <<crashed, abandoned, recovered, consent, providers>>
    /\ KeepProcess

\* rereadResidentCurrentWorldDarkRequest: the attempt ends in this event, runs,
\* holds the coordinator and carries the world's profile.
Reread(n, e) ==
    /\ n \in Running /\ coordinator = n
    /\ attempts[n].items[Len(attempts[n].items)] = e
    /\ attempts[n].profile = heads[events[e].world]

ProviderRow(r) == [branch |-> coordinator, target |-> target, b |-> r.b, c |-> r.c]

\* bindResidentIsolatedProvider.
ProviderChecks(r) ==
    /\ r.scope # Internal /\ coordinator # 0
    /\ attempts[coordinator].world = events[r.scope].world
    /\ r.scope \in admissions
    /\ Consented(events[r.scope].world)
    /\ Reread(coordinator, r.scope)
    /\ \A x \in Elements(providers) : ~SameCall(x, r) /\ x.branch # coordinator

InsertProvider(row) == providers' = Append(providers, row)

BindProvider(r) ==
    /\ up /\ ResolveActive(r) /\ ProviderChecks(r)
    /\ ProviderAccepted(ProviderRow(r))
    /\ InsertProvider(ProviderRow(r))
    /\ UNCHANGED <<consent, branches>>
    /\ KeepProcess

----------------------------------------------------------------------------
(* The file, the crash and the restart.                                    *)

\* The SOUL file is edited, by the resident or by the operator.
EditSoul(s) ==
    /\ s # soul /\ edits < EditBound
    /\ soul' = s
    /\ edits' = edits + 1
    /\ UNCHANGED <<rows, up, feed, target, inbox, history, turn, nbatch, call, runs,
                   booted, deliveries, crashes>>

\* The process dies: the inbox, the turn and every run are lost.
Crash ==
    /\ up /\ crashes < CrashBound
    /\ up' = FALSE
    /\ crashes' = crashes + 1
    /\ inbox' = <<>> /\ turn' = Idle /\ runs' = {}
    /\ UNCHANGED <<rows, feed, soul, target, history, nbatch, call, booted, deliveries, edits>>

\* recoverCoordinatedBranch: the branch the dead process held is abandoned,
\* crashed and receipted, and the coordinator is free again, all at once.
NoRecovery == UNCHANGED <<crashed, abandoned, recovered, coordinator>>
Recover ==
    IF coordinator = 0
    THEN UNCHANGED <<crashed, abandoned, recovered, coordinator>>
    ELSE /\ coordinator \in Running
         /\ AbandonmentAccepted(coordinator)
         /\ abandoned' = abandoned \cup {coordinator}
         /\ CrashAccepted(coordinator, abandoned')
         /\ crashed' = crashed \cup {coordinator}
         /\ RecoveryAccepted(coordinator, crashed')
         /\ recovered' = recovered \cup {coordinator}
         /\ coordinator' = 0

\* Boot: recovery comes before the configuration names a target.
Boot(t) ==
    /\ ~up
    /\ Recover
    /\ up' = TRUE
    /\ target' = t
    /\ booted' = nbatch
    /\ UNCHANGED <<events, projected, consent, admissions, attempts, providers, feed, soul,
                   inbox, history, turn, nbatch, call, runs, bounds>>

\* verifyLatestRecoveredIsolatedProviderBinding succeeds (it only reads).
Verifies ==
    /\ providers # <<>>
    /\ LET p == providers[Len(providers)] IN
          /\ p.target = target
          /\ p.branch \in crashed \cap recovered \cap abandoned
    /\ coordinator = 0

Next ==
    \/ Arrive
    \/ \E e \in DOMAIN events : ArriveAgain(e)
    \/ \E wake \in {Internal} \cup DOMAIN events : OpenBatch(wake)
    \/ EndTurn
    \/ StartRun
    \/ \E r \in runs :
          \/ Detach(r)
          \/ Settle(r)
          \/ Inspect(r)
          \/ \E k \in candidates : Authorize(r, k)
          \/ \E a \in authorizations : Derive(r, a)
          \/ \E n \in DOMAIN derivations : Bind(r, n)
          \/ Assemble(r)
          \/ BindProvider(r)
    \/ \E s \in Souls : EditSoul(s)
    \/ Crash
    \/ \E t \in Targets : Boot(t)

Spec == Init /\ [][Next]_vars

----------------------------------------------------------------------------
(* Properties.                                                             *)

\* What a world's profile rests on: the SOUL was inspected, authorized,
\* derived and bound in four batches, each later than the one before; at the
\* authorization and at the derivation the file still held the inspected
\* text; no newer derivation stood when the world was bound; and each request
\* carries the profile that its world was bound to before.
ConsentChain ==
    /\ \A a \in authorizations :
          a.candidate \in candidates /\ a.candidate.b < a.b /\ a.seen = a.candidate.soul
    /\ \A d \in Elements(derivations) :
          d.authorization \in authorizations /\ d.authorization.b < d.b /\ d.seen = SoulOf(d)
    /\ \A p \in bindings :
          /\ p.derivation \in DOMAIN derivations
          /\ derivations[p.derivation].b < p.b
          /\ heads[p.world] = SoulOf(derivations[p.derivation])
          /\ \A n \in DOMAIN derivations : n > p.derivation => derivations[n].b >= p.b
    /\ \A n \in DOMAIN attempts : \E p \in bindings :
          /\ p.world = attempts[n].world
          /\ attempts[n].profile = SoulOf(derivations[p.derivation])
          /\ p.b <= attempts[n].b

\* Every assembled branch is accounted for: it runs and holds the
\* coordinator, or it crashed with one abandonment and one recovery receipt.
\* While the process is up a held branch is this process's own, and once none
\* is held the newest provider binding can be verified, unless the
\* configuration has moved to another target (recoverCoordinatedBranch at
\* boot, verifyLatestRecoveredIsolatedProviderBinding).
Reservations ==
    /\ Running = {coordinator} \ {0}
    /\ crashed = abandoned /\ crashed = recovered
    /\ up /\ coordinator # 0 => attempts[coordinator].b > booted
    /\ /\ up /\ coordinator = 0 /\ providers # <<>>
       /\ providers[Len(providers)].target = target
       => Verifies

\* No request skips an admitted event: request n carries, in order, exactly
\* the events that were admitted up to then and that are not later than its
\* own; they are of one world and at most Limit; and every admitted event is
\* the last of the one request that admitted it.  A crashed request's events
\* are thus carried again by the next, also when a message is delivered late
\* (assembleResidentCurrentWorldDarkRequest, inspectNextDarkPendingBatch).
Own(n) == attempts[n].items[Len(attempts[n].items)]
Due(n) == {Own(m) : m \in {k \in 1..n : Own(k) <= Own(n)}}

CarriedForward ==
    /\ \A n \in DOMAIN attempts :
          /\ Increasing(attempts[n].items) /\ Len(attempts[n].items) \in 1..Limit
          /\ Elements(attempts[n].items) = Due(n)
          /\ \A e \in Elements(attempts[n].items) : events[e].world = attempts[n].world
          /\ \A m \in DOMAIN attempts : Own(m) = Own(n) => m = n
    /\ admissions = {Own(n) : n \in DOMAIN attempts}

\* The store's own checks are as strong as the schema's triggers: whatever a
\* resident call passes, SQLite accepts, so no call fails on a raw constraint
\* in the middle of its transaction; and a restart finds the coordinator in a
\* state that its recovery may leave.
SchemaAgrees ==
    /\ \A r \in ActiveRuns :
          /\ InspectChecks(r) => CandidateAccepted(CandidateRow(r))
          /\ \A k \in candidates :
                AuthorizeChecks(r, k) => AuthorizationAccepted(AuthorizationRow(r, k))
          /\ \A a \in authorizations :
                DeriveChecks(r, a) /\ ReceiptedPair(a.candidate.soul) =>
                   DerivationAccepted(DerivationRow(r, a), Len(derivations) + 1,
                                      Len(derivations), a.candidate.soul \in layers)
          /\ \A n \in DOMAIN derivations :
                BindChecks(r, n) => BindingAccepted(BindingRow(r, n), SoulOf(derivations[n]))
          /\ AssembleChecks(r) =>
                /\ AdmissionAccepted(r.scope)
                /\ \A items \in {Frontier(admissions \cup {r.scope})} :
                      TailIsCurrent(r, items) /\ CoordinatorFree =>
                         /\ StartAccepted(Len(attempts) + 1)
                         /\ RequestProfileAccepted(AttemptRow(r, items))
                         /\ AttemptAccepted(AttemptRow(r, items), admissions \cup {r.scope})
          /\ ProviderChecks(r) => ProviderAccepted(ProviderRow(r))
    /\ coordinator # 0 =>
          AbandonmentAccepted(coordinator) /\ RecoveryAccepted(coordinator, {coordinator})
============================================================================

----------------------- MODULE ResidentLineageProofs -----------------------
(***************************************************************************)
(* Proofs about ResidentLineage, for any worlds, SOUL texts, targets and   *)
(* feeds of messages, and any batch limit.                                 *)
(*                                                                         *)
(* LineageInv has one part per concern:                                    *)
(*  - ProcessInv: a run that may act is of the batch now open, which this  *)
(*    process prepared, and answers a stored event or none;                *)
(*  - ConsentInv: no row is of a batch still to come, and each was made    *)
(*    from a row of an earlier one, from the text the file then had;       *)
(*  - BranchInv: a branch runs and holds the coordinator, or it crashed,   *)
(*    was abandoned and recovered; a provider is bound to a branch;        *)
(*  - CarriedInv: request n carries, in order, the events of requests      *)
(*    1..n that are not later than its own.                                *)
(* The first gives the strict order of the batches: a run writes in the    *)
(* newest batch, and the checks refuse a row of the same one.  The last    *)
(* needs what inspectNextDarkPendingBatch() returns, which FrontierIs and  *)
(* TailIs state without the enumeration it is computed by.                 *)
(***************************************************************************)
EXTENDS ResidentLineage, FiniteSetTheorems, WellFoundedInduction, TLAPS

\* The rows of the consent chain and of the requests, and the runs.
Candidate == [soul : Souls, b : Nat, c : Nat]
Authorization == [candidate : Candidate, b : Nat, c : Nat, seen : Souls]
Derivation == [authorization : Authorization, b : Nat, c : Nat, seen : Souls]
Binding == [derivation : Nat, world : Worlds, event : Nat, b : Nat, c : Nat]
Attempt == [items : Seq(Nat), world : Worlds, profile : Souls, b : Nat, c : Nat]
Provider == [branch : Nat, target : Targets, b : Nat, c : Nat]
Run == [b : Nat, c : Nat, scope : Nat, life : {"active", "detached"}]

\* A run answers a stored event or none; an active one belongs to the current
\* batch, which this process prepared.
RunGood(r) ==
  /\ r \in Run /\ r.scope \in {Internal} \cup DOMAIN events
  /\ r.life = "active" => r.b = nbatch /\ booted < r.b

\* The turn loop.
ProcessInv ==
  /\ up \in BOOLEAN /\ feed \in Feeds /\ soul \in Souls /\ target \in Targets
  /\ nbatch \in Nat /\ booted \in Nat /\ call \in Nat /\ booted <= nbatch
  /\ events \in Seq(Message)
  /\ turn \in {Idle, Internal} \cup DOMAIN events
  /\ turn # Idle => booted < nbatch
  /\ ~up => turn = Idle /\ runs = {}
  /\ \A r \in runs : RunGood(r)

\* Every row of the chain was written in a later batch than the row it was
\* made from, and none in a batch still to come.
AuthorizationGood(a) ==
  a.candidate \in candidates /\ a.candidate.b < a.b /\ a.seen = a.candidate.soul

\* A derivation was made from an authorization.
DerivationGood(d) ==
  d.authorization \in authorizations /\ d.authorization.b < d.b /\ d.seen = SoulOf(d)

\* A binding set the head of its world, from the newest derivation there was.
BindingGood(p) ==
  /\ p.derivation \in DOMAIN derivations
  /\ derivations[p.derivation].b < p.b
  /\ heads[p.world] = SoulOf(derivations[p.derivation])
  /\ \A n \in DOMAIN derivations : n > p.derivation => derivations[n].b >= p.b

\* The consent chain.
ConsentInv ==
  /\ \A k \in candidates : k \in Candidate /\ k.b <= nbatch
  /\ \A a \in authorizations : a \in Authorization /\ a.b <= nbatch /\ AuthorizationGood(a)
  /\ derivations \in Seq(Derivation)
  /\ \A n \in DOMAIN derivations : derivations[n].b <= nbatch /\ DerivationGood(derivations[n])
  /\ heads \in [Worlds -> Souls \cup {NoSoul}]
  /\ \A p \in bindings : p \in Binding /\ p.b <= nbatch /\ BindingGood(p)

\* A request carries the profile its world was bound to.
AttemptGood(n) ==
  \E p \in bindings : /\ p.world = attempts[n].world
                      /\ attempts[n].profile = SoulOf(derivations[p.derivation])
                      /\ p.b <= attempts[n].b

\* Every branch runs and holds the coordinator, or is down for good.
BranchInv ==
  /\ attempts \in Seq(Attempt) /\ \A n \in DOMAIN attempts : AttemptGood(n)
  /\ Running = {coordinator} \ {0}
  /\ crashed \subseteq DOMAIN attempts /\ crashed = abandoned /\ crashed = recovered
  /\ coordinator \in Nat
  /\ up /\ coordinator # 0 => attempts[coordinator].b > booted
  /\ providers \in Seq(Provider)
  /\ \A i \in DOMAIN providers : providers[i].branch \in DOMAIN attempts

\* The events of the requests.
CarriedInv == CarriedForward /\ admissions \subseteq DOMAIN events

\* The inductive invariant.
LineageInv == ProcessInv /\ ConsentInv /\ BranchInv /\ CarriedInv

-----------------------------------------------------------------------------
(* What a step leaves alone.                                               *)

\* The rows of a table stay as they are.
Kept(old, new) == \A k \in DOMAIN old : k \in DOMAIN new /\ new[k] = old[k]

\* Numbers.
LEMMA LeqTrans == \A a, b, c \in Nat : a <= b /\ b <= c => a <= c
OBVIOUS

\* A sequence as a function.
LEMMA SeqFacts ==
  ASSUME NEW S, NEW s \in Seq(S)
  PROVE  /\ Len(s) \in Nat /\ DOMAIN s = 1..Len(s) /\ \A i \in DOMAIN s : s[i] \in S
         /\ \A T : S \subseteq T => s \in Seq(T)
OBVIOUS

\* An appended row.
Appended(old, new, x) ==
  /\ DOMAIN new = DOMAIN old \cup {Len(old) + 1} /\ Len(new) = Len(old) + 1
  /\ Len(old) + 1 \notin DOMAIN old /\ new[Len(old) + 1] = x /\ Kept(old, new)

\* What Append does.
LEMMA AppendFacts ==
  ASSUME NEW S, NEW s \in Seq(S), NEW x \in S, NEW t, t = Append(s, x)
  PROVE  t \in Seq(S) /\ Appended(s, t, x)
BY DEF Appended, Kept

\* The chain when no row is written and batches only go on.
LEMMA ConsentStays ==
  ASSUME ConsentInv, UNCHANGED consent, nbatch \in Nat, nbatch' \in Nat, nbatch <= nbatch'
  PROVE  ConsentInv'
<1>1. UNCHANGED <<candidates, authorizations, derivations, layers, bindings, heads>>
  BY Zenon DEF consent
<1>2. \A k \in candidates : k.b <= nbatch'
  <2>1. \A k \in candidates : k.b \in Nat /\ k.b <= nbatch
    BY DEF ConsentInv, Candidate
  <2> QED
    BY <2>1, LeqTrans, Zenon
<1>3. \A a \in authorizations : a.b <= nbatch'
  <2>1. \A a \in authorizations : a.b \in Nat /\ a.b <= nbatch
    BY DEF ConsentInv, Authorization
  <2> QED
    BY <2>1, LeqTrans, Zenon
<1>4. \A n \in DOMAIN derivations : derivations[n].b <= nbatch'
  <2>1. \A n \in DOMAIN derivations : derivations[n] \in Derivation /\ derivations[n].b <= nbatch
    BY SeqFacts, Zenon DEF ConsentInv
  <2>2. \A n \in DOMAIN derivations : derivations[n].b \in Nat
    BY <2>1 DEF Derivation
  <2> QED
    BY <2>1, <2>2, LeqTrans, Zenon
<1>5. \A p \in bindings : p.b <= nbatch'
  <2>1. \A p \in bindings : p.b \in Nat /\ p.b <= nbatch
    BY DEF ConsentInv, Binding
  <2> QED
    BY <2>1, LeqTrans, Zenon
<1> QED
  BY <1>1, <1>2, <1>3, <1>4, <1>5, Zenon
  DEF ConsentInv, AuthorizationGood, DerivationGood, BindingGood

\* The branches, when none is opened or ended and the chain only grows.
LEMMA BranchesStay ==
  ASSUME BranchInv, ConsentInv, UNCHANGED <<branches, providers>>, bindings \subseteq bindings',
         Kept(derivations, derivations'),
         (up' /\ coordinator # 0) => (up /\ booted' = booted)
  PROVE  BranchInv'
<1>1. UNCHANGED <<admissions, attempts, crashed, abandoned, recovered, coordinator, providers>>
  BY Zenon DEF branches
<1>2. \A n \in DOMAIN attempts : AttemptGood(n)'
  <2> TAKE n \in DOMAIN attempts
  <2>1. PICK p \in bindings : /\ p.world = attempts[n].world
                              /\ attempts[n].profile = SoulOf(derivations[p.derivation])
                              /\ p.b <= attempts[n].b
    BY Zenon DEF BranchInv, AttemptGood
  <2>2. derivations'[p.derivation] = derivations[p.derivation]
    BY Zenon DEF ConsentInv, BindingGood, Kept
  <2> QED
    BY <1>1, <2>1, <2>2, Zenon DEF AttemptGood
<1>3. Running' = Running
  BY <1>1, Zenon DEF Running
<1> QED
  BY <1>1, <1>2, <1>3, Zenon DEF BranchInv

\* The requests, when none is assembled.
LEMMA CarriedStays ==
  ASSUME CarriedInv, BranchInv, UNCHANGED <<attempts, admissions>>, Kept(events, events')
  PROVE  CarriedInv'
<1>1. \A n \in DOMAIN attempts : Own(n)' = Own(n)
  BY Zenon DEF Own
<1>2. \A n \in DOMAIN attempts : \A e \in Elements(attempts[n].items) : e \in DOMAIN events
  <2> TAKE n \in DOMAIN attempts
  <2>1. \A e \in Elements(attempts[n].items) : \E m \in 1..n : e = Own(m)
    <3>1. Elements(attempts[n].items) = Due(n)
      BY Zenon DEF CarriedInv, CarriedForward
    <3>2. \A e \in Due(n) : \E m \in 1..n : e = Own(m)
      BY Zenon DEF Due
    <3> QED
      BY <3>1, <3>2, Zenon
  <2>2. 1..n \subseteq DOMAIN attempts
    <3>1. Len(attempts) \in Nat /\ DOMAIN attempts = 1..Len(attempts)
      BY SeqFacts, Zenon DEF BranchInv
    <3> QED
      BY <3>1
  <2> QED
    BY <2>1, <2>2, Zenon DEF CarriedInv, CarriedForward
<1>3. \A n \in DOMAIN attempts : 1..n \subseteq DOMAIN attempts
  <2>1. Len(attempts) \in Nat /\ DOMAIN attempts = 1..Len(attempts)
    BY SeqFacts, Zenon DEF BranchInv
  <2> QED
    BY <2>1
<1>4. \A n \in DOMAIN attempts : Due(n)' = Due(n)
  BY <1>1, <1>3, Zenon DEF Due
<1>5. \A n \in DOMAIN attempts : \A e \in Elements(attempts[n].items) : events'[e].world = attempts[n].world
  BY <1>2, Zenon DEF CarriedInv, CarriedForward, Kept
<1>6. {Own(n) : n \in DOMAIN attempts}' = {Own(n) : n \in DOMAIN attempts}
  BY <1>1, Zenon
<1>7. CarriedForward'
  BY <1>1, <1>4, <1>5, <1>6, ZenonT(30) DEF CarriedInv, CarriedForward
<1>8. admissions' \subseteq DOMAIN events'
  BY Zenon DEF CarriedInv, Kept
<1> QED
  BY <1>7, <1>8, Zenon DEF CarriedInv

-----------------------------------------------------------------------------
(* The turn loop and the runs.                                             *)

\* A step that writes no row of the graph but events and projections.
LEMMA ProcessEnds ==
  ASSUME LineageInv, ProcessInv', UNCHANGED <<consent, branches, providers>>, Kept(events, events'),
         nbatch <= nbatch', (up' /\ coordinator # 0) => (up /\ booted' = booted)
  PROVE  LineageInv'
<1>1. ProcessInv /\ ConsentInv /\ BranchInv /\ CarriedInv
  BY Zenon DEF LineageInv
<1>2. UNCHANGED <<derivations, bindings, attempts, admissions>>
  BY Zenon DEF consent, branches
<1>3. nbatch \in Nat /\ nbatch' \in Nat
  BY <1>1, Zenon DEF ProcessInv
<1>4. ConsentInv'
  BY <1>1, <1>3, ConsentStays, Zenon
<1>5. Kept(derivations, derivations') /\ bindings \subseteq bindings'
  BY <1>2, Zenon DEF Kept
<1>6. BranchInv'
  BY <1>1, <1>5, BranchesStay, Zenon
<1>7. CarriedInv'
  BY <1>1, <1>2, CarriedStays, Zenon
<1> QED
  BY <1>4, <1>6, <1>7, Zenon DEF LineageInv

\* A step on the process alone.
LEMMA QuietEnds ==
  ASSUME LineageInv, ProcessInv', UNCHANGED <<rows, nbatch, booted>>, up' => up
  PROVE  LineageInv'
<1>1. UNCHANGED <<consent, branches, providers, events>>
  BY Zenon DEF rows
<1>2. Kept(events, events')
  BY <1>1, Zenon DEF Kept
<1>3. nbatch <= nbatch'
  BY DEF LineageInv, ProcessInv
<1> QED
  BY <1>1, <1>2, <1>3, ProcessEnds, Zenon

\* Agent.enqueue(): an event that is new is the next of the feed.
LEMMA EnqueueInv ==
  ASSUME LineageInv, NEW e, Enqueue(e), events' \in Seq(Message), Kept(events, events')
  PROVE  LineageInv'
<1>1. UNCHANGED <<consent, branches, providers, up, feed, soul, target, turn, nbatch, call, runs,
                  booted>>
  BY Zenon DEF Enqueue
<1>2. ProcessInv
  BY Zenon DEF LineageInv
<1>3. DOMAIN events \subseteq DOMAIN events'
  BY Zenon DEF Kept
<1>4. \A r \in runs : RunGood(r)'
  BY <1>1, <1>2, <1>3, Zenon DEF ProcessInv, RunGood
<1>5. ProcessInv'
  BY <1>1, <1>2, <1>3, <1>4, Zenon DEF ProcessInv
<1>6. nbatch <= nbatch'
  BY <1>1, <1>2 DEF ProcessInv
<1> QED
  BY <1>1, <1>5, <1>6, ProcessEnds, Zenon

\* appendWorldEvent() and Agent.enqueue() of a new message.
LEMMA ArriveInv == ASSUME LineageInv, Arrive PROVE LineageInv'
<1>1. /\ Len(events) < Len(feed) /\ events' = Append(events, feed[Len(events) + 1])
      /\ Enqueue(Len(events) + 1)
  BY Zenon DEF Arrive
<1>2. events \in Seq(Message) /\ feed \in Seq(Message)
  BY FeedAssumption, Zenon DEF LineageInv, ProcessInv
<1>3. feed[Len(events) + 1] \in Message
  <2>1. Len(events) \in Nat /\ Len(feed) \in Nat /\ DOMAIN feed = 1..Len(feed)
    BY <1>2, SeqFacts, Zenon
  <2>2. Len(events) + 1 \in DOMAIN feed
    BY <1>1, <2>1
  <2> QED
    BY <1>2, <2>2, SeqFacts, Zenon
<1>4. PICK x \in Message : x = feed[Len(events) + 1]
  BY <1>3, Zenon
<1>5. events' = Append(events, x)
  BY <1>1, <1>4, Zenon
<1>6. events' \in Seq(Message) /\ Kept(events, events')
  BY <1>2, <1>5, AppendFacts, Zenon DEF Appended
<1> QED
  BY <1>1, <1>6, EnqueueInv, Zenon

\* A delivery repeated by the platform finds its event.
LEMMA ArriveAgainInv == ASSUME LineageInv, NEW e, ArriveAgain(e) PROVE LineageInv'
<1>1. UNCHANGED events /\ Enqueue(e)
  BY Zenon DEF ArriveAgain
<1>2. events' \in Seq(Message) /\ Kept(events, events')
  BY <1>1, Zenon DEF LineageInv, ProcessInv, Kept
<1> QED
  BY <1>1, <1>2, EnqueueInv, Zenon

\* A new batch comes after every row and has no run yet.
LEMMA OpenBatchInv ==
  ASSUME LineageInv, NEW wake \in {Internal} \cup DOMAIN events, OpenBatch(wake)
  PROVE  LineageInv'
<1>1. /\ up /\ ActiveRuns = {} /\ turn' = wake /\ nbatch' = nbatch + 1 /\ call' = 0
      /\ UNCHANGED <<events, consent, branches, providers, up, feed, soul, target, runs, booted>>
  BY Zenon DEF OpenBatch, PrepareBatch
<1>2. ProcessInv
  BY Zenon DEF LineageInv
<1>3. nbatch' \in Nat /\ nbatch <= nbatch' /\ call' \in Nat
  BY <1>1, <1>2 DEF ProcessInv
<1>4. booted < nbatch' /\ booted <= nbatch'
  <2>1. nbatch \in Nat /\ booted \in Nat
    BY <1>2, Zenon DEF ProcessInv
  <2>2. booted <= nbatch
    BY <1>2, Zenon DEF ProcessInv
  <2> QED
    BY <1>1, <2>1, <2>2
<1>5. \A r \in runs : RunGood(r)'
  <2>1. \A r \in runs : r.life # "active"
    BY <1>1, Zenon DEF ActiveRuns
  <2> QED
    BY <1>1, <1>2, <2>1, Zenon DEF ProcessInv, RunGood
<1>6. ProcessInv'
  BY <1>1, <1>2, <1>3, <1>4, <1>5, Zenon DEF ProcessInv
<1>7. Kept(events, events')
  BY <1>1, Zenon DEF Kept
<1> QED
  BY <1>1, <1>3, <1>6, <1>7, ProcessEnds, Zenon

\* The turn ends; its runs are left to detach or settle.
LEMMA EndTurnInv == ASSUME LineageInv, EndTurn PROVE LineageInv'
<1>1. /\ turn' = Idle /\ up
      /\ UNCHANGED <<rows, up, feed, soul, target, inbox, history, nbatch, call, runs, booted>>
  BY Zenon DEF EndTurn
<1>2. UNCHANGED events
  BY <1>1, Zenon DEF rows
<1>3. ProcessInv'
  BY <1>1, <1>2, Zenon DEF LineageInv, ProcessInv, RunGood
<1> QED
  BY <1>1, <1>3, QuietEnds, Zenon

\* A new run is of the current batch, which is this process's own.
LEMMA StartRunInv == ASSUME LineageInv, StartRun PROVE LineageInv'
<1> PICK r : r = RunOf(nbatch, call, turn, "active")
  BY Zenon
<1>1. /\ up /\ turn # Idle /\ runs' = runs \cup {r} /\ call' = call + 1
      /\ UNCHANGED <<rows, up, feed, soul, target, turn, nbatch, booted>>
  BY Zenon DEF StartRun
<1>2. UNCHANGED events
  BY <1>1, Zenon DEF rows
<1>3. ProcessInv
  BY Zenon DEF LineageInv
<1>4. turn \in {Internal} \cup DOMAIN events /\ booted < nbatch
  BY <1>1, <1>3, Zenon DEF ProcessInv
<1>5. DOMAIN events = 1..Len(events) /\ Len(events) \in Nat /\ nbatch \in Nat /\ call \in Nat
  BY <1>3, SeqFacts, Zenon DEF ProcessInv
<1>6. turn \in Nat
  BY <1>4, <1>5 DEF Internal
<1>7. r \in Run /\ r.b = nbatch /\ r.scope = turn
  BY <1>5, <1>6 DEF RunOf, Run
<1>8. RunGood(r)'
  BY <1>1, <1>2, <1>4, <1>7, Zenon DEF RunGood
<1>9. \A q \in runs : RunGood(q)'
  BY <1>1, <1>2, <1>3, Zenon DEF ProcessInv, RunGood
<1>10. call' \in Nat
  BY <1>1, <1>5
<1>11. ProcessInv'
  BY <1>1, <1>2, <1>3, <1>8, <1>9, <1>10, Zenon DEF ProcessInv
<1> QED
  BY <1>1, <1>11, QuietEnds, Zenon

\* A detached run keeps its batch and may no longer act.
LEMMA DetachInv == ASSUME LineageInv, NEW r, Detach(r) PROVE LineageInv'
<1> DEFINE q == [r EXCEPT !.life = "detached"]
<1>1. /\ up /\ r \in runs /\ runs' = (runs \ {r}) \cup {q}
      /\ UNCHANGED <<rows, up, feed, soul, target, turn, nbatch, call, booted>>
  BY Zenon DEF Detach, ActiveRuns
<1>2. UNCHANGED events
  BY <1>1, Zenon DEF rows
<1>3. ProcessInv
  BY Zenon DEF LineageInv
<1>4. r \in Run /\ r.scope \in {Internal} \cup DOMAIN events
  BY <1>1, <1>3, Zenon DEF ProcessInv, RunGood
<1>5. q \in Run /\ q.scope = r.scope /\ q.life # "active"
  BY <1>4 DEF Run
<1> HIDE DEF q
<1>6. RunGood(q)'
  BY <1>2, <1>4, <1>5, Zenon DEF RunGood
<1>7. \A x \in runs : RunGood(x)'
  BY <1>1, <1>2, <1>3, Zenon DEF ProcessInv, RunGood
<1>8. ProcessInv'
  BY <1>1, <1>2, <1>3, <1>6, <1>7, Zenon DEF ProcessInv
<1> QED
  BY <1>1, <1>8, QuietEnds, Zenon

\* A settled run is gone.
LEMMA SettleInv == ASSUME LineageInv, NEW r, Settle(r) PROVE LineageInv'
<1>1. /\ up /\ runs' = runs \ {r}
      /\ UNCHANGED <<rows, up, feed, soul, target, turn, nbatch, call, booted>>
  BY Zenon DEF Settle
<1>2. UNCHANGED events
  BY <1>1, Zenon DEF rows
<1>3. \A x \in runs : RunGood(x)'
  BY <1>1, <1>2, Zenon DEF LineageInv, ProcessInv, RunGood
<1>4. ProcessInv'
  BY <1>1, <1>2, <1>3, Zenon DEF LineageInv, ProcessInv
<1> QED
  BY <1>1, <1>4, QuietEnds, Zenon

\* The SOUL file is edited.
LEMMA EditInv == ASSUME LineageInv, NEW s \in Souls, EditSoul(s) PROVE LineageInv'
<1>1. /\ soul' = s
      /\ UNCHANGED <<rows, up, feed, target, turn, nbatch, call, runs, booted>>
  BY Zenon DEF EditSoul
<1>2. UNCHANGED events
  BY <1>1, Zenon DEF rows
<1>3. ProcessInv'
  BY <1>1, <1>2, Zenon DEF LineageInv, ProcessInv, RunGood
<1> QED
  BY <1>1, <1>3, QuietEnds, Zenon

\* The dead process leaves no run and no turn.
LEMMA CrashInv == ASSUME LineageInv, Crash PROVE LineageInv'
<1>1. /\ up' = FALSE /\ turn' = Idle /\ runs' = {}
      /\ UNCHANGED <<rows, feed, soul, target, nbatch, call, booted>>
  BY Zenon DEF Crash
<1>2. UNCHANGED events
  BY <1>1, Zenon DEF rows
<1>3. ProcessInv'
  BY <1>1, <1>2, Zenon DEF LineageInv, ProcessInv
<1> QED
  BY <1>1, <1>3, QuietEnds, Zenon

\* recoverCoordinatedBranch() at boot frees the coordinator.
LEMMA BootInv == ASSUME LineageInv, NEW t \in Targets, Boot(t) PROVE LineageInv'
<1>1. /\ ~up /\ up' = TRUE /\ target' = t /\ booted' = nbatch /\ Recover
      /\ UNCHANGED <<events, projected, consent, admissions, attempts, providers, feed, soul, turn,
                     nbatch, call, runs>>
  BY Zenon DEF Boot
<1>2. ProcessInv /\ ConsentInv /\ BranchInv /\ CarriedInv
  BY Zenon DEF LineageInv
<1>3. ProcessInv'
  <2>1. nbatch <= nbatch
    BY <1>2 DEF ProcessInv
  <2>2. turn = Idle /\ runs = {}
    BY <1>1, <1>2, Zenon DEF ProcessInv
  <2> QED
    BY <1>1, <1>2, <2>1, <2>2, Zenon DEF ProcessInv
<1>4. Kept(events, events') /\ Kept(derivations, derivations') /\ bindings \subseteq bindings'
  BY <1>1, Zenon DEF Kept, consent
<1>5. nbatch \in Nat /\ nbatch' \in Nat /\ nbatch <= nbatch'
  BY <1>1, <1>2 DEF ProcessInv
<1>6. ConsentInv'
  BY <1>1, <1>2, <1>5, ConsentStays, Zenon
<1>7. CarriedInv'
  BY <1>1, <1>2, <1>4, CarriedStays, Zenon
<1>8. /\ coordinator' = 0 /\ crashed' = abandoned' /\ crashed' = recovered'
      /\ crashed' = crashed \cup ({coordinator} \ {0})
  <2>1. CASE coordinator = 0
    BY <1>1, <1>2, <2>1, Zenon DEF Recover, BranchInv
  <2>2. CASE coordinator # 0
    BY <1>1, <1>2, <2>2, Zenon DEF Recover, BranchInv
  <2> QED
    BY <2>1, <2>2, Zenon
<1>9. Running' = {} /\ crashed' \subseteq DOMAIN attempts
  BY <1>1, <1>2, <1>8, Zenon DEF Running, BranchInv
<1>10. \A n \in DOMAIN attempts : AttemptGood(n)'
  BY <1>1, <1>2, Zenon DEF BranchInv, AttemptGood, consent
<1>11. 0 \in Nat
  OBVIOUS
<1>12. BranchInv'
  BY <1>1, <1>2, <1>8, <1>9, <1>10, <1>11, Zenon DEF BranchInv
<1> QED
  BY <1>3, <1>6, <1>7, <1>12, Zenon DEF LineageInv

-----------------------------------------------------------------------------
(* The consent chain.                                                      *)

\* resolveActive() admits only runs of the current batch.
LEMMA ActiveRun ==
  ASSUME ProcessInv, NEW r, ResolveActive(r)
  PROVE  /\ r.b = nbatch /\ r.b \in Nat /\ r.c \in Nat /\ r.scope \in Nat /\ booted < r.b
         /\ r.scope # Internal => r.scope \in DOMAIN events
<1>1. RunGood(r) /\ r.life = "active"
  BY Zenon DEF ProcessInv, ResolveActive
<1>2. r.b \in Nat /\ r.c \in Nat /\ r.scope \in Nat
  BY <1>1 DEF RunGood, Run
<1> QED
  BY <1>1, <1>2, Zenon DEF RunGood

\* Another batch than the current one is an earlier one.
LEMMA Earlier == \A m, n \in Nat : m <= n /\ m # n => m < n
OBVIOUS

\* A step on the chain alone.
LEMMA ChainEnds ==
  ASSUME LineageInv, KeepBranches, KeepProcess, ConsentInv', bindings \subseteq bindings',
         Kept(derivations, derivations')
  PROVE  LineageInv'
<1>1. /\ UNCHANGED <<events, up, feed, soul, target, turn, nbatch, call, runs, booted>>
      /\ UNCHANGED <<branches, providers>>
  BY Zenon DEF KeepBranches, KeepProcess, process
<1>2. ProcessInv'
  BY <1>1, Zenon DEF LineageInv, ProcessInv, RunGood
<1>3. BranchInv'
  BY <1>1, BranchesStay, Zenon DEF LineageInv
<1>4. UNCHANGED <<attempts, admissions>> /\ Kept(events, events')
  BY <1>1, Zenon DEF branches, Kept
<1>5. CarriedInv'
  BY <1>4, CarriedStays, Zenon DEF LineageInv
<1> QED
  BY <1>2, <1>3, <1>5, Zenon DEF LineageInv

\* inspectIdentityCandidate().
LEMMA InspectInv == ASSUME LineageInv, NEW r, Inspect(r) PROVE LineageInv'
<1>1. ProcessInv /\ ConsentInv
  BY Zenon DEF LineageInv
<1>2. /\ ResolveActive(r) /\ KeepBranches /\ KeepProcess
      /\ candidates' = candidates \cup {CandidateRow(r)}
      /\ UNCHANGED <<authorizations, derivations, layers, bindings, heads, nbatch>>
  BY Zenon DEF Inspect, InsertCandidate, KeepProcess, process
<1>3. r.b = nbatch /\ r.b \in Nat /\ r.c \in Nat /\ soul \in Souls
  BY <1>1, <1>2, ActiveRun, Zenon DEF ProcessInv
<1>4. PICK k : k = CandidateRow(r)
  BY Zenon
<1>5. k \in Candidate /\ k.b <= nbatch
  BY <1>3, <1>4 DEF CandidateRow, Candidate
<1>6. \A a \in authorizations : AuthorizationGood(a)'
  BY <1>1, <1>2, Zenon DEF ConsentInv, AuthorizationGood
<1>7. \A d : DerivationGood(d) => DerivationGood(d)'
  BY <1>2, Zenon DEF DerivationGood
<1>8. \A p \in bindings : BindingGood(p)'
  BY <1>1, <1>2, Zenon DEF ConsentInv, BindingGood
<1>9. ConsentInv'
  BY <1>1, <1>2, <1>4, <1>5, <1>6, <1>7, <1>8, Zenon DEF ConsentInv
<1>10. bindings \subseteq bindings' /\ Kept(derivations, derivations')
  BY <1>2, Zenon DEF Kept
<1> QED
  BY <1>2, <1>9, <1>10, ChainEnds, Zenon

\* authorizeIdentityCandidate(): the candidate is of an earlier batch and has
\* the text the file has now.
LEMMA AuthorizeInv == ASSUME LineageInv, NEW r, NEW k, Authorize(r, k) PROVE LineageInv'
<1>1. ProcessInv /\ ConsentInv
  BY Zenon DEF LineageInv
<1>2. /\ ResolveActive(r) /\ KeepBranches /\ KeepProcess
      /\ k \in candidates /\ k.b # r.b /\ k.soul = soul
      /\ authorizations' = authorizations \cup {AuthorizationRow(r, k)}
      /\ UNCHANGED <<candidates, derivations, layers, bindings, heads, nbatch>>
  BY Zenon DEF Authorize, AuthorizeChecks, InsertAuthorization, KeepProcess, process
<1>3. r.b = nbatch /\ r.b \in Nat /\ r.c \in Nat /\ soul \in Souls
  BY <1>1, <1>2, ActiveRun, Zenon DEF ProcessInv
<1>4. PICK a : a = AuthorizationRow(r, k)
  BY Zenon
<1>5. k \in Candidate /\ k.b \in Nat /\ k.b <= nbatch
  BY <1>1, <1>2 DEF ConsentInv, Candidate
<1>6. a \in Authorization /\ a.b <= nbatch /\ a.b = r.b /\ a.candidate = k /\ a.seen = soul
  BY <1>3, <1>4, <1>5 DEF AuthorizationRow, Authorization
<1>7. k.b < r.b
  BY <1>2, <1>3, <1>5, Earlier, Zenon
<1>8. AuthorizationGood(a)'
  BY <1>2, <1>6, <1>7, Zenon DEF AuthorizationGood
<1>9. \A x \in authorizations : AuthorizationGood(x)'
  BY <1>1, <1>2, Zenon DEF ConsentInv, AuthorizationGood
<1>10. \A d : DerivationGood(d) => DerivationGood(d)'
  BY <1>2, Zenon DEF DerivationGood
<1>11. \A p \in bindings : BindingGood(p)'
  BY <1>1, <1>2, Zenon DEF ConsentInv, BindingGood
<1>12. ConsentInv'
  BY <1>1, <1>2, <1>4, <1>6, <1>8, <1>9, <1>10, <1>11, Zenon DEF ConsentInv
<1>13. bindings \subseteq bindings' /\ Kept(derivations, derivations')
  BY <1>2, Zenon DEF Kept
<1> QED
  BY <1>2, <1>12, <1>13, ChainEnds, Zenon

\* deriveAuthorizedIdentityLayers(): the new derivation is not older than any
\* binding.
LEMMA DeriveInv == ASSUME LineageInv, NEW r, NEW a, Derive(r, a) PROVE LineageInv'
<1>1. ProcessInv /\ ConsentInv
  BY Zenon DEF LineageInv
<1>2. /\ ResolveActive(r) /\ KeepBranches /\ KeepProcess
      /\ a \in authorizations /\ r.b \notin {a.b, a.candidate.b} /\ a.candidate.soul = soul
      /\ derivations' = Append(derivations, DerivationRow(r, a))
      /\ UNCHANGED <<candidates, authorizations, bindings, heads, nbatch>>
  BY Zenon DEF Derive, DeriveChecks, InsertDerivation, KeepProcess, process
<1>3. r.b = nbatch /\ r.b \in Nat /\ r.c \in Nat /\ soul \in Souls
  BY <1>1, <1>2, ActiveRun, Zenon DEF ProcessInv
<1>4. PICK d : d = DerivationRow(r, a)
  BY Zenon
<1>5. a \in Authorization /\ a.b \in Nat /\ a.b <= nbatch
  BY <1>1, <1>2 DEF ConsentInv, Authorization
<1>6. d \in Derivation /\ d.b = r.b /\ d.authorization = a /\ d.seen = soul
  BY <1>3, <1>4, <1>5 DEF DerivationRow, Derivation
<1>7. a.b < r.b
  BY <1>2, <1>3, <1>5, Earlier, Zenon
<1>8. DerivationGood(d)'
  BY <1>2, <1>6, <1>7, Zenon DEF DerivationGood, SoulOf
<1>9. derivations' = Append(derivations, d) /\ derivations \in Seq(Derivation)
  BY <1>1, <1>2, <1>4, Zenon DEF ConsentInv
<1>10. derivations' \in Seq(Derivation) /\ Appended(derivations, derivations', d)
  BY <1>6, <1>9, AppendFacts, Zenon
<1>11. PICK m : m = Len(derivations) + 1
  BY Zenon
<1>12. /\ DOMAIN derivations' = DOMAIN derivations \cup {m} /\ derivations'[m] = d
       /\ Kept(derivations, derivations')
  BY <1>10, <1>11, Zenon DEF Appended
<1>13. nbatch <= nbatch
  BY <1>3
<1>14. \A n \in DOMAIN derivations' : derivations'[n].b <= nbatch /\ DerivationGood(derivations[n])'
  <2> TAKE n \in DOMAIN derivations'
  <2>1. PICK x : x = derivations'[n]
    BY Zenon
  <2>2. CASE n = m
    <3>1. x = d
      BY <1>12, <2>1, <2>2, Zenon
    <3> QED
      BY <1>3, <1>6, <1>8, <1>13, <2>1, <3>1, Zenon
  <2>3. CASE n # m
    <3>1. n \in DOMAIN derivations /\ x = derivations[n]
      BY <1>12, <2>1, <2>3, Zenon DEF Kept
    <3>2. x.b <= nbatch /\ DerivationGood(x)
      BY <1>1, <3>1, Zenon DEF ConsentInv
    <3>3. DerivationGood(x)'
      BY <1>2, <3>2, Zenon DEF DerivationGood
    <3> QED
      BY <2>1, <3>2, <3>3, Zenon
  <2> QED
    BY <2>2, <2>3, Zenon
<1>15. \A x \in authorizations : AuthorizationGood(x)'
  BY <1>1, <1>2, Zenon DEF ConsentInv, AuthorizationGood
<1>16. ASSUME NEW p \in bindings PROVE BindingGood(p)'
  <2>1. BindingGood(p) /\ p.b \in Nat /\ p.b <= nbatch
    BY <1>1 DEF ConsentInv, Binding
  <2>2. d.b >= p.b
    BY <1>3, <1>6, <2>1
  <2>3. \A n \in DOMAIN derivations' : n > p.derivation => derivations'[n].b >= p.b
    BY <1>12, <2>1, <2>2, Zenon DEF BindingGood, Kept
  <2> QED
    BY <1>2, <1>12, <2>1, <2>3, Zenon DEF BindingGood, Kept
<1>17. ConsentInv'
  BY <1>1, <1>2, <1>10, <1>14, <1>15, <1>16, Zenon DEF ConsentInv
<1>18. bindings \subseteq bindings'
  BY <1>2, Zenon
<1> QED
  BY <1>2, <1>12, <1>17, <1>18, ChainEnds, Zenon

\* The SOUL of a derivation.
LEMMA DerivedSoul ==
  ASSUME ConsentInv, NEW n \in DOMAIN derivations
  PROVE  SoulOf(derivations[n]) \in Souls /\ derivations[n].b \in Nat
<1>1. derivations[n] \in Derivation
  BY SeqFacts, Zenon DEF ConsentInv
<1> QED
  BY <1>1 DEF SoulOf, Derivation, Authorization, Candidate

\* The world of a stored event.
LEMMA EventWorld == ASSUME ProcessInv, NEW e \in DOMAIN events PROVE events[e].world \in Worlds
<1>1. events[e] \in Message
  BY SeqFacts, Zenon DEF ProcessInv
<1> QED
  BY <1>1 DEF Message

\* bindCurrentWorldProfile(): the newest derivation becomes the head of a
\* world without one.
LEMMA BindInv == ASSUME LineageInv, NEW r, NEW n, Bind(r, n) PROVE LineageInv'
<1>1. ProcessInv /\ ConsentInv
  BY Zenon DEF LineageInv
<1> PICK w, s, p : w = events[r.scope].world /\ s = SoulOf(derivations[n]) /\ p = BindingRow(r, n)
  BY Zenon
<1>2. /\ ResolveActive(r) /\ KeepBranches /\ KeepProcess
      /\ r.scope # Internal /\ n \in DOMAIN derivations /\ n = Len(derivations)
      /\ r.b # derivations[n].b /\ \A x \in bindings : x.world # w
      /\ bindings' = bindings \cup {p} /\ heads' = [heads EXCEPT ![p.world] = s]
      /\ UNCHANGED <<candidates, authorizations, derivations, layers, nbatch>>
  BY Zenon DEF Bind, BindChecks, InsertBinding, KeepProcess, process
<1>3. r.b = nbatch /\ r.b \in Nat /\ r.c \in Nat /\ r.scope \in Nat /\ r.scope \in DOMAIN events
  BY <1>1, <1>2, ActiveRun, Zenon
<1>4. w \in Worlds
  BY <1>1, <1>3, EventWorld, Zenon
<1>5. n \in Nat
  BY <1>1, <1>2, SeqFacts, Zenon DEF ConsentInv
<1>6. p \in Binding /\ p.b = r.b /\ p.world = w /\ p.derivation = n
  BY <1>3, <1>4, <1>5 DEF BindingRow, Binding
<1>7. s \in Souls /\ derivations[n].b \in Nat
  BY <1>1, <1>2, DerivedSoul, Zenon
<1>8. /\ heads' \in [Worlds -> Souls \cup {NoSoul}] /\ heads'[w] = s
      /\ \A v \in Worlds : v # w => heads'[v] = heads[v]
  BY <1>1, <1>2, <1>4, <1>6, <1>7, Zenon DEF ConsentInv
<1>9. BindingGood(p)'
  <2>1. derivations[n].b < p.b
    BY <1>1, <1>2, <1>3, <1>6, <1>7, Earlier, Zenon DEF ConsentInv
  <2>2. \A m \in DOMAIN derivations : ~(m > n)
    <3>1. derivations \in Seq(Derivation)
      BY <1>1, Zenon DEF ConsentInv
    <3>2. DOMAIN derivations = 1..n
      BY <1>2, <3>1, SeqFacts, Zenon
    <3> QED
      BY <1>5, <3>2
  <2> QED
    BY <1>2, <1>6, <1>8, <2>1, <2>2, ZenonT(30) DEF BindingGood
<1>10. ASSUME NEW x \in bindings PROVE BindingGood(x)'
  <2>1. BindingGood(x) /\ x \in Binding /\ x.world # w
    BY <1>1, <1>2, Zenon DEF ConsentInv
  <2>2. x.world \in Worlds
    BY <2>1 DEF Binding
  <2> QED
    BY <1>2, <1>8, <2>1, <2>2, Zenon DEF BindingGood
<1>11. \A a \in authorizations : AuthorizationGood(a)'
  BY <1>1, <1>2, Zenon DEF ConsentInv, AuthorizationGood
<1>12. \A d : DerivationGood(d) => DerivationGood(d)'
  BY <1>2, Zenon DEF DerivationGood
<1>13. p.b <= nbatch
  BY <1>3, <1>6
<1>14. ConsentInv'
  BY <1>1, <1>2, <1>6, <1>8, <1>9, <1>10, <1>11, <1>12, <1>13, Zenon DEF ConsentInv
<1>15. bindings \subseteq bindings' /\ Kept(derivations, derivations')
  BY <1>2, Zenon DEF Kept
<1> QED
  BY <1>2, <1>14, <1>15, ChainEnds, Zenon

-----------------------------------------------------------------------------
(* Sets of sequences in order.                                             *)

\* A nonempty set of numbers has a least element.
LEMMA HasMin == ASSUME NEW S, S \subseteq Nat, S # {} PROVE \E m \in S : \A n \in S : m <= n
<1>1. PICK x \in S : \A y \in S : ~(<<y, x>> \in OpToRel(<, Nat))
  BY NatLessThanWellFounded, WFMin, Zenon
<1>2. \A y \in S : y \in Nat /\ x \in Nat /\ ~(y < x)
  BY <1>1, Zenon DEF OpToRel
<1>3. \A y \in S : x <= y
  <2> TAKE y \in S
  <2> QED
    BY <1>2
<1> QED
  BY <1>1, <1>3, Zenon

\* Min is that element.
LEMMA MinIs == ASSUME NEW S, S \subseteq Nat, S # {} PROVE Min(S) \in S /\ \A n \in S : Min(S) <= n
<1>1. \E m \in S : \A n \in S : m <= n
  BY HasMin, Zenon
<1> QED
  BY <1>1, Zenon DEF Min

\* A list of n elements of S, in order.
Enumerates(q, n, S) == q \in [1..n -> S] /\ Increasing(q)

\* An enumeration of the rest, with the least element put in front.
LEMMA EnumerateOneMore ==
  ASSUME NEW S, S \subseteq Nat, NEW n \in Nat, NEW m \in S, \A k \in S : m <= k,
         NEW q, Enumerates(q, n, S \ {m})
  PROVE  \E p : Enumerates(p, n + 1, S)
<1> DEFINE p == [i \in 1..(n + 1) |-> IF i = 1 THEN m ELSE q[i - 1]]
<1>1. \A i \in 1..n : q[i] \in S /\ q[i] # m
  BY Zenon DEF Enumerates
<1>2. DOMAIN q = 1..n
  BY Zenon DEF Enumerates
<1>3. \A i \in 1..(n + 1) : i # 1 => i - 1 \in 1..n
  OBVIOUS
<1>4. p \in [1..(n + 1) -> S]
  BY <1>1, <1>3, Zenon
<1>5. ASSUME NEW i \in 1..(n + 1), NEW j \in 1..(n + 1), i < j PROVE p[i] < p[j]
  <2>1. j # 1 /\ p[j] = q[j - 1] /\ j - 1 \in 1..n
    BY <1>5
  <2>2. CASE i = 1
    <3>1. p[i] = m /\ q[j - 1] \in S /\ q[j - 1] # m
      BY <1>1, <2>1, <2>2, Zenon
    <3>2. m <= q[j - 1]
      BY <3>1, Zenon
    <3>3. m < q[j - 1]
      <4>1. m \in Nat /\ q[j - 1] \in Nat
        BY <3>1, Zenon
      <4> HIDE DEF p
      <4>. QED
        BY <3>1, <3>2, <4>1
    <3>. QED
      BY <2>1, <3>1, <3>3, Zenon
  <2>3. CASE i # 1
    <3>1. p[i] = q[i - 1] /\ i - 1 \in 1..n
      BY <1>3, <2>3, Zenon
    <3>2. i - 1 < j - 1
      BY <1>5
    <3>3. q[i - 1] < q[j - 1]
      BY <1>2, <2>1, <3>1, <3>2, Zenon DEF Enumerates, Increasing
    <3>. QED
      BY <2>1, <3>1, <3>3, Zenon
  <2>. QED
    BY <2>2, <2>3, Zenon
<1>6. DOMAIN p = 1..(n + 1)
  BY Zenon
<1> HIDE DEF p
<1>. QED
  BY <1>4, <1>5, <1>6, Zenon DEF Enumerates, Increasing

\* Every finite set of numbers can be listed in order.
LEMMA EnumerationExists ==
  ASSUME NEW S, S \subseteq Nat, IsFiniteSet(S)
  PROVE  \E q : Enumerates(q, Cardinality(S), S)
<1> DEFINE Sorts(A) == A \subseteq Nat /\ IsFiniteSet(A) => \E q : Enumerates(q, Cardinality(A), A)
           Bad == {n \in Nat : \E A : A \subseteq Nat /\ IsFiniteSet(A) /\ Cardinality(A) = n
                                      /\ ~\E q : Enumerates(q, Cardinality(A), A)}
<1>1. SUFFICES Bad = {}
  <2>1. Cardinality(S) \in Nat
    BY FS_CardinalityType, Zenon
  <2>. QED
    BY <2>1, Zenon
<1>2. SUFFICES ASSUME Bad # {} PROVE FALSE
  BY Zenon
<1>3. PICK n \in Bad : \A k \in Bad : n <= k
  <2>1. Bad \subseteq Nat
    BY Zenon
  <2> HIDE DEF Bad
  <2>. QED
    BY <1>2, <2>1, HasMin, Zenon
<1>4. PICK A : /\ A \subseteq Nat /\ IsFiniteSet(A) /\ Cardinality(A) = n
               /\ ~\E q : Enumerates(q, n, A)
  BY <1>3, Zenon
<1>5. n \in Nat
  BY <1>3, Zenon
<1>6. CASE A = {}
  <2>1. n = 0
    BY <1>4, <1>6, FS_EmptySet, Zenon
  <2>2. Enumerates(<<>>, 0, A)
    BY <1>6 DEF Enumerates, Increasing
  <2>. QED
    BY <1>4, <2>1, <2>2, Zenon
<1>7. CASE A # {}
  <2>1. PICK m \in A : \A k \in A : m <= k
    BY <1>4, <1>7, HasMin, Zenon
  <2>2. IsFiniteSet(A \ {m}) /\ Cardinality(A \ {m}) = n - 1
    BY <1>4, FS_RemoveElement, Zenon
  <2>3. n - 1 \in Nat
    BY <2>2, FS_CardinalityType, Zenon
  <2>4. n - 1 \notin Bad
    <3>1. ~(n <= n - 1)
      BY <1>5
    <3> HIDE DEF Bad
    <3>. QED
      BY <1>3, <3>1, Zenon
  <2>5. PICK q : Enumerates(q, n - 1, A \ {m})
    BY <1>4, <2>2, <2>3, <2>4, Zenon
  <2>6. \E p : Enumerates(p, (n - 1) + 1, A)
    BY <1>4, <2>1, <2>3, <2>5, EnumerateOneMore, Zenon
  <2>7. (n - 1) + 1 = n
    BY <1>5
  <2>. QED
    BY <1>4, <2>6, <2>7, Zenon
<1>. QED
  BY <1>6, <1>7, Zenon

\* A list in order has no element twice.
LEMMA IncreasingInjective ==
  ASSUME NEW S, S \subseteq Nat, NEW n \in Nat, NEW q, Enumerates(q, n, S)
  PROVE  q \in Injection(1..n, S)
<1>1. q \in [1..n -> S] /\ DOMAIN q = 1..n
  BY Zenon DEF Enumerates
<1>2. ASSUME NEW i \in DOMAIN q, NEW j \in DOMAIN q, q[i] = q[j] PROVE i = j
  <2>1. i \in Nat /\ j \in Nat
    BY <1>1
  <2>2. q[i] \in Nat /\ q[j] \in Nat
    BY <1>1, Zenon
  <2>3. i < j \/ j < i \/ i = j
    BY <2>1
  <2>4. ~(q[i] < q[j]) /\ ~(q[j] < q[i])
    BY <1>2, <2>2
  <2> QED
    BY <2>3, <2>4, Zenon DEF Enumerates, Increasing
<1> QED
  BY <1>1, <1>2, Zenon DEF Injection, IsInjective

\* A list as a sequence.
LEMMA ListIsSeq == ASSUME NEW S, NEW n \in Nat, NEW f \in [1..n -> S] PROVE f \in Seq(S) /\ Len(f) = n
OBVIOUS

\* InOrder lists every element once.
LEMMA InOrderIs ==
  ASSUME NEW S, S \subseteq Nat, IsFiniteSet(S), NEW q, q = InOrder(S)
  PROVE  q \in Seq(S) /\ Len(q) = Cardinality(S) /\ Increasing(q) /\ Elements(q) = S
<1> PICK n : n = Cardinality(S)
  BY Zenon
<1>1. n \in Nat
  BY FS_CardinalityType, Zenon
<1>2. \E p : Enumerates(p, n, S)
  BY EnumerationExists, Zenon
<1>3. Enumerates(q, n, S)
  BY <1>2, Zenon DEF InOrder, Enumerates
<1>4. q \in [1..n -> S] /\ Increasing(q) /\ DOMAIN q = 1..n
  BY <1>3, Zenon DEF Enumerates
<1>5. q \in Seq(S) /\ Len(q) = n
  BY <1>1, <1>4, ListIsSeq, Zenon
<1>6. q \in Injection(1..n, S)
  BY <1>1, <1>3, IncreasingInjective, Zenon
<1>7. Cardinality(1..n) = n
  <2>1. 1 \in Int /\ n \in Int
    BY <1>1
  <2>2. Cardinality(1..n) = IF 1 > n THEN 0 ELSE n - 1 + 1
    BY <2>1, FS_Interval, Zenon
  <2> QED
    BY <1>1, <2>2
<1>8. q \in Surjection(1..n, S)
  BY <1>6, <1>7, FS_Injection, Zenon
<1>9. Elements(q) = S
  BY <1>4, <1>8, Zenon DEF Surjection, Elements
<1> QED
  BY <1>4, <1>5, <1>9, Zenon

\* The i-th of a list that leaves nothing out has i numbers up to it.
LEMMA PrefixCount ==
  ASSUME NEW A, A \subseteq Nat, NEW q \in Seq(A), Increasing(q), NEW i \in DOMAIN q,
         \A d \in A : d <= q[i] => d \in Elements(q)
  PROVE  Cardinality(UpTo(A, q[i])) = i
<1>1. DOMAIN q = 1..Len(q) /\ Len(q) \in Nat /\ \A j \in DOMAIN q : q[j] \in A
  BY SeqFacts, Zenon
<1>2. i \in Nat /\ 1..i \subseteq DOMAIN q /\ i \in 1..i
  BY <1>1
<1>3. \A j \in DOMAIN q : q[j] \in Nat /\ j \in Nat
  <2>1. \A j \in DOMAIN q : j \in Nat
    BY <1>1
  <2> QED
    BY <1>1, <2>1, Zenon
<1>4. \A j \in 1..i : q[j] <= q[i]
  <2> TAKE j \in 1..i
  <2>1. j < i \/ j = i
    BY <1>2
  <2>2. q[j] < q[i] \/ q[j] = q[i]
    BY <1>2, <2>1, Zenon DEF Increasing
  <2>3. q[j] \in Nat /\ q[i] \in Nat
    BY <1>2, <1>3, Zenon
  <2> QED
    BY <2>2, <2>3
<1>5. \A j \in DOMAIN q : q[j] <= q[i] => j \in 1..i
  <2> TAKE j \in DOMAIN q
  <2>1. SUFFICES ASSUME ~(j \in 1..i) PROVE ~(q[j] <= q[i])
    BY Zenon
  <2>2. i < j
    BY <1>1, <1>2, <2>1
  <2>3. q[i] < q[j]
    BY <2>2, Zenon DEF Increasing
  <2>4. q[j] \in Nat /\ q[i] \in Nat
    BY <1>3, Zenon
  <2> QED
    BY <2>3, <2>4
<1> DEFINE f == [j \in 1..i |-> q[j]]
           U == UpTo(A, q[i])
<1>6. f \in [1..i -> U] /\ DOMAIN f = 1..i /\ \A j \in 1..i : f[j] = q[j]
  <2>1. \A j \in 1..i : q[j] \in U
    BY <1>1, <1>2, <1>4, Zenon DEF UpTo
  <2> QED
    BY <2>1, Zenon
<1>7. \A d \in U : \E j \in 1..i : q[j] = d
  BY <1>5, Zenon DEF UpTo, Elements
<1>8. \A j, k \in 1..i : j < k => q[j] < q[k]
  BY <1>2, Zenon DEF Increasing
<1>9. U \subseteq Nat
  BY Zenon DEF UpTo
<1> HIDE DEF f, U
<1>10. Enumerates(f, i, U)
  <2>1. \A j, k \in DOMAIN f : j < k => f[j] < f[k]
    <3> TAKE j, k \in DOMAIN f
    <3>1. f[j] = q[j] /\ f[k] = q[k] /\ j \in 1..i /\ k \in 1..i
      BY <1>6, Zenon
    <3>2. j < k => q[j] < q[k]
      BY <1>8, <3>1, Zenon
    <3> QED
      BY <3>1, <3>2, Zenon
  <2> QED
    BY <1>6, <2>1, Zenon DEF Enumerates, Increasing
<1>11. f \in Injection(1..i, U)
  BY <1>2, <1>9, <1>10, IncreasingInjective, Zenon
<1>12. f \in Surjection(1..i, U)
  BY <1>6, <1>7, Zenon DEF Surjection
<1>13. ExistsBijection(1..i, U)
  BY <1>11, <1>12, Zenon DEF ExistsBijection, Bijection
<1> QED
  BY <1>2, <1>13, FS_CountingElements, Zenon DEF U

-----------------------------------------------------------------------------
(* The next pending batch.                                                 *)

\* The batch is the longest run of fitting admissions from the first one.
FrontierGood(A, q) ==
  /\ q \in Seq(A) /\ Increasing(q)
  /\ \A i \in DOMAIN q : /\ Fits(A, q[i]) /\ Cardinality(UpTo(A, q[i])) <= Limit
                         /\ \A d \in A : d <= q[i] => d \in Elements(q)
  /\ \A e \in A : /\ Cardinality(UpTo(A, e)) <= Limit
                  /\ \A d \in UpTo(A, e) : Fits(A, d)
                  => e \in Elements(q)

\* What inspectNextDarkPendingBatch() returns.
LEMMA FrontierIs ==
  ASSUME NEW A, A \subseteq Nat, IsFiniteSet(A), NEW q, q = Frontier(A)
  PROVE  FrontierGood(A, q)
<1> DEFINE S == {e \in A : /\ Cardinality(UpTo(A, e)) <= Limit
                           /\ \A d \in UpTo(A, e) : Fits(A, d)}
<1>1. q = InOrder(S)
  BY Zenon DEF Frontier
<1>2. S \subseteq A /\ S \subseteq Nat /\ IsFiniteSet(S)
  <2>1. S \subseteq A
    BY Zenon
  <2> HIDE DEF S
  <2> QED
    BY <2>1, FS_Subset, Zenon
<1>3. \A e \in S : Cardinality(UpTo(A, e)) <= Limit /\ \A d \in UpTo(A, e) : Fits(A, d)
  BY Zenon
<1>4. \A e \in A : (Cardinality(UpTo(A, e)) <= Limit /\ \A d \in UpTo(A, e) : Fits(A, d)) => e \in S
  BY Zenon
<1> HIDE DEF S
<1>5. q \in Seq(S) /\ Increasing(q) /\ Elements(q) = S
  BY <1>1, <1>2, InOrderIs, Zenon
<1>6. q \in Seq(A) /\ \A i \in DOMAIN q : q[i] \in S
  BY <1>2, <1>5, SeqFacts, Zenon
<1>7. ASSUME NEW e \in S, NEW d \in A, d <= e PROVE d \in S
  <2>1. e \in Nat /\ d \in Nat
    BY <1>2, Zenon
  <2>2. UpTo(A, d) \subseteq UpTo(A, e)
    <3>1. \A x \in A : x <= d => x <= e
      BY <1>7, <2>1, LeqTrans, Zenon
    <3> QED
      BY <3>1, Zenon DEF UpTo
  <2>3. UpTo(A, e) \subseteq A
    BY Zenon DEF UpTo
  <2>4. IsFiniteSet(UpTo(A, e))
    BY <2>3, FS_Subset, Zenon
  <2>5. IsFiniteSet(UpTo(A, d)) /\ Cardinality(UpTo(A, d)) <= Cardinality(UpTo(A, e))
    BY <2>2, <2>4, FS_Subset, Zenon
  <2>6. Cardinality(UpTo(A, d)) \in Nat /\ Cardinality(UpTo(A, e)) \in Nat /\ Limit \in Nat
    BY <2>4, <2>5, FS_CardinalityType, LineageAssumption, Zenon
  <2>7. Cardinality(UpTo(A, d)) <= Limit
    BY <1>3, <2>5, <2>6, LeqTrans, Zenon
  <2> QED
    BY <1>3, <1>4, <2>2, <2>7, Zenon
<1>8. \A e \in S : e \in UpTo(A, e)
  <2>1. \A e \in S : e \in A /\ e <= e
    BY <1>2
  <2> QED
    BY <2>1, Zenon DEF UpTo
<1> QED
  BY <1>3, <1>4, <1>5, <1>6, <1>7, <1>8, Zenon DEF FrontierGood

-----------------------------------------------------------------------------
(* The requests.                                                           *)

\* A batch that ends in e is everything admitted up to e, all of e's world.
TailGood(A, q, e) ==
  /\ Len(q) \in 1..Limit /\ Len(q) \in DOMAIN q /\ 1 \in DOMAIN q
  /\ Elements(q) = UpTo(A, e) /\ q[1] = Min(A)
  /\ \A i \in DOMAIN q : Cardinality(UpTo(A, q[i])) = i
  /\ \A d \in Elements(q) : events[d].world = events[e].world /\ d \in projected

\* So is the batch a passed tail check leaves.
LEMMA TailIs ==
  ASSUME NEW A, A \subseteq Nat, NEW q, FrontierGood(A, q), q # << >>, NEW e, q[Len(q)] = e
  PROVE  TailGood(A, q, e)
<1>1. q \in Seq(A) /\ Increasing(q)
  BY Zenon DEF FrontierGood
<1>2. Len(q) \in Nat /\ DOMAIN q = 1..Len(q) /\ \A i \in DOMAIN q : q[i] \in A
  BY <1>1, SeqFacts, Zenon
<1>3. Len(q) \in DOMAIN q /\ 1 \in DOMAIN q /\ Len(q) # 0
  <2>1. Len(q) # 0
    BY <1>1
  <2> QED
    BY <1>2, <2>1
<1>4. \A i \in DOMAIN q : Cardinality(UpTo(A, q[i])) = i
  BY <1>1, PrefixCount, Zenon DEF FrontierGood
<1>5. Len(q) \in 1..Limit
  <2>1. Cardinality(UpTo(A, q[Len(q)])) <= Limit
    BY <1>3, Zenon DEF FrontierGood
  <2>2. Len(q) <= Limit
    BY <1>3, <1>4, <2>1, Zenon
  <2> QED
    BY <1>2, <1>3, <2>2, LineageAssumption
<1>6. \A i \in DOMAIN q : q[i] <= e
  <2> TAKE i \in DOMAIN q
  <2>1. i < Len(q) \/ i = Len(q)
    BY <1>2
  <2>2. q[i] < e \/ q[i] = e
    BY <1>1, <1>3, <2>1, Zenon DEF Increasing
  <2>3. q[i] \in Nat /\ e \in Nat
    BY <1>2, <1>3, Zenon
  <2> QED
    BY <2>2, <2>3
<1>7. Elements(q) = UpTo(A, e)
  <2>1. Elements(q) \subseteq UpTo(A, e)
    BY <1>2, <1>6, Zenon DEF Elements, UpTo
  <2>2. \A d \in A : d <= e => d \in Elements(q)
    BY <1>3, Zenon DEF FrontierGood
  <2> QED
    BY <2>1, <2>2, Zenon DEF UpTo
<1>8. \A d \in Elements(q) : events[d].world = events[e].world /\ d \in projected
  <2>1. \A i \in DOMAIN q : Fits(A, q[i])
    BY Zenon DEF FrontierGood
  <2> QED
    BY <1>3, <2>1, Zenon DEF Elements, Fits
<1>9. q[1] = Min(A)
  <2>1. A # {}
    BY <1>2, <1>3, Zenon
  <2>2. Min(A) \in A /\ \A n \in A : Min(A) <= n
    BY <2>1, MinIs, Zenon
  <2>3. Min(A) <= q[1]
    BY <1>2, <1>3, <2>2, Zenon
  <2>4. Min(A) \in Elements(q)
    BY <1>3, <2>2, <2>3, Zenon DEF FrontierGood
  <2>5. PICK j \in DOMAIN q : q[j] = Min(A)
    BY <2>4, Zenon DEF Elements
  <2>6. 1 < j \/ j = 1
    BY <1>2
  <2>7. q[1] < q[j] \/ j = 1
    BY <1>1, <1>3, <2>6, Zenon DEF Increasing
  <2>8. q[1] \in Nat /\ Min(A) \in Nat
    BY <1>2, <1>3, <2>2, Zenon
  <2>9. ~(q[1] < Min(A))
    BY <2>3, <2>8
  <2> QED
    BY <2>5, <2>7, <2>9, Zenon
<1> QED
  BY <1>3, <1>4, <1>5, <1>7, <1>8, <1>9, Zenon DEF TailGood

\* The admitted events are numbers, with or without the current one.
LEMMA AdmittedIs ==
  ASSUME ProcessInv, CarriedInv, NEW e \in DOMAIN events, NEW A, A = admissions \cup {e}
  PROVE  A \subseteq Nat /\ IsFiniteSet(A)
<1>1. Len(events) \in Nat /\ DOMAIN events = 1..Len(events)
  BY SeqFacts, Zenon DEF ProcessInv
<1>2. A \subseteq DOMAIN events
  BY Zenon DEF CarriedInv
<1>3. A \subseteq Nat
  BY <1>1, <1>2
<1>4. IsFiniteSet(DOMAIN events)
  <2>1. 1 \in Int /\ Len(events) \in Int
    BY <1>1
  <2> QED
    BY <1>1, <2>1, FS_Interval, Zenon
<1> QED
  BY <1>2, <1>3, <1>4, FS_Subset, Zenon

\* The profile of a consented world.
LEMMA ConsentedIs ==
  ASSUME ConsentInv, NEW w, Consented(w)
  PROVE  /\ heads[w] \in Souls
         /\ \E p \in bindings : /\ p.world = w /\ heads[w] = SoulOf(derivations[p.derivation])
                                /\ p.b <= nbatch
<1>1. PICK p \in bindings : p.world = w /\ heads[w] = SoulOf(derivations[p.derivation])
  BY Zenon DEF Consented
<1>2. p.derivation \in DOMAIN derivations /\ p.b <= nbatch
  BY Zenon DEF ConsentInv, BindingGood
<1>3. heads[w] \in Souls
  BY <1>1, <1>2, DerivedSoul, Zenon
<1> QED
  BY <1>1, <1>2, <1>3, Zenon

\* A new request takes the free coordinator.
LEMMA RequestBranches ==
  ASSUME BranchInv, NEW x \in Attempt, NEW n, n = Len(attempts) + 1, coordinator = 0,
         attempts' = Append(attempts, x), coordinator' = n, x.b > booted,
         \E p \in bindings : /\ p.world = x.world /\ p.b <= x.b
                             /\ x.profile = SoulOf(derivations[p.derivation]),
         UNCHANGED <<crashed, abandoned, recovered, bindings, derivations, providers, booted, up>>
  PROVE  BranchInv'
<1>1. attempts' \in Seq(Attempt) /\ Appended(attempts, attempts', x)
  BY AppendFacts, Zenon DEF BranchInv
<1>2. /\ DOMAIN attempts' = DOMAIN attempts \cup {n} /\ n \notin DOMAIN attempts
      /\ attempts'[n] = x /\ Kept(attempts, attempts')
  BY <1>1, Zenon DEF Appended
<1>3. n \in Nat /\ n # 0
  <2>1. Len(attempts) \in Nat
    BY SeqFacts, Zenon DEF BranchInv
  <2> QED
    BY <2>1
<1>4. AttemptGood(n)'
  BY <1>2, Zenon DEF AttemptGood
<1>5. \A m \in DOMAIN attempts : AttemptGood(m)'
  <2> TAKE m \in DOMAIN attempts
  <2>1. attempts'[m] = attempts[m] /\ AttemptGood(m)
    BY <1>2, Zenon DEF Kept, BranchInv
  <2> QED
    BY <2>1, Zenon DEF AttemptGood
<1>6. Running' = {n}
  <2>1. DOMAIN attempts \subseteq crashed /\ n \notin crashed
    BY <1>2, Zenon DEF BranchInv, Running
  <2> QED
    BY <1>2, <2>1, Zenon DEF Running
<1>7. \A i \in DOMAIN providers' : providers'[i].branch \in DOMAIN attempts'
  BY <1>2, Zenon DEF BranchInv
<1> QED
  BY <1>1, <1>2, <1>3, <1>4, <1>5, <1>6, <1>7, Zenon DEF BranchInv

\* What one request carries.
RequestGood(n) ==
  /\ Increasing(attempts[n].items) /\ Len(attempts[n].items) \in 1..Limit
  /\ Elements(attempts[n].items) = Due(n)
  /\ \A e \in Elements(attempts[n].items) : events[e].world = attempts[n].world

\* It carries what was admitted up to its event, which is new.
LEMMA RequestCarries ==
  ASSUME ProcessInv, BranchInv, CarriedInv, NEW x \in Attempt, attempts' = Append(attempts, x),
         NEW e \in DOMAIN events, e \notin admissions, admissions' = admissions \cup {e},
         NEW A, A = admissions \cup {e}, NEW q, q = x.items, Increasing(q), q[Len(q)] = e,
         TailGood(A, q, e), x.world = events[e].world, UNCHANGED events
  PROVE  CarriedInv'
<1> PICK n : n = Len(attempts) + 1
  BY Zenon
<1>1. attempts' \in Seq(Attempt) /\ Appended(attempts, attempts', x)
  BY AppendFacts, Zenon DEF BranchInv
<1>2. /\ DOMAIN attempts' = DOMAIN attempts \cup {n} /\ n \notin DOMAIN attempts
      /\ attempts'[n] = x /\ Kept(attempts, attempts')
  BY <1>1, Zenon DEF Appended
<1>3. Len(attempts) \in Nat /\ DOMAIN attempts = 1..Len(attempts)
  BY SeqFacts, Zenon DEF BranchInv
<1>4. /\ n \in Nat /\ 1..n = DOMAIN attempts \cup {n}
      /\ \A m \in DOMAIN attempts : 1..m \subseteq DOMAIN attempts
  BY <1>3
<1>5. \A m \in DOMAIN attempts : Own(m)' = Own(m)
  BY <1>2, Zenon DEF Own, Kept
<1>6. Own(n)' = e
  BY <1>2, Zenon DEF Own
<1>7. admissions = {Own(m) : m \in DOMAIN attempts}
  BY Zenon DEF CarriedInv, CarriedForward
<1>8. admissions' = {Own(m) : m \in DOMAIN attempts}'
  BY <1>2, <1>5, <1>6, <1>7, Zenon
<1>9. Due(n)' = UpTo(A, e)
  <2>1. \A d : d \in A <=> \E m \in 1..n : d = Own(m)'
    BY <1>4, <1>5, <1>6, <1>7, Zenon
  <2>2. \A d : d \in Due(n)' <=> \E m \in 1..n : Own(m)' <= e /\ d = Own(m)'
    BY <1>6, Zenon DEF Due
  <2>3. \A d : d \in UpTo(A, e) <=> d \in A /\ d <= e
    BY Zenon DEF UpTo
  <2>4. \A d : d \in Due(n)' <=> d \in UpTo(A, e)
    <3> TAKE d
    <3>1. ASSUME d \in Due(n)' PROVE d \in UpTo(A, e)
      <4>1. PICK m \in 1..n : Own(m)' <= e /\ d = Own(m)'
        BY <2>2, <3>1, Zenon
      <4>2. d \in A
        BY <2>1, <4>1, Zenon
      <4>3. d <= e
        BY <4>1, Zenon
      <4> QED
        BY <2>3, <4>2, <4>3, Zenon
    <3>2. ASSUME d \in UpTo(A, e) PROVE d \in Due(n)'
      <4>1. d \in A /\ d <= e
        BY <2>3, <3>2, Zenon
      <4>2. PICK m \in 1..n : d = Own(m)'
        BY <2>1, <4>1, Zenon
      <4> QED
        BY <2>2, <4>1, <4>2, Zenon
    <3> QED
      BY <3>1, <3>2, Zenon
  <2> QED
    BY <2>4, Zenon
<1>10. \A m \in DOMAIN attempts : Due(m)' = Due(m)
  BY <1>4, <1>5, Zenon DEF Due
<1>11. \A m \in DOMAIN attempts : Own(m)' # e
  BY <1>5, <1>7, Zenon
<1>12. \A m, k \in DOMAIN attempts' : Own(m)' = Own(k)' => m = k
  <2>1. \A m, k \in DOMAIN attempts : Own(m) = Own(k) => m = k
    BY Zenon DEF CarriedInv, CarriedForward
  <2> TAKE m, k \in DOMAIN attempts'
  <2>2. (m \in DOMAIN attempts \/ m = n) /\ (k \in DOMAIN attempts \/ k = n)
    BY <1>2, Zenon
  <2>3. CASE m \in DOMAIN attempts /\ k \in DOMAIN attempts
    BY <1>5, <2>1, <2>3, Zenon
  <2>4. CASE m = n /\ k \in DOMAIN attempts
    BY <1>6, <1>11, <2>4, Zenon
  <2>5. CASE m \in DOMAIN attempts /\ k = n
    BY <1>6, <1>11, <2>5, Zenon
  <2> QED
    BY <2>2, <2>3, <2>4, <2>5, Zenon
<1>13. RequestGood(n)'
  BY <1>2, <1>9, Zenon DEF TailGood, RequestGood
<1>14. \A m \in DOMAIN attempts : RequestGood(m)'
  <2> TAKE m \in DOMAIN attempts
  <2>1. RequestGood(m)
    BY Zenon DEF CarriedInv, CarriedForward, RequestGood
  <2>2. attempts'[m] = attempts[m] /\ Due(m)' = Due(m)
    BY <1>2, <1>10, Zenon DEF Kept
  <2> QED
    BY <2>1, <2>2, Zenon DEF RequestGood
<1>15. CarriedForward'
  <2>1. \A m \in DOMAIN attempts' : RequestGood(m)'
    BY <1>2, <1>13, <1>14, Zenon
  <2> QED
    BY <1>8, <1>12, <2>1, Zenon DEF CarriedForward, RequestGood
<1>16. admissions' \subseteq DOMAIN events'
  BY Zenon DEF CarriedInv
<1> QED
  BY <1>15, <1>16, Zenon DEF CarriedInv

\* The process and the chain, in a step on the requests.
LEMMA RequestEnds ==
  ASSUME LineageInv, UNCHANGED consent, KeepProcess, BranchInv', CarriedInv'
  PROVE  LineageInv'
<1>1. ProcessInv /\ ConsentInv
  BY Zenon DEF LineageInv
<1>2. UNCHANGED <<events, up, feed, soul, target, turn, nbatch, call, runs, booted>>
  BY Zenon DEF KeepProcess, process
<1>3. ProcessInv'
  BY <1>1, <1>2, Zenon DEF ProcessInv, RunGood
<1>4. nbatch \in Nat /\ nbatch' \in Nat /\ nbatch <= nbatch'
  BY <1>1, <1>2 DEF ProcessInv
<1>5. ConsentInv'
  BY <1>1, <1>4, ConsentStays, Zenon
<1> QED
  BY <1>3, <1>5, Zenon DEF LineageInv

\* assembleResidentCurrentWorldDarkRequest().
LEMMA AssembleInv == ASSUME LineageInv, NEW r, Assemble(r) PROVE LineageInv'
<1>1. ProcessInv /\ ConsentInv /\ BranchInv /\ CarriedInv
  BY Zenon DEF LineageInv
<1> PICK e, w, A : e = r.scope /\ w = events[e].world /\ A = admissions \cup {e}
  BY Zenon
<1>2. /\ ResolveActive(r) /\ AssembleChecks(r) /\ admissions' = A /\ coordinator = 0
      /\ coordinator' = Len(attempts) + 1
      /\ UNCHANGED <<crashed, abandoned, recovered, consent, providers>> /\ KeepProcess
  BY Zenon DEF Assemble, InsertAdmission, HoldCoordinator, CoordinatorFree
<1>3. PICK q : /\ q = Frontier(admissions') /\ TailIsCurrent(r, q)
               /\ attempts' = Append(attempts, AttemptRow(r, q))
  BY Zenon DEF Assemble, InsertAttempt
<1>4. /\ e # Internal /\ Consented(w) /\ e \notin admissions
  BY <1>2, Zenon DEF AssembleChecks
<1>5. /\ r.b = nbatch /\ r.b \in Nat /\ r.c \in Nat /\ booted < r.b /\ e \in DOMAIN events
  BY <1>1, <1>2, <1>4, ActiveRun, Zenon
<1>6. A \subseteq Nat /\ IsFiniteSet(A)
  BY <1>1, <1>5, AdmittedIs, Zenon
<1>7. FrontierGood(A, q)
  BY <1>2, <1>3, <1>6, FrontierIs, Zenon
<1>8. q # << >> /\ q[Len(q)] = e
  BY <1>3, Zenon DEF TailIsCurrent
<1>9. TailGood(A, q, e)
  BY <1>6, <1>7, <1>8, TailIs, Zenon
<1>10. w \in Worlds
  BY <1>1, <1>5, EventWorld, Zenon
<1>11. /\ heads[w] \in Souls
       /\ \E p \in bindings : /\ p.world = w /\ heads[w] = SoulOf(derivations[p.derivation])
                              /\ p.b <= nbatch
  BY <1>1, <1>4, ConsentedIs, Zenon
<1>12. q \in Seq(Nat) /\ Increasing(q)
  BY <1>6, <1>7, SeqFacts, Zenon DEF FrontierGood
<1> PICK x : x = AttemptRow(r, q)
  BY Zenon
<1>13. x \in Attempt /\ x.items = q /\ x.world = w /\ x.profile = heads[w] /\ x.b = r.b
  <2>1. x = [items |-> q, world |-> w, profile |-> heads[w], b |-> r.b, c |-> r.c]
    BY Zenon DEF AttemptRow
  <2> QED
    BY SMTT(30), <1>5, <1>10, <1>11, <1>12, <2>1 DEF Attempt
<1>14. UNCHANGED <<events, booted, up, nbatch, bindings, derivations, heads>>
  BY <1>2, Zenon DEF KeepProcess, process, consent
<1>15. x.b > booted
  <2>1. booted \in Nat
    BY <1>1, Zenon DEF ProcessInv
  <2> QED
    BY <1>5, <1>13, <2>1
<1>16. attempts' = Append(attempts, x)
  BY <1>3, Zenon
<1>17. \E p \in bindings : /\ p.world = x.world /\ p.b <= x.b
                           /\ x.profile = SoulOf(derivations[p.derivation])
  BY <1>5, <1>11, <1>13, Zenon
<1>18. BranchInv'
  BY <1>1, <1>2, <1>13, <1>14, <1>15, <1>16, <1>17, RequestBranches, Zenon
<1>19. CarriedInv'
  BY <1>1, <1>2, <1>4, <1>5, <1>8, <1>9, <1>12, <1>13, <1>14, <1>16, RequestCarries, Zenon
<1> QED
  BY <1>2, <1>18, <1>19, RequestEnds, Zenon

\* bindResidentDarkRequestToIsolatedProvider(): the provider is bound to a branch that runs.
LEMMA ProviderInv == ASSUME LineageInv, NEW r, BindProvider(r) PROVE LineageInv'
<1>1. ProcessInv /\ ConsentInv /\ BranchInv /\ CarriedInv
  BY Zenon DEF LineageInv
<1>2. /\ ResolveActive(r) /\ coordinator # 0 /\ providers' = Append(providers, ProviderRow(r))
      /\ UNCHANGED <<consent, branches>> /\ KeepProcess
  BY Zenon DEF BindProvider, ProviderChecks, InsertProvider
<1>3. UNCHANGED <<events, booted, up, bindings, derivations, attempts, admissions, crashed, abandoned,
                  recovered, coordinator>>
  BY <1>2, Zenon DEF KeepProcess, process, consent, branches
<1>4. r.b \in Nat /\ r.c \in Nat /\ target \in Targets /\ coordinator \in Nat
  BY <1>1, <1>2, ActiveRun, Zenon DEF ProcessInv, BranchInv
<1> PICK x : x = ProviderRow(r)
  BY Zenon
<1>5. x \in Provider /\ x.branch = coordinator
  BY <1>4 DEF ProviderRow, Provider
<1>6. providers' \in Seq(Provider) /\ Appended(providers, providers', x)
  BY <1>1, <1>2, <1>5, AppendFacts, Zenon DEF BranchInv
<1>7. coordinator \in DOMAIN attempts
  BY <1>1, <1>2, Zenon DEF BranchInv, Running
<1>8. \A i \in DOMAIN providers' : providers'[i].branch \in DOMAIN attempts
  BY <1>1, <1>5, <1>6, <1>7, Zenon DEF BranchInv, Appended, Kept
<1>9. \A n \in DOMAIN attempts : AttemptGood(n)'
  BY <1>1, <1>3, Zenon DEF BranchInv, AttemptGood
<1>10. Running' = Running
  BY <1>3, Zenon DEF Running
<1>11. BranchInv'
  BY <1>1, <1>3, <1>6, <1>8, <1>9, <1>10, Zenon DEF BranchInv
<1>12. Kept(events, events')
  BY <1>3, Zenon DEF Kept
<1>13. CarriedInv'
  BY <1>1, <1>3, <1>12, CarriedStays, Zenon
<1> QED
  BY <1>2, <1>11, <1>13, RequestEnds, Zenon

-----------------------------------------------------------------------------
(* All steps.                                                              *)

\* The database before the first tool call satisfies the invariant.
LEMMA InitInv == ASSUME Init PROVE LineageInv
<1>1. /\ events = << >> /\ candidates = {} /\ authorizations = {} /\ derivations = << >>
      /\ bindings = {} /\ heads = [w \in Worlds |-> NoSoul] /\ admissions = {} /\ attempts = << >>
      /\ crashed = {} /\ abandoned = {} /\ recovered = {} /\ coordinator = 0 /\ providers = << >>
  BY Zenon DEF Init, NoRows
<1>2. /\ up = TRUE /\ feed \in Feeds /\ soul \in Souls /\ target \in Targets /\ turn = Idle
      /\ nbatch = 0 /\ call = 0 /\ runs = {} /\ booted = 0
  BY Zenon DEF Init, JustBooted
<1>3. DOMAIN << >> = {} /\ 0 \in Nat /\ 0 <= 0 /\ \A S : << >> \in Seq(S)
  OBVIOUS
<1>4. ProcessInv
  BY <1>1, <1>2, <1>3, Zenon DEF ProcessInv
<1>5. ConsentInv
  BY <1>1, <1>3, Zenon DEF ConsentInv
<1>6. Running = {coordinator} \ {0}
  BY <1>1, <1>3, Zenon DEF Running
<1>7. BranchInv
  BY <1>1, <1>3, <1>6, Zenon DEF BranchInv
<1>8. CarriedInv
  BY <1>1, <1>3, Zenon DEF CarriedInv, CarriedForward
<1> QED
  BY <1>4, <1>5, <1>7, <1>8, Zenon DEF LineageInv

\* Every step preserves it.
LEMMA StepInv == ASSUME LineageInv, [Next]_vars PROVE LineageInv'
<1>1. CASE Arrive
  BY <1>1, ArriveInv, Zenon
<1>2. CASE \E e \in DOMAIN events : ArriveAgain(e)
  BY <1>2, ArriveAgainInv, Zenon
<1>3. CASE \E wake \in {Internal} \cup DOMAIN events : OpenBatch(wake)
  BY <1>3, OpenBatchInv, Zenon
<1>4. CASE EndTurn
  BY <1>4, EndTurnInv, Zenon
<1>5. CASE StartRun
  BY <1>5, StartRunInv, Zenon
<1>6. ASSUME NEW r \in runs,
             \/ Detach(r)
             \/ Settle(r)
             \/ Inspect(r)
             \/ \E k \in candidates : Authorize(r, k)
             \/ \E a \in authorizations : Derive(r, a)
             \/ \E n \in DOMAIN derivations : Bind(r, n)
             \/ Assemble(r)
             \/ BindProvider(r)
      PROVE  LineageInv'
  BY <1>6, DetachInv, SettleInv, InspectInv, AuthorizeInv, DeriveInv, BindInv, AssembleInv,
     ProviderInv, Zenon
<1>7. CASE \E s \in Souls : EditSoul(s)
  BY <1>7, EditInv, Zenon
<1>8. CASE Crash
  BY <1>8, CrashInv, Zenon
<1>9. CASE \E t \in Targets : Boot(t)
  BY <1>9, BootInv, Zenon
<1>10. CASE UNCHANGED vars
  <2>1. UNCHANGED <<rows, up, feed, soul, target, turn, nbatch, call, runs, booted>>
    BY <1>10, Zenon DEF vars, process
  <2>2. UNCHANGED events
    BY <2>1, Zenon DEF rows
  <2>3. ProcessInv'
    BY <2>1, <2>2, Zenon DEF LineageInv, ProcessInv, RunGood
  <2> QED
    BY <2>1, <2>3, QuietEnds, Zenon
<1> QED
  BY <1>1, <1>2, <1>3, <1>4, <1>5, <1>6, <1>7, <1>8, <1>9, <1>10, Zenon DEF Next

-----------------------------------------------------------------------------
(* The properties.                                                         *)

\* The batches of the chain.
LEMMA ChainOfConsent == ASSUME LineageInv PROVE ConsentChain
<1>1. ConsentInv /\ BranchInv
  BY Zenon DEF LineageInv
<1>2. \A a \in authorizations : AuthorizationGood(a)
  BY <1>1, Zenon DEF ConsentInv
<1>3. \A d \in Elements(derivations) : DerivationGood(d)
  BY <1>1, Zenon DEF ConsentInv, Elements
<1>4. \A p \in bindings : BindingGood(p)
  BY <1>1, Zenon DEF ConsentInv
<1>5. \A n \in DOMAIN attempts : AttemptGood(n)
  BY <1>1, Zenon DEF BranchInv
<1> QED
  BY <1>2, <1>3, <1>4, <1>5, Zenon
  DEF ConsentChain, AuthorizationGood, DerivationGood, BindingGood, AttemptGood

\* The branches, and the newest provider binding.
LEMMA BranchesReserved == ASSUME LineageInv PROVE Reservations
<1>1. BranchInv
  BY Zenon DEF LineageInv
<1>2. ASSUME coordinator = 0, providers # << >>,
             providers[Len(providers)].target = target
      PROVE  Verifies
  <2>1. providers \in Seq(Provider)
    BY <1>1, Zenon DEF BranchInv
  <2>2. Len(providers) \in DOMAIN providers
    <3>1. Len(providers) \in Nat /\ DOMAIN providers = 1..Len(providers)
      BY <2>1, SeqFacts, Zenon
    <3>2. Len(providers) # 0
      BY <1>2, <2>1
    <3> QED
      BY <3>1, <3>2
  <2>3. providers[Len(providers)].branch \in DOMAIN attempts
    BY <1>1, <2>2, Zenon DEF BranchInv
  <2>4. DOMAIN attempts \subseteq crashed
    BY <1>1, <1>2, Zenon DEF BranchInv, Running
  <2> QED
    BY <1>1, <1>2, <2>3, <2>4, Zenon DEF BranchInv, Verifies
<1> QED
  BY <1>1, <1>2, Zenon DEF BranchInv, Reservations

\* No event after e could have joined the batch q.
Complete(A, q, e) ==
  ~ (/\ Len(q) < Limit
     /\ {d \in A : d > e} # {}
     /\ Min({d \in A : d > e}) \in projected
     /\ events[Min({d \in A : d > e})].world = events[e].world)

\* Nothing that fits is left out after the last item of a batch.
LEMMA NothingLeftOut ==
  ASSUME NEW A, A \subseteq Nat, IsFiniteSet(A), NEW q, FrontierGood(A, q), NEW e, TailGood(A, q, e),
         e \in A
  PROVE  Complete(A, q, e)
<1> PICK F : F = {d \in A : d > e}
  BY Zenon
<1> SUFFICES ASSUME Len(q) < Limit, F # {}, Min(F) \in projected
             PROVE  events[Min(F)].world # events[e].world
  BY Zenon DEF Complete
<1> PICK f : f = Min(F)
  BY Zenon
<1>1. F \subseteq Nat /\ F \subseteq A
  BY Zenon
<1>2. f \in F /\ \A d \in F : f <= d
  BY <1>1, MinIs, Zenon
<1>3. f \in A /\ f > e /\ e \in Nat /\ f \in Nat
  BY <1>1, <1>2, Zenon
<1>4. \A d \in A : d <= f => d <= e \/ d = f
  <2> TAKE d \in A
  <2>1. d \in Nat
    BY Zenon
  <2>2. d > e \/ d <= e
    BY <1>3, <2>1
  <2>3. d > e => f <= d
    BY <1>2, Zenon
  <2> QED
    BY <1>3, <2>1, <2>2, <2>3
<1>5. e <= f /\ f <= f
  BY <1>3
<1>6. UpTo(A, f) = UpTo(A, e) \cup {f}
  <2>1. \A d \in A : d <= e => d <= f
    BY <1>3, <1>5, LeqTrans, Zenon
  <2> QED
    BY <1>3, <1>4, <1>5, <2>1, Zenon DEF UpTo
<1>7. f \notin UpTo(A, e)
  <2>1. ~(f <= e)
    BY <1>3
  <2> QED
    BY <2>1, Zenon DEF UpTo
<1>8. IsFiniteSet(UpTo(A, e))
  <2>1. UpTo(A, e) \subseteq A
    BY Zenon DEF UpTo
  <2> QED
    BY <2>1, FS_Subset, Zenon
<1>9. Cardinality(UpTo(A, f)) = Cardinality(UpTo(A, e)) + 1
  BY <1>6, <1>7, <1>8, FS_AddElement, Zenon
<1>10. Cardinality(UpTo(A, e)) = Len(q) /\ Len(q) \in Nat /\ Limit \in Nat
  <2>1. Len(q) \in DOMAIN q /\ q \in Seq(A)
    BY Zenon DEF TailGood, FrontierGood
  <2>2. Len(q) \in Nat
    BY <2>1, SeqFacts, Zenon
  <2>3. e \in Elements(q)
    <3>1. e <= e
      BY <1>3
    <3> QED
      BY <3>1, Zenon DEF TailGood, UpTo
  <2>4. PICK i \in DOMAIN q : q[i] = e
    BY <2>3, Zenon DEF Elements
  <2>5. q[Len(q)] \in UpTo(A, e)
    BY <2>1, Zenon DEF TailGood, Elements
  <2>6. q[Len(q)] <= e /\ q[Len(q)] \in Nat
    BY <2>5, Zenon DEF UpTo
  <2>7. i = Len(q)
    <3>1. i < Len(q) \/ i = Len(q)
      BY <2>1, <2>4
    <3>2. q[i] < q[Len(q)] \/ i = Len(q)
      BY <2>1, <3>1, Zenon DEF FrontierGood, Increasing
    <3>3. ~(e < q[Len(q)])
      BY <1>3, <2>6
    <3> QED
      BY <2>4, <3>2, <3>3, Zenon
  <2> QED
    BY <2>2, <2>4, <2>7, LineageAssumption, Zenon DEF TailGood
<1>11. Cardinality(UpTo(A, f)) <= Limit
  BY <1>9, <1>10
<1>12. SUFFICES ASSUME events[f].world = events[e].world PROVE FALSE
  BY Zenon
<1>13. e \in UpTo(A, e) /\ Elements(q) = UpTo(A, e)
  <2>1. e <= e
    BY <1>3
  <2> QED
    BY <2>1, Zenon DEF TailGood, UpTo
<1>14. \A d \in UpTo(A, e) : Fits(A, d)
  BY <1>13, Zenon DEF FrontierGood, Elements
<1>15. Fits(A, f)
  BY <1>12, <1>13, <1>14, Zenon DEF Fits
<1>16. f \in Elements(q)
  BY <1>3, <1>6, <1>11, <1>14, <1>15, Zenon DEF FrontierGood
<1> QED
  BY <1>7, <1>13, <1>16, Zenon

\* The attempt an assembly passes is one the lineage guard accepts.
LEMMA AttemptPasses ==
  ASSUME LineageInv, NEW r \in ActiveRuns, AssembleChecks(r), NEW A, A = admissions \cup {r.scope},
         NEW q, q = Frontier(A), TailIsCurrent(r, q), CoordinatorFree
  PROVE  /\ StartAccepted(Len(attempts) + 1)
         /\ RequestProfileAccepted(AttemptRow(r, q))
         /\ AttemptAccepted(AttemptRow(r, q), A)
<1>1. ProcessInv /\ ConsentInv /\ BranchInv /\ CarriedInv
  BY Zenon DEF LineageInv
<1> PICK e, w, x : e = r.scope /\ w = events[e].world /\ x = AttemptRow(r, q)
  BY Zenon
<1>2. e # Internal /\ Consented(w)
  BY Zenon DEF AssembleChecks
<1>3. e \in DOMAIN events
  BY <1>1, <1>2, ActiveRun, Zenon DEF ActiveRuns, ResolveActive
<1>4. A \subseteq Nat /\ IsFiniteSet(A)
  BY <1>1, <1>3, AdmittedIs, Zenon
<1>5. FrontierGood(A, q)
  BY <1>4, FrontierIs, Zenon
<1>6. q # << >> /\ q[Len(q)] = e
  BY Zenon DEF TailIsCurrent
<1>7. TailGood(A, q, e)
  BY <1>4, <1>5, <1>6, TailIs, Zenon
<1>8. x.items = q /\ x.world = w /\ x.profile = heads[w]
  BY DEF AttemptRow
<1>9. coordinator = 0 /\ Running = {}
  BY <1>1, Zenon DEF BranchInv, CoordinatorFree
<1>10. StartAccepted(Len(attempts) + 1)
  <2>1. Len(attempts) \in Nat /\ DOMAIN attempts = 1..Len(attempts)
    BY <1>1, SeqFacts, Zenon DEF BranchInv
  <2>2. Len(attempts) + 1 \notin DOMAIN attempts
    BY <2>1
  <2> QED
    BY <1>9, <2>2, Zenon DEF StartAccepted
<1>11. RequestProfileAccepted(x)
  <2>1. heads[w] \in Souls
    BY <1>1, <1>2, ConsentedIs, Zenon
  <2> QED
    BY <1>8, <2>1, LineageAssumption, Zenon DEF RequestProfileAccepted
<1>12. Elements(q) \subseteq A /\ Cardinality({d \in A : d <= e}) = Len(q)
  <2>1. Elements(q) = UpTo(A, e) /\ Cardinality(UpTo(A, q[Len(q)])) = Len(q)
    BY <1>7, Zenon DEF TailGood
  <2> QED
    BY <1>6, <2>1, Zenon DEF UpTo
<1>13. \A i \in DOMAIN q : Cardinality({d \in A : d <= q[i]}) = i
  BY <1>7, Zenon DEF TailGood, UpTo
<1>14. DOMAIN attempts \ abandoned = {}
  BY <1>1, <1>9, Zenon DEF BranchInv, Running
<1>15. e \in A
  BY Zenon
<1>16. ~ (/\ Len(q) < Limit
          /\ {d \in A : d > e} # {}
          /\ Min({d \in A : d > e}) \in projected
          /\ events[Min({d \in A : d > e})].world = w)
  <2>1. Complete(A, q, e)
    BY <1>4, <1>5, <1>7, <1>15, NothingLeftOut, Zenon
  <2> QED
    BY <2>1, Zenon DEF Complete
<1>17. /\ Len(q) \in 1..Limit /\ q[1] = Min(A)
       /\ \A d \in Elements(q) : events[d].world = w /\ d \in projected
  BY <1>7, Zenon DEF TailGood
<1>18. x.items[Len(x.items)] = e
  BY <1>6, <1>8, Zenon
<1>19. /\ Len(x.items) \in 1..Limit
       /\ Elements(x.items) \subseteq A
       /\ \A d \in Elements(x.items) : events[d].world = x.world /\ d \in projected
       /\ x.items[1] = Min(A)
  BY <1>8, <1>12, <1>17, Zenon
<1>20. /\ Cardinality({d \in A : d <= e}) = Len(x.items)
       /\ \A i \in DOMAIN x.items : Cardinality({d \in A : d <= x.items[i]}) = i
  BY <1>8, <1>12, <1>13, Zenon
<1>21. ~ (/\ Len(x.items) < Limit
          /\ {d \in A : d > e} # {}
          /\ Min({d \in A : d > e}) \in projected
          /\ events[Min({d \in A : d > e})].world = x.world)
  BY <1>8, <1>16, Zenon
<1>22. AttemptAccepted(x, A)
  BY <1>14, <1>18, <1>19, <1>20, <1>21, ZenonT(30) DEF AttemptAccepted
<1> QED
  BY <1>10, <1>11, <1>22, Zenon

\* The checks of the store imply the triggers.
LEMMA ChecksSuffice == ASSUME LineageInv PROVE SchemaAgrees
<1>1. ProcessInv /\ ConsentInv /\ BranchInv /\ CarriedInv
  BY Zenon DEF LineageInv
<1>2. ASSUME NEW r \in ActiveRuns, InspectChecks(r) PROVE CandidateAccepted(CandidateRow(r))
  BY <1>2, Zenon DEF InspectChecks, CandidateAccepted
<1>3. ASSUME NEW r \in ActiveRuns, NEW k \in candidates, AuthorizeChecks(r, k)
      PROVE  AuthorizationAccepted(AuthorizationRow(r, k))
  <2>1. PICK a : a = AuthorizationRow(r, k)
    BY Zenon
  <2>2. a.candidate = k /\ a.b = r.b /\ a.c = r.c
    BY <2>1 DEF AuthorizationRow
  <2> QED
    BY <1>3, <2>1, <2>2, Zenon
    DEF AuthorizeChecks, AuthorizationAccepted, AuthorizationFresh, AuthorizationLineage, SameCall
<1>4. ASSUME NEW r \in ActiveRuns, NEW a \in authorizations, DeriveChecks(r, a),
             ReceiptedPair(a.candidate.soul)
      PROVE  DerivationAccepted(DerivationRow(r, a), Len(derivations) + 1, Len(derivations),
                                a.candidate.soul \in layers)
  <2> PICK d, n, old : /\ d = DerivationRow(r, a) /\ n = Len(derivations) + 1
                       /\ old = (a.candidate.soul \in layers)
    BY Zenon
  <2>1. d.authorization = a /\ d.b = r.b /\ d.c = r.c
    BY DEF DerivationRow
  <2>2. derivations \in Seq(Derivation)
    BY <1>1, Zenon DEF ConsentInv
  <2>3. Len(derivations) \in Nat /\ DOMAIN derivations = 1..Len(derivations)
    BY <2>2, SeqFacts, Zenon
  <2>4. n \notin DOMAIN derivations
    BY <2>3
  <2>5. \/ n = 1 /\ Len(derivations) = 0 /\ derivations = << >>
        \/ n > 1 /\ Len(derivations) \in DOMAIN derivations /\ Len(derivations) = n - 1
    <3>1. Len(derivations) = 0 => derivations = << >>
      BY <2>2
    <3> QED
      BY <2>3, <3>1
  <2>6. old => \E x \in Elements(derivations) :
                 x.authorization.candidate.soul = a.candidate.soul
    BY <1>4, Zenon DEF ReceiptedPair, SoulOf
  <2>7. DerivationFresh(d, n)
    BY <1>4, <2>1, <2>4, Zenon DEF DeriveChecks, DerivationFresh, SameCall
  <2>8. DerivationLineage(d, n, Len(derivations), old)
    BY <1>4, <2>1, <2>5, <2>6, Zenon DEF DeriveChecks, DerivationLineage
  <2> QED
    BY <2>7, <2>8, Zenon DEF DerivationAccepted
<1>5. ASSUME NEW r \in ActiveRuns, NEW n \in DOMAIN derivations, BindChecks(r, n)
      PROVE  BindingAccepted(BindingRow(r, n), SoulOf(derivations[n]))
  <2> PICK p : p = BindingRow(r, n)
    BY Zenon
  <2>1. /\ p.derivation = n /\ p.world = events[r.scope].world /\ p.event = r.scope
        /\ p.b = r.b /\ p.c = r.c
    BY DEF BindingRow
  <2>2. r.scope \in DOMAIN events
    BY <1>1, <1>5, ActiveRun, Zenon DEF ActiveRuns, ResolveActive, BindChecks
  <2>3. \A later \in DOMAIN derivations : later <= n
    <3>1. derivations \in Seq(Derivation) /\ n = Len(derivations)
      BY <1>1, <1>5, Zenon DEF ConsentInv, BindChecks
    <3>2. n \in Nat /\ DOMAIN derivations = 1..n
      BY <3>1, SeqFacts, Zenon
    <3> QED
      BY <3>2
  <2>4. BindingLineage(p, SoulOf(derivations[n]))
    BY <1>5, <2>1, <2>2, <2>3, Zenon DEF BindChecks, BindingLineage, SoulOf
  <2>5. BindingFresh(p) /\ HeadAccepted(p.world)
    BY <1>5, <2>1, Zenon DEF BindChecks, BindingFresh, HeadAccepted, SameCall
  <2> QED
    BY <2>4, <2>5, Zenon DEF BindingAccepted
<1>6. ASSUME NEW r \in ActiveRuns, AssembleChecks(r) PROVE AdmissionAccepted(r.scope)
  <2>1. r.scope \in DOMAIN events
    BY <1>1, <1>6, ActiveRun, Zenon DEF ActiveRuns, ResolveActive, AssembleChecks
  <2> QED
    BY <1>6, <2>1, Zenon DEF AssembleChecks, AdmissionAccepted
<1>7. ASSUME NEW r \in ActiveRuns, AssembleChecks(r),
             NEW q \in {Frontier(admissions \cup {r.scope})}, TailIsCurrent(r, q), CoordinatorFree
      PROVE  /\ StartAccepted(Len(attempts) + 1)
             /\ RequestProfileAccepted(AttemptRow(r, q))
             /\ AttemptAccepted(AttemptRow(r, q), admissions \cup {r.scope})
  <2> PICK A : A = admissions \cup {r.scope}
    BY Zenon
  <2>1. q = Frontier(A)
    BY <1>7, Zenon
  <2> QED
    BY <1>7, <2>1, AttemptPasses, Zenon
<1>8. ASSUME NEW r \in ActiveRuns, ProviderChecks(r) PROVE ProviderAccepted(ProviderRow(r))
  <2> PICK x, w : x = ProviderRow(r) /\ w = events[r.scope].world
    BY Zenon
  <2>1. x.branch = coordinator /\ x.b = r.b /\ x.c = r.c
    BY DEF ProviderRow
  <2>2. /\ coordinator \in Running /\ attempts[coordinator].world = w
        /\ attempts[coordinator].profile = heads[w] /\ Consented(w)
    BY <1>8, Zenon DEF ProviderChecks, Reread
  <2>3. coordinator \notin abandoned
    BY <1>1, <2>2, Zenon DEF BranchInv, Running
  <2>4. ProviderLineage(x)
    BY <2>1, <2>2, <2>3, Zenon DEF ProviderLineage, Consented, SoulOf
  <2>5. ProviderFresh(x)
    BY <1>8, <2>1, Zenon DEF ProviderChecks, ProviderFresh, SameCall
  <2> QED
    BY <2>4, <2>5, Zenon DEF ProviderAccepted
<1>9. ASSUME coordinator # 0
      PROVE  AbandonmentAccepted(coordinator) /\ RecoveryAccepted(coordinator, {coordinator})
  <2>1. coordinator \in Running /\ coordinator \notin abandoned /\ coordinator \notin recovered
    BY <1>1, <1>9, Zenon DEF BranchInv, Running
  <2> QED
    BY <2>1, Zenon DEF AbandonmentAccepted, RecoveryAccepted
<1> QED
  BY <1>2, <1>3, <1>4, <1>5, <1>6, <1>7, <1>8, <1>9, Zenon DEF SchemaAgrees

-----------------------------------------------------------------------------
(* The theorems.                                                           *)

\* Every reachable state of the store and of the turn loop satisfies the
\* inductive invariant: a run may act only in the current batch, every row is
\* of an earlier one, and at most one branch is held.
THEOREM LineageInvariance == Spec => []LineageInv
<1>1. Init => LineageInv
  BY InitInv
<1>2. LineageInv /\ [Next]_vars => LineageInv'
  BY StepInv
<1> QED
  BY <1>1, <1>2, PTL DEF Spec

\* A world's profile was inspected, authorized, derived and bound in four
\* batches, each later than the one before, however runs detach, the SOUL
\* file is edited and the process restarts.
THEOREM LineageConsentChain == Spec => []ConsentChain
<1>1. LineageInv => ConsentChain
  BY ChainOfConsent
<1> QED
  BY <1>1, LineageInvariance, PTL

\* Every branch runs and holds the coordinator, or crashed with one
\* abandonment and one recovery; what verifyLatestRecoveredIsolatedProviderBinding()
\* reads at boot is there.
THEOREM LineageReservations == Spec => []Reservations
<1>1. LineageInv => Reservations
  BY BranchesReserved
<1> QED
  BY <1>1, LineageInvariance, PTL

\* No request skips an admitted event, and a crashed request's events are
\* carried again by the next.
THEOREM LineageCarriedForward == Spec => []CarriedForward
<1>1. LineageInv => CarriedForward
  BY Zenon DEF LineageInv, CarriedInv
<1> QED
  BY <1>1, LineageInvariance, PTL

\* What the store's own checks pass, the schema's triggers accept: no resident
\* call fails on a raw constraint in the middle of its transaction.
THEOREM LineageSchemaAgrees == Spec => []SchemaAgrees
<1>1. LineageInv => SchemaAgrees
  BY ChecksSuffice
<1> QED
  BY <1>1, LineageInvariance, PTL

=============================================================================

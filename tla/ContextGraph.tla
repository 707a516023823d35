---------------------------- MODULE ContextGraph ----------------------------
(***************************************************************************)
(* The context graph store of src/store/context-graph.ts: world events,    *)
(* the branches that read them, the root coordinator that lets one branch  *)
(* run at a time, the continuation head the branches advance, and what a   *)
(* branch leaves behind: its manifest, capsules, share grants and effects. *)
(* Each public operation is one SQLite transaction, so one action; its     *)
(* guard is the conjunction of the checks of the method and of the table   *)
(* constraints and triggers of src/store/db.ts that the rows it writes     *)
(* meet (a refused operation rolls back and changes nothing).  Identities  *)
(* and hashes are content addresses, so a row is its own identity; an      *)
(* event is its sequence number.  Time stamps are left out: the checks on  *)
(* them only refuse.                                                       *)
(***************************************************************************)
EXTENDS Integers, Sequences, FiniteSetsExt

CONSTANTS
    Worlds,       \* scoped worlds
    Legacy,       \* LEGACY_WORLD_ID
    BranchIds,    \* branch identities callers choose
    GrantIds,     \* share grants (a grant names one shared event)
    EffectIds,    \* effects
    Sources,      \* legacy transcripts that may be imported
    Policies,     \* policy generations
    None,
    MaxEvents,    \* bound on world events
    MaxCapsules,  \* bound on capsules
    MaxLoose      \* capsules written on their own come while there are fewer

ASSUME GraphAssumption ==
    /\ None \notin BranchIds
    /\ Legacy \notin Worlds
    /\ Policies \subseteq Nat \ {0}
    /\ MaxEvents \in Nat /\ MaxCapsules \in Nat /\ MaxLoose \in 0..MaxCapsules

VARIABLES
    events,       \* context_world_events, in sequence order
    branches,     \* context_branches
    starts,       \* context_branch_starts
    coordinator,  \* context_root_coordinator
    head,         \* context_continuation_head
    advances,     \* context_continuation_advances, by revision
    manifests,    \* context_manifests with their event and share edges
    capsules,     \* context_capsules with their edges, in sequence order
    grants,       \* context_share_grants
    effects,      \* context_effects
    recoveries,   \* context_branch_recoveries
    imports,      \* context_legacy_import_receipts
    attempts,     \* context_dark_pending_branch_attempts
    abandoned,    \* context_dark_pending_branch_abandonments
    mode          \* context_graph_activation

graphVars == <<events, branches, starts, coordinator, head, advances, manifests,
               capsules, grants, effects, recoveries, imports, attempts,
               abandoned, mode>>

-----------------------------------------------------------------------------
AllWorlds == Worlds \cup {Legacy}

WorldEvent == [world : AllWorlds, kind : {"inbound", "other"}]

BranchRecord == [world : AllWorlds, parent : BranchIds \cup {None},
                 epoch : Nat, status : {"running", "yielded", "crashed"}]

StartRecord == [base : Nat, pred : BranchIds \cup {None}]

CoordinatorState == [active : BranchIds \cup {None}, base : Nat,
                     pred : BranchIds \cup {None}]

ManifestRecord == [events : Seq(1..MaxEvents), shares : Seq(GrantIds),
                   renderer : Nat, policy : Nat \ {0}]

CapsuleRecord == [branch : BranchIds,
                  kind : {"private", "root_receipt", "self_delta", "legacy_opaque"},
                  parents : SUBSET (1..MaxCapsules),
                  receipts : SUBSET (EffectIds \X {"observed", "failed", "uncertain"})]

GrantRecord == [capsule : 1..MaxCapsules, dest : AllWorlds,
                status : {"active", "revoked"}]

EffectRecord == [branch : BranchIds,
                 status : {"prepared", "observed", "failed", "uncertain"}]

\* INSERT: a row under a key the table does not have yet.
Insert(table, key, row) ==
    [k \in DOMAIN table \cup {key} |-> IF k \in DOMAIN table THEN table[k] ELSE row]

\* The rows the migrations insert: an empty graph, dark, at revision 0.
GraphInit ==
    /\ events = << >>
    /\ branches = << >>
    /\ starts = << >>
    /\ coordinator = [active |-> None, base |-> 0, pred |-> None]
    /\ head = [branch |-> None, revision |-> 0]
    /\ advances = << >>
    /\ manifests = << >>
    /\ capsules = << >>
    /\ grants = << >>
    /\ effects = << >>
    /\ recoveries = << >>
    /\ imports = << >>
    /\ attempts = << >>
    /\ abandoned = {}
    /\ mode = "dark"

-----------------------------------------------------------------------------
(* What the methods read.                                                  *)

Running == {b \in DOMAIN branches : branches[b].status = "running"}

EffectsOf(b) == {x \in DOMAIN effects : effects[x].branch = b}

Prepared(b) == {x \in EffectsOf(b) : effects[x].status = "prepared"}

CapsulesOf(b) == {c \in DOMAIN capsules : capsules[c].branch = b}

CapsuleWorld(c) == branches[capsules[c].branch].world

\* getRootCoordinatorState against getContinuationHead.
CoordinatorAtHead ==
    /\ coordinator.base = head.revision
    /\ coordinator.pred = head.branch

\* The branch was started at the head the coordinator still holds.
StartedAtHead(b) ==
    /\ b \in DOMAIN starts
    /\ starts[b] = [base |-> head.revision, pred |-> head.branch]
    /\ CoordinatorAtHead

\* The parent of a new branch: the last branch of its world on the line.
LocalParent(w) ==
    LET own == {r \in DOMAIN advances : branches[advances[r].branch].world = w}
    IN  IF own = {} THEN None ELSE advances[Max(own)].branch

\* The foreign key and the uniqueness of a branch row; at most one branch of
\* the whole graph is running (context_branches_single_running_idx).
CanInsertBranch(b) == b \notin DOMAIN branches /\ Running = {}

\* context_capsules: a running branch, which no pending attempt seals; every
\* kind but the legacy one names the branch's manifest and its policy.
CanInsertCapsule(b, kind) ==
    /\ b \in Running
    /\ b \notin DOMAIN attempts
    /\ kind # "legacy_opaque" => b \in DOMAIN manifests

\* context_capsule_edges: parents are earlier capsules of the same world.
CanBeParents(ps, w) ==
    \A c \in ps : c \in DOMAIN capsules /\ CapsuleWorld(c) = w

Capsule(b, kind, ps, rs) ==
    [branch |-> b, kind |-> kind, parents |-> ps, receipts |-> rs]

\* The triggers on ending a branch: no prepared effect, and a coordinated
\* branch yields only with both of its return capsules.
MayEnd(b, status, caps) ==
    /\ Prepared(b) = {}
    /\ (status = "yielded" /\ b \in DOMAIN starts) =>
          \A kind \in {"private", "root_receipt"} :
              \E c \in DOMAIN caps : caps[c].branch = b /\ caps[c].kind = kind

-----------------------------------------------------------------------------
AppendWorldEvent(w, kind) ==
    /\ Len(events) < MaxEvents
    /\ events' = Append(events, [world |-> w, kind |-> kind])

\* The rows beginCoordinatedBranchInTransaction writes: the branch, its start
\* receipt at the current head, and the coordinator's claim.
OpenBranch(b, w, epoch) ==
    /\ CanInsertBranch(b)
    /\ coordinator.active = None
    /\ CoordinatorAtHead
    /\ branches' = Insert(branches, b, [world |-> w, parent |-> LocalParent(w),
                                        epoch |-> epoch, status |-> "running"])
    /\ starts' = Insert(starts, b, [base |-> head.revision, pred |-> head.branch])
    /\ coordinator' = [coordinator EXCEPT !.active = b]

\* A caller with a stale head revision is refused.
BeginCoordinatedBranch(b, w, epoch, revision) ==
    /\ epoch >= 1
    /\ revision = head.revision
    /\ OpenBranch(b, w, epoch)
    /\ UNCHANGED <<events, head, advances, manifests, capsules, grants, effects,
                   recoveries, imports, attempts, abandoned, mode>>

\* Every local event is of the branch's world and every share an active grant
\* to that world; no event and no grant is named twice.
MutAnyGrantServes(w, es, gs) ==
    /\ IsInjective(es) /\ IsInjective(gs)
    /\ \A i \in DOMAIN es : es[i] \in DOMAIN events /\ events[es[i]].world = w
    /\ \A i \in DOMAIN gs : gs[i] \in DOMAIN grants /\ grants[gs[i]].status = "active"

ManifestFits(w, es, gs) ==
    /\ IsInjective(es) /\ IsInjective(gs)
    /\ \A i \in DOMAIN es : es[i] \in DOMAIN events /\ events[es[i]].world = w
    /\ \A i \in DOMAIN gs : /\ gs[i] \in DOMAIN grants
                            /\ grants[gs[i]].dest = w
                            /\ grants[gs[i]].status = "active"

InsertManifest(b, es, gs, renderer, policy) ==
    manifests' = Insert(manifests, b, [events |-> es, shares |-> gs,
                                       renderer |-> renderer, policy |-> policy])

CreateManifest(b, es, gs, renderer, policy) ==
    /\ b \in Running /\ b \notin DOMAIN manifests
    /\ branches[b].epoch >= 1
    /\ ManifestFits(branches[b].world, es, gs)
    /\ InsertManifest(b, es, gs, renderer, policy)
    /\ UNCHANGED <<events, branches, starts, coordinator, head, advances, capsules,
                   grants, effects, recoveries, imports, attempts, abandoned, mode>>

CreateCapsule(b, kind, ps) ==
    /\ Len(capsules) < MaxLoose
    /\ CanInsertCapsule(b, kind)
    /\ CanBeParents(ps, branches[b].world)
    /\ capsules' = Append(capsules, Capsule(b, kind, ps, {}))
    /\ UNCHANGED <<events, branches, starts, coordinator, head, advances, manifests,
                   grants, effects, recoveries, imports, attempts, abandoned, mode>>

CreateShareGrant(g, c, dest) ==
    /\ g \notin DOMAIN grants
    /\ c \in DOMAIN capsules
    /\ dest # CapsuleWorld(c)
    /\ grants' = Insert(grants, g, [capsule |-> c, dest |-> dest, status |-> "active"])
    /\ UNCHANGED <<events, branches, starts, coordinator, head, advances, manifests,
                   capsules, effects, recoveries, imports, attempts, abandoned, mode>>

RevokeShareGrant(g) ==
    /\ g \in DOMAIN grants /\ grants[g].status = "active"
    /\ grants' = [grants EXCEPT ![g].status = "revoked"]
    /\ UNCHANGED <<events, branches, starts, coordinator, head, advances, manifests,
                   capsules, effects, recoveries, imports, attempts, abandoned, mode>>

\* An effect goes to the world of its branch, under the branch's authority,
\* while the branch runs; a pending dark branch issues none.
MutEffectAfterReturn(x, b) ==
    /\ x \notin DOMAIN effects
    /\ b \in DOMAIN branches
    /\ b \notin DOMAIN attempts
    /\ effects' = Insert(effects, x, [branch |-> b, status |-> "prepared"])
    /\ UNCHANGED <<events, branches, starts, coordinator, head, advances, manifests,
                   capsules, grants, recoveries, imports, attempts, abandoned, mode>>

PrepareEffect(x, b) ==
    /\ x \notin DOMAIN effects
    /\ b \in Running
    /\ b \notin DOMAIN attempts
    /\ effects' = Insert(effects, x, [branch |-> b, status |-> "prepared"])
    /\ UNCHANGED <<events, branches, starts, coordinator, head, advances, manifests,
                   capsules, grants, recoveries, imports, attempts, abandoned, mode>>

ResolveEffect(x, status) ==
    /\ x \in DOMAIN effects /\ effects[x].status = "prepared"
    /\ effects' = [effects EXCEPT ![x].status = status]
    /\ UNCHANGED <<events, branches, starts, coordinator, head, advances, manifests,
                   capsules, grants, recoveries, imports, attempts, abandoned, mode>>

\* Issuance without an observation becomes uncertain; it is never retried.
RecoverPreparedEffects ==
    /\ \E x \in DOMAIN effects : effects[x].status = "prepared"
    /\ effects' = [x \in DOMAIN effects |->
                     IF effects[x].status = "prepared"
                     THEN [effects[x] EXCEPT !.status = "uncertain"] ELSE effects[x]]
    /\ UNCHANGED <<events, branches, starts, coordinator, head, advances, manifests,
                   capsules, grants, recoveries, imports, attempts, abandoned, mode>>

-----------------------------------------------------------------------------
(* The head moves to a yielded branch, which can be named once only, and   *)
(* the coordinator follows, unless another branch holds it.                *)
MutHeadMovesUnderBranch(b) ==
    /\ b \notin {advances[r].branch : r \in DOMAIN advances}
    /\ CoordinatorAtHead

HeadMayMove(b) ==
    /\ b \notin {advances[r].branch : r \in DOMAIN advances}
    /\ CoordinatorAtHead
    /\ coordinator.active \in {None, b}

MutCoordinatorStays(b) ==
    /\ advances' = Append(advances, [pred |-> head.branch, branch |-> b])
    /\ head' = [branch |-> b, revision |-> head.revision + 1]
    /\ coordinator' = [coordinator EXCEPT !.active = None]

MoveHead(b) ==
    /\ advances' = Append(advances, [pred |-> head.branch, branch |-> b])
    /\ head' = [branch |-> b, revision |-> head.revision + 1]
    /\ coordinator' = [active |-> None, base |-> head.revision + 1, pred |-> b]

AdvanceContinuationHead(b, revision) ==
    /\ revision = head.revision
    /\ b \in DOMAIN branches /\ branches[b].status = "yielded"
    /\ HeadMayMove(b)
    /\ MoveHead(b)
    /\ UNCHANGED <<events, branches, starts, manifests, capsules, grants, effects,
                   recoveries, imports, attempts, abandoned, mode>>

\* What the root return receipt says of the branch's effects.
EffectReceipts(b) == {<<x, effects[x].status>> : x \in EffectsOf(b)}

\* The return of the active branch: both capsules, the end of the branch and
\* the advance of the head in one transaction.
CompleteCoordinatedBranch(b, ps) ==
    /\ Len(capsules) + 2 <= MaxCapsules
    /\ coordinator.active = b
    /\ b \in Running
    /\ StartedAtHead(b)
    /\ b \in DOMAIN manifests
    /\ Prepared(b) = {}
    /\ CanInsertCapsule(b, "private")
    /\ CanBeParents(ps, branches[b].world)
    /\ HeadMayMove(b)
    /\ capsules' = capsules \o <<Capsule(b, "private", ps, {}),
                                 Capsule(b, "root_receipt", {}, EffectReceipts(b))>>
    /\ MayEnd(b, "yielded", capsules')
    /\ branches' = [branches EXCEPT ![b].status = "yielded"]
    /\ MoveHead(b)
    /\ UNCHANGED <<events, starts, manifests, grants, effects, recoveries, imports,
                   attempts, abandoned, mode>>

\* What recoverCoordinatedBranch checks before it touches the active branch.
CanRecover ==
    LET b == coordinator.active
    IN  /\ CoordinatorAtHead
        /\ StartedAtHead(b)
        /\ b \in Running

\* At boot the branch a crash left behind is closed: its prepared effects
\* become uncertain, a pending dark attempt is abandoned, and the coordinator
\* is free again.  The head does not move.
RecoverCoordinatedBranch ==
    LET b == coordinator.active IN
    /\ b # None
    /\ CanRecover
    /\ effects' = [x \in DOMAIN effects |->
                     IF x \in Prepared(b)
                     THEN [effects[x] EXCEPT !.status = "uncertain"] ELSE effects[x]]
    /\ abandoned' = abandoned \cup ({b} \cap DOMAIN attempts)
    /\ branches' = [branches EXCEPT ![b].status = "crashed"]
    /\ recoveries' = Insert(recoveries, b,
           [base |-> starts[b].base, pred |-> starts[b].pred,
            uncertain |-> Cardinality(Prepared(b))])
    /\ coordinator' = [coordinator EXCEPT !.active = None]
    /\ UNCHANGED <<events, starts, head, advances, manifests, capsules, grants,
                   imports, attempts, mode>>

-----------------------------------------------------------------------------
(* A legacy transcript becomes one opaque capsule of a branch of the       *)
(* legacy world that opens and yields in the same transaction, so it needs *)
(* the graph to be idle.  A source already imported is returned as it is.  *)
ImportLegacyArtifact(s, b) ==
    /\ s \notin DOMAIN imports
    /\ CanInsertBranch(b)
    /\ Len(capsules) < MaxCapsules
    /\ branches' = Insert(branches, b, [world |-> Legacy, parent |-> None,
                                        epoch |-> 0, status |-> "yielded"])
    /\ capsules' = Append(capsules, Capsule(b, "legacy_opaque", {}, {}))
    /\ imports' = Insert(imports, s, Len(capsules'))
    /\ UNCHANGED <<events, starts, coordinator, head, advances, manifests, grants,
                   effects, recoveries, attempts, abandoned, mode>>

\* A receipt may also be recorded for a legacy capsule written on its own.
RecordLegacyImport(s, c) ==
    /\ s \notin DOMAIN imports
    /\ c \in DOMAIN capsules /\ capsules[c].kind = "legacy_opaque"
    /\ c \notin Range(imports)
    /\ imports' = Insert(imports, s, c)
    /\ UNCHANGED <<events, branches, starts, coordinator, head, advances, manifests,
                   capsules, grants, effects, recoveries, attempts, abandoned, mode>>

\* The one-way cut-over.
Activate ==
    /\ mode = "dark"
    /\ mode' = "active"
    /\ UNCHANGED <<events, branches, starts, coordinator, head, advances, manifests,
                   capsules, grants, effects, recoveries, imports, attempts, abandoned>>
=============================================================================

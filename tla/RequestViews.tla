---------------------------- MODULE RequestViews ----------------------------
(***************************************************************************)
(* What a dark branch would show a model, and how the store proves it      *)
(* later: rendered system layers and their approvals, the profile of       *)
(* approved layers each world is headed by, rendered inbound messages, the *)
(* request view of a branch, and the binding of a view to the profile that *)
(* headed its world (the second half of src/store/context-graph.ts, tables *)
(* 0032 to 0041 of src/store/db.ts).  Bodies and hashes are left out: a    *)
(* layer is its kind, visibility, world, source kind and generations, a    *)
(* message projection is its event and renderer generation.                *)
(***************************************************************************)
EXTENDS ContextGraph

CONSTANTS
    Layers,       \* the layers that may be rendered
    Renderers,    \* message renderer generations
    ApprovalGens, \* approval generations
    MaxHeads,     \* bound on the profile advances of a world
    BatchLimit    \* largest maxEvents of a pending batch

ASSUME ViewAssumption ==
    /\ Renderers \subseteq Nat \ {0} /\ ApprovalGens \subseteq Nat \ {0}
    /\ MaxHeads \in Nat /\ BatchLimit \in Nat
    /\ \A layer \in Layers : layer.renderer \in Nat /\ layer.policy \in Nat

VARIABLES
    layers,       \* context_system_layer_projections
    approvals,    \* context_system_layer_approvals
    profiles,     \* context_system_profiles
    profileHeads, \* context_system_profile_advances of each world, by revision
    projections,  \* context_event_message_projections: <<event, renderer>>
    admissions,   \* context_dark_ingress_admissions: event -> renderer
    views,        \* context_local_branch_request_views and edges, by branch
    bindings      \* context_system_profile_request_view_bindings, by branch

viewVars == <<layers, approvals, profiles, profileHeads, projections, admissions,
              views, bindings>>

vars == <<graphVars, viewVars>>

-----------------------------------------------------------------------------
Kinds == <<"runtime_contract", "identity", "integrated_self", "world_policy",
           "private_frontier", "legacy_memory", "legacy_focus", "runtime_hint">>

Visibilities == {"global_contract", "integrated_self", "integrated_self_candidate",
                 "world", "private_root", "legacy_mixed"}

KindOrder(kind) == CHOOSE i \in DOMAIN Kinds : Kinds[i] = kind

Roles == <<"scoped_runtime_contract", "identity", "integrated_self", "world_policy">>

\* SYSTEM_LAYER_APPROVAL_RULES: what a layer of each role has to be.
ApprovalRules ==
    [scoped_runtime_contract |->
        [kind |-> "runtime_contract", visibility |-> "global_contract",
         scoped |-> FALSE, source |-> "authored_scoped_contract"],
     identity |->
        [kind |-> "identity", visibility |-> "integrated_self",
         scoped |-> FALSE, source |-> "soul_snapshot"],
     integrated_self |->
        [kind |-> "integrated_self", visibility |-> "integrated_self",
         scoped |-> FALSE, source |-> "accepted_self_delta"],
     world_policy |->
        [kind |-> "world_policy", visibility |-> "world",
         scoped |-> TRUE, source |-> "routing_policy"]]

ApprovalMatches(layer, role) ==
    /\ layer.kind = ApprovalRules[role].kind
    /\ layer.visibility = ApprovalRules[role].visibility
    /\ (layer.world # None) = ApprovalRules[role].scoped
    /\ layer.source = ApprovalRules[role].source

ViewsInit ==
    /\ layers = {}
    /\ approvals = {}
    /\ profiles = {}
    /\ profileHeads = [w \in Worlds |-> << >>]
    /\ projections = {}
    /\ admissions = << >>
    /\ views = << >>
    /\ bindings = << >>

-----------------------------------------------------------------------------
(* Layers, approvals, profiles and the profile head of a world.            *)

CreateSystemLayerProjection(layer) ==
    /\ layer \notin layers
    /\ layer.kind \in Range(Kinds) /\ layer.visibility \in Visibilities
    /\ layer.renderer >= 1 /\ layer.policy >= 1
    /\ (layer.visibility = "world") = (layer.world # None)
    /\ layers' = layers \cup {layer}
    /\ UNCHANGED <<graphVars, approvals, profiles, profileHeads, projections,
                   admissions, views, bindings>>

\* One approval of a layer for each generation; the basis is the role's own.
ApproveSystemLayer(layer, role, g) ==
    /\ layer \in layers
    /\ ApprovalMatches(layer, role)
    /\ ~ \E a \in approvals : a.layer = layer /\ a.generation = g
    /\ approvals' = approvals \cup {[layer |-> layer, role |-> role, generation |-> g]}
    /\ UNCHANGED <<graphVars, layers, profiles, profileHeads, projections,
                   admissions, views, bindings>>

\* The approvals a profile names, by role; the last two roles are optional.
Named(p) == {i \in DOMAIN Roles : p.approvals[i] # None}

\* requireSystemProfileApproval and validateSystemProfileLineage.
ProfileLineage(p) ==
    /\ {1, 2} \subseteq Named(p)
    /\ \A i \in Named(p) :
          LET a == p.approvals[i] IN
          /\ a \in approvals /\ a.role = Roles[i]
          /\ a.layer \in layers /\ ApprovalMatches(a.layer, a.role)
          /\ a.layer.renderer = p.renderer
          /\ a.layer.policy = p.policy
          /\ a.layer.world = IF Roles[i] = "world_policy" THEN p.world ELSE None

\* The generations of a profile are those of its runtime contract.
Profile(w, as) == [world |-> w, renderer |-> as[1].layer.renderer,
                   policy |-> as[1].layer.policy, approvals |-> as]

CreateSystemProfile(w, as) ==
    /\ mode = "dark"
    /\ as[1] # None
    /\ ProfileLineage(Profile(w, as))
    /\ Profile(w, as) \notin profiles
    /\ profiles' = profiles \cup {Profile(w, as)}
    /\ UNCHANGED <<graphVars, layers, approvals, profileHeads, projections,
                   admissions, views, bindings>>

\* Compare and set on the head revision; a profile heads a world once.
AdvanceSystemProfileHead(w, p, revision) ==
    /\ Len(profileHeads[w]) < MaxHeads
    /\ mode = "dark"
    /\ revision = Len(profileHeads[w])
    /\ p \in profiles /\ p.world = w /\ ProfileLineage(p)
    /\ p \notin Range(profileHeads[w])
    /\ profileHeads' = [profileHeads EXCEPT ![w] = Append(@, p)]
    /\ UNCHANGED <<graphVars, layers, approvals, profiles, projections, admissions,
                   views, bindings>>

\* getSystemProfileHead, of a world that has one.
HeadProfile(w) == profileHeads[w][Len(profileHeads[w])]

\* The layers of a profile, in the order of the roles.
ProfileLayers(p) ==
    LET optional(i) == IF p.approvals[i] = None THEN << >> ELSE <<p.approvals[i].layer>>
    IN  <<p.approvals[1].layer, p.approvals[2].layer>> \o optional(3) \o optional(4)

CreateEventMessageProjection(e, r) ==
    /\ e \in DOMAIN events /\ events[e].kind = "inbound"
    /\ <<e, r>> \notin projections
    /\ projections' = projections \cup {<<e, r>>}
    /\ UNCHANGED <<graphVars, layers, approvals, profiles, profileHeads, admissions,
                   views, bindings>>

-----------------------------------------------------------------------------
(* The request view of the active branch.                                  *)

Increasing(s) == \A i, j \in DOMAIN s : i < j => s[i] < s[j]

\* validateLocalBranchRequestSystemLayers: rising kinds from the runtime
\* contract, one of them an identity, nothing private, legacy or foreign.
LayersFit(w, renderer, policy, ls) ==
    /\ ls # << >> /\ ls[1].kind = "runtime_contract"
    /\ \E i \in DOMAIN ls : ls[i].kind \in {"identity", "integrated_self"}
    /\ Increasing([i \in DOMAIN ls |-> KindOrder(ls[i].kind)])
    /\ \A i \in DOMAIN ls :
          /\ ls[i] \in layers
          /\ ls[i].renderer = renderer /\ ls[i].policy = policy
          /\ \/ ls[i].visibility = "global_contract" /\ ls[i].world = None
                /\ ls[i].kind = "runtime_contract"
             \/ ls[i].visibility = "integrated_self" /\ ls[i].world = None
                /\ ls[i].kind \in {"identity", "integrated_self"}
             \/ ls[i].visibility = "world" /\ ls[i].world = w
                /\ ls[i].kind = "world_policy"

\* The view shows every event of the manifest, rendered by the generation the
\* manifest names, in order.
MessagesFit(es, r) ==
    /\ Increasing(es)
    /\ \A i \in DOMAIN es : <<es[i], r>> \in projections

InsertView(b, renderer, ls, m) ==
    views' = Insert(views, b, [layers |-> ls, renderer |-> renderer,
                               messages |-> m.events, messageRenderer |-> m.renderer,
                               policy |-> m.policy])

CreateLocalBranchRequestView(b, renderer, ls) ==
    /\ coordinator.active = b /\ b \in Running
    /\ StartedAtHead(b)
    /\ b \in DOMAIN manifests /\ manifests[b].shares = << >>
    /\ b \notin DOMAIN views
    /\ MessagesFit(manifests[b].events, manifests[b].renderer)
    /\ LayersFit(branches[b].world, renderer, manifests[b].policy, ls)
    /\ InsertView(b, renderer, ls, manifests[b])
    /\ UNCHANGED <<graphVars, layers, approvals, profiles, profileHeads, projections,
                   admissions, bindings>>

\* A binding pins the view of a running branch, before it did anything else,
\* to the profile that heads its world now.
BindingFits(p, v) ==
    /\ p.renderer = v.renderer
    /\ p.policy = v.policy
    /\ ProfileLayers(p) = v.layers

InsertBinding(b, w) ==
    bindings' = Insert(bindings, b, [profile |-> HeadProfile(w),
                                     revision |-> Len(profileHeads[w])])

MutBindsAnyProfile(b, revision) ==
    /\ mode = "dark"
    /\ b \in DOMAIN views /\ b \notin DOMAIN bindings
    /\ LET w == branches[b].world IN
       /\ profileHeads[w] # << >> /\ revision = Len(profileHeads[w])
       /\ InsertBinding(b, w)
    /\ b \in Running /\ coordinator.active = b
    /\ EffectsOf(b) = {} /\ CapsulesOf(b) = {}
    /\ UNCHANGED <<graphVars, layers, approvals, profiles, profileHeads, projections,
                   admissions, views>>

CreateSystemProfileRequestViewBinding(b, revision) ==
    /\ mode = "dark"
    /\ b \in DOMAIN views /\ b \notin DOMAIN bindings
    /\ LET w == branches[b].world IN
       /\ profileHeads[w] # << >> /\ revision = Len(profileHeads[w])
       /\ BindingFits(HeadProfile(w), views[b])
       /\ InsertBinding(b, w)
    /\ b \in Running /\ coordinator.active = b
    /\ EffectsOf(b) = {} /\ CapsulesOf(b) = {}
    /\ UNCHANGED <<graphVars, layers, approvals, profiles, profileHeads, projections,
                   admissions, views>>

-----------------------------------------------------------------------------
(* Ingress in dark mode and the branch that is assembled from it.          *)

\* The event and its admission in one transaction; it is rendered later.
AdmitDarkInboundEvent(w, r) ==
    /\ mode = "dark"
    /\ AppendWorldEvent(w, "inbound")
    /\ admissions' = Insert(admissions, Len(events'), r)
    /\ UNCHANGED <<branches, starts, coordinator, head, advances, manifests, capsules,
                   grants, effects, recoveries, imports, attempts, abandoned, mode,
                   layers, approvals, profiles, profileHeads, projections, views,
                   bindings>>

\* assembleLocalBranchRecordsInTransaction: a branch of world w over es, with
\* the profile that heads w, its manifest, view and binding.
AssembleRecords(b, w, es, r) ==
    /\ mode = "dark"
    /\ profileHeads[w] # << >>
    /\ es # << >>
    /\ \A i \in DOMAIN es : es[i] \in DOMAIN events /\ events[es[i]].world = w
    /\ MessagesFit(es, r)
    /\ LET p == HeadProfile(w)
           ls == ProfileLayers(p)
           m == [events |-> es, shares |-> << >>, renderer |-> r, policy |-> p.policy]
       IN  /\ LayersFit(w, p.renderer, p.policy, ls)
           /\ InsertManifest(b, es, << >>, r, p.policy)
           /\ InsertView(b, p.renderer, ls, m)
    /\ OpenBranch(b, w, 1 + Max({0} \cup {branches[c].epoch : c \in DOMAIN branches}))
    /\ InsertBinding(b, w)

AssembleDarkLocalBranchRecords(b, w, es, r) ==
    /\ AssembleRecords(b, w, es, r)
    /\ UNCHANGED <<events, head, advances, capsules, grants, effects, recoveries,
                   imports, attempts, abandoned, mode, layers, approvals, profiles,
                   profileHeads, projections, admissions>>

\* inspectNextDarkPendingBatch: from the first admission on, those of its world
\* and renderer, until another world, another renderer, a message not rendered
\* yet or the limit.
BatchEvents(limit) ==
    LET first == Min(DOMAIN admissions)
        like(e) == /\ events[e].world = events[first].world
                   /\ admissions[e] = admissions[first]
                   /\ <<e, admissions[e]>> \in projections
        upTo(e) == {d \in DOMAIN admissions : d <= e}
    IN  {e \in DOMAIN admissions : Cardinality(upTo(e)) <= limit /\ \A d \in upTo(e) : like(d)}

PendingBatch(limit) ==
    LET S == BatchEvents(limit)
    IN  CHOOSE q \in [1..Cardinality(S) -> S] : Increasing(q)

\* An attempt covers the batch; an earlier attempt on the same events has to
\* be abandoned first.
AssembleNextDarkPendingBranchRecords(b, limit) ==
    /\ PendingBatch(limit) # << >>
    /\ LET es == PendingBatch(limit) IN
       /\ AssembleRecords(b, events[es[1]].world, es, admissions[es[1]])
       /\ \A c \in DOMAIN attempts \ abandoned :
             attempts[c].last < es[1] \/ es[Len(es)] < attempts[c].first
       /\ attempts' = Insert(attempts, b,
             [first |-> es[1], last |-> es[Len(es)], limit |-> limit])
    /\ UNCHANGED <<events, head, advances, capsules, grants, effects, recoveries,
                   imports, abandoned, mode, layers, approvals, profiles, profileHeads,
                   projections, admissions>>
-----------------------------------------------------------------------------
(* Sequences of inputs callers choose: manifest events in any order, at    *)
(* most one share, at most one capsule parent.                             *)
Lists(S, n) == UNION {[1..m -> S] : m \in 0..n}

EventLists == Lists(DOMAIN events, MaxEvents)

ShareLists == Lists(DOMAIN grants, 1)

ParentSets == {{}} \cup {{c} : c \in DOMAIN capsules}

\* Every slot of a profile takes an approval of its role; the last takes any.
ApprovalLists ==
    LET of(i) == {None} \cup {a \in approvals : a.role = Roles[i]}
    IN  {<<c, d, s, p>> : c \in of(1), d \in of(2), s \in of(3), p \in approvals \cup {None}}

GraphStep ==
    \/ \E w \in Worlds, kind \in {"inbound", "other"} :
          /\ AppendWorldEvent(w, kind)
          /\ UNCHANGED <<branches, starts, coordinator, head, advances, manifests,
                         capsules, grants, effects, recoveries, imports, attempts,
                         abandoned, mode>>
    \/ \E b \in BranchIds, w \in Worlds :
          BeginCoordinatedBranch(b, w, 1, head.revision)
    \/ \E b \in BranchIds, es \in EventLists, gs \in ShareLists, r \in Renderers,
          p \in Policies : CreateManifest(b, es, gs, r, p)
    \/ \E b \in BranchIds, ps \in ParentSets,
          kind \in {"private", "root_receipt", "self_delta", "legacy_opaque"} :
          CreateCapsule(b, kind, ps)
    \/ \E g \in GrantIds, c \in DOMAIN capsules, w \in Worlds : CreateShareGrant(g, c, w)
    \/ \E g \in GrantIds : RevokeShareGrant(g)
    \/ \E x \in EffectIds, b \in BranchIds : PrepareEffect(x, b)
    \/ \E x \in EffectIds, status \in {"observed", "failed"} : ResolveEffect(x, status)
    \/ RecoverPreparedEffects
    \/ \E b \in BranchIds : AdvanceContinuationHead(b, head.revision)
    \/ \E b \in BranchIds, ps \in ParentSets : CompleteCoordinatedBranch(b, ps)
    \/ RecoverCoordinatedBranch
    \/ \E s \in Sources, b \in BranchIds : ImportLegacyArtifact(s, b)
    \/ \E s \in Sources, c \in DOMAIN capsules : RecordLegacyImport(s, c)
    \/ Activate

ViewStep ==
    \/ \E layer \in Layers : CreateSystemLayerProjection(layer)
    \/ \E layer \in layers, i \in DOMAIN Roles, g \in ApprovalGens :
          ApproveSystemLayer(layer, Roles[i], g)
    \/ \E w \in Worlds, as \in ApprovalLists : CreateSystemProfile(w, as)
    \/ \E w \in Worlds, p \in profiles :
          AdvanceSystemProfileHead(w, p, Len(profileHeads[w]))
    \/ \E e \in DOMAIN events, r \in Renderers : CreateEventMessageProjection(e, r)
    \/ \E ls \in Lists(layers, 2), r \in {layer.renderer : layer \in layers} :
          \E b \in BranchIds : CreateLocalBranchRequestView(b, r, ls)
    \/ \E b \in DOMAIN views :
          CreateSystemProfileRequestViewBinding(b, Len(profileHeads[branches[b].world]))
    \/ \E w \in Worlds, r \in Renderers : AdmitDarkInboundEvent(w, r)
    \/ \E b \in BranchIds, w \in Worlds, es \in EventLists, r \in Renderers :
          AssembleDarkLocalBranchRecords(b, w, es, r)
    \/ \E b \in BranchIds, limit \in 1..BatchLimit :
          AssembleNextDarkPendingBranchRecords(b, limit)

Next == (GraphStep /\ UNCHANGED viewVars) \/ ViewStep

Init == GraphInit /\ ViewsInit

Spec == Init /\ [][Next]_vars

-----------------------------------------------------------------------------
(* What the readers check of a stored row before they return it.           *)

EventReads(e) == events[e] \in WorldEvent

BranchReads(b) == branches[b] \in BranchRecord

EffectReads(x) == effects[x] \in EffectRecord /\ effects[x].branch \in DOMAIN branches

StartReads(b) ==
    /\ starts[b] \in StartRecord
    /\ starts[b].pred # None => starts[b].pred \in DOMAIN branches

\* getManifestProjection: the edges name each event and each grant once, all
\* of the branch's world.
ManifestReads(b) ==
    LET m == manifests[b] IN
    /\ m \in ManifestRecord
    /\ b \in DOMAIN branches
    /\ IsInjective(m.events) /\ IsInjective(m.shares)
    /\ \A i \in DOMAIN m.events : events[m.events[i]].world = branches[b].world
    /\ \A i \in DOMAIN m.shares : grants[m.shares[i]].dest = branches[b].world

CapsuleReads(c) ==
    /\ capsules[c] \in CapsuleRecord
    /\ capsules[c].branch \in DOMAIN branches

GrantReads(g) ==
    /\ grants[g] \in GrantRecord
    /\ grants[g].capsule \in DOMAIN capsules

AdmissionReads(e) ==
    e \in DOMAIN events /\ events[e].kind = "inbound" /\ admissions[e] >= 1

AttemptReads(b) ==
    /\ 1 <= attempts[b].first /\ attempts[b].first <= attempts[b].last
    /\ Len(views[b].messages) \in 1..attempts[b].limit

AbandonmentReads(b) == b \in DOMAIN attempts /\ b \in DOMAIN recoveries

ProjectionReads(p) ==
    /\ p[2] >= 1
    /\ p[1] \in DOMAIN events /\ events[p[1]].kind = "inbound"

LayerReads(layer) ==
    /\ layer.kind \in Range(Kinds)
    /\ layer.visibility \in Visibilities
    /\ (layer.visibility = "world") = (layer.world # None)
    /\ layer.renderer >= 1 /\ layer.policy >= 1

ApprovalReads(a) ==
    /\ a.role \in Range(Roles) /\ a.generation >= 1
    /\ a.layer \in layers /\ ApprovalMatches(a.layer, a.role)

ProfileReads(p) == p.world # Legacy /\ p.renderer >= 1 /\ p.policy >= 1 /\ ProfileLineage(p)

\* getLocalBranchRequestView.
ViewReads(b) ==
    LET m == manifests[b]
        v == views[b]
    IN  /\ b \in DOMAIN starts
        /\ b \in DOMAIN manifests /\ ManifestReads(b)
        /\ m.shares = << >>
        /\ v.messageRenderer = m.renderer /\ v.policy = m.policy
        /\ v.messages = m.events
        /\ MessagesFit(v.messages, v.messageRenderer)
        /\ LayersFit(branches[b].world, v.renderer, v.policy, v.layers)

\* getSystemProfileHeadPrefix: an unbroken line of profiles of the world.
HeadReads(w) ==
    /\ IsInjective(profileHeads[w])
    /\ \A i \in DOMAIN profileHeads[w] :
          LET p == profileHeads[w][i] IN
          p \in profiles /\ p.world = w /\ ProfileReads(p)

\* getSystemProfileRequestViewBinding: the profile that headed the world at
\* the bound revision, although others may head it by now.
BindingReads(b) ==
    LET w == branches[b].world
        p == bindings[b].profile
    IN  /\ b \in DOMAIN views /\ ViewReads(b)
        /\ HeadReads(w)
        /\ bindings[b].revision \in DOMAIN profileHeads[w]
        /\ profileHeads[w][bindings[b].revision] = p
        /\ BindingFits(p, views[b])

\* materializeSystemProjection of src/context/view.ts makes its own checks.
SystemMaterializes(w, renderer, policy, ls) ==
    /\ IsInjective(ls)
    /\ \A i \in DOMAIN ls :
          /\ ls[i] \in layers /\ ls[i].renderer = renderer /\ ls[i].policy = policy
          /\ ls[i].visibility \notin
                {"legacy_mixed", "integrated_self_candidate", "private_root"}
          /\ ls[i].world = IF ls[i].visibility = "world" THEN w ELSE None
          /\ ls[i].visibility = "global_contract" => ls[i].kind = "runtime_contract"
          /\ ls[i].visibility = "integrated_self" =>
                ls[i].kind \in {"identity", "integrated_self"}
          /\ ls[i].visibility = "world" => ls[i].kind = "world_policy"
          /\ i > 1 => KindOrder(ls[i - 1].kind) < KindOrder(ls[i].kind)
    /\ ls[1].kind = "runtime_contract"
    /\ \E i \in DOMAIN ls : ls[i].kind \in {"identity", "integrated_self"}

ConversationMaterializes(w, r, es) ==
    \A i \in DOMAIN es :
       /\ <<es[i], r>> \in projections
       /\ events[es[i]].world = w
       /\ i > 1 => es[i - 1] < es[i]

RequestMaterializes(b) ==
    LET w == branches[b].world
        v == views[b]
    IN  /\ ViewReads(b)
        /\ SystemMaterializes(w, v.renderer, v.policy, v.layers)
        /\ ConversationMaterializes(w, v.messageRenderer, v.messages)

-----------------------------------------------------------------------------
(* A held coordinator passes every check of recoverCoordinatedBranch, so   *)
(* boot can always release it; while it is free no branch runs.  The       *)
(* advances form one line whose end is the head, which the coordinator     *)
(* agrees with.                                                            *)
Attached ==
    /\ IF coordinator.active = None THEN Running = {}
       ELSE CanRecover /\ Running = {coordinator.active}
    /\ CoordinatorAtHead
    /\ head.revision = Len(advances)
    /\ head.branch = IF advances = << >> THEN None ELSE advances[Len(advances)].branch
    /\ \A r \in DOMAIN advances :
          /\ advances[r].pred = IF r = 1 THEN None ELSE advances[r - 1].branch
          /\ branches[advances[r].branch].status = "yielded"
          /\ \A q \in 1..(r - 1) : advances[q].branch # advances[r].branch

(* The root receipt of completeCoordinatedBranch stays true: it lists each *)
(* effect of the branch with the outcome the effect has for good, and a    *)
(* branch that ended has no effect that may still change.                  *)
ReceiptFinal ==
    /\ \A r \in DOMAIN advances :
          LET b == advances[r].branch IN
          b \in DOMAIN starts =>
             \E c \in CapsulesOf(b) : /\ capsules[c].kind = "root_receipt"
                                      /\ capsules[c].receipts = EffectReceipts(b)
    /\ \A b \in DOMAIN branches \ Running : Prepared(b) = {}

(* Nothing of one world reaches a branch of another but through a grant to *)
(* it: the events of its manifest, the parents of its capsules, and the    *)
(* messages and layers of its request view are its own world's.            *)
WorldsApart ==
    /\ \A b \in DOMAIN manifests : ManifestReads(b)
    /\ \A c \in DOMAIN capsules : \A p \in capsules[c].parents :
          p < c /\ CapsuleWorld(p) = CapsuleWorld(c)
    /\ \A b \in DOMAIN branches : branches[b].parent # None =>
          branches[branches[b].parent].world = branches[b].world
    /\ \A b \in DOMAIN views :
          /\ \A i \in DOMAIN views[b].messages :
                events[views[b].messages[i]].world = branches[b].world
          /\ \A i \in DOMAIN views[b].layers :
                views[b].layers[i].world \in {None, branches[b].world}

(* A row that was accepted stays acceptable to its reader, whatever is     *)
(* rendered, approved, revoked, headed or recovered later: every row reads *)
(* back, a bound view still agrees with the profile that headed its world  *)
(* then, and every stored view materialises by the separate checks of      *)
(* src/context/view.ts.                                                    *)
Readable ==
    /\ \A e \in DOMAIN events : EventReads(e)
    /\ \A b \in DOMAIN branches : BranchReads(b)
    /\ \A b \in DOMAIN starts : StartReads(b)
    /\ coordinator \in CoordinatorState
    /\ \A b \in DOMAIN manifests : ManifestReads(b)
    /\ \A c \in DOMAIN capsules : CapsuleReads(c)
    /\ \A g \in DOMAIN grants : GrantReads(g)
    /\ \A x \in DOMAIN effects : EffectReads(x)
    /\ \A e \in DOMAIN admissions : AdmissionReads(e)
    /\ \A p \in projections : ProjectionReads(p)
    /\ \A layer \in layers : LayerReads(layer)
    /\ \A a \in approvals : ApprovalReads(a)
    /\ \A p \in profiles : ProfileReads(p)
    /\ \A w \in Worlds : HeadReads(w)
    /\ \A b \in DOMAIN views : RequestMaterializes(b)
    /\ \A b \in DOMAIN bindings : BindingReads(b)
    /\ \A b \in DOMAIN attempts : AttemptReads(b) /\ BindingReads(b)
    /\ \A b \in abandoned : AbandonmentReads(b)
=============================================================================

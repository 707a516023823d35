----------------------------- MODULE GraphSchema -----------------------------
(***************************************************************************)
(* The tables of the context graph as SQLite guards them (migrations 0029  *)
(* to 0041 of src/store/db.ts, with the guards later migrations put in     *)
(* their place).  For each table, an action says what one transaction may  *)
(* do to its rows: no row is deleted, a row keeps all but its status, and  *)
(* a new row satisfies the keys, checks and triggers of its table.  A      *)
(* branch that a transaction inserts counts as running inside it.          *)
(***************************************************************************)
EXTENDS RequestViews, SequencesExt

\* The rows of a table that may not be updated stay as they are.
Kept(old, new) == \A k \in DOMAIN old : k \in DOMAIN new /\ new[k] = old[k]

New(old, new) == DOMAIN new \ DOMAIN old

\* Running when the transaction writes: running before it, or opened by it.
Live(b) == b \in Running \/ b \in New(branches, branches')

EventRows == IsPrefix(events, events')

BranchRows ==
    /\ \A b \in DOMAIN branches :
          /\ b \in DOMAIN branches'
          /\ [branches'[b] EXCEPT !.status = branches[b].status] = branches[b]
          /\ branches[b].status # branches'[b].status => branches[b].status = "running"
    /\ \A b \in New(branches, branches') : branches'[b].parent # None =>
          branches'[b].parent \in DOMAIN branches /\
          branches[branches'[b].parent].world = branches'[b].world

\* context_branches_unresolved_effect_guard: what is prepared is resolved first.
EndedBranchRows ==
    \A b \in DOMAIN branches' : branches'[b].status # "running" =>
       \A x \in DOMAIN effects' : effects'[x].branch = b => effects'[x].status # "prepared"

SingleRunning == Cardinality({b \in DOMAIN branches' : branches'[b].status = "running"}) <= 1

ManifestRows ==
    /\ Kept(manifests, manifests')
    /\ \A b \in New(manifests, manifests') : Live(b)

ManifestEventRows ==
    \A b \in New(manifests, manifests') :
       LET es == manifests'[b].events IN
       /\ IsInjective(es)
       /\ \A i \in DOMAIN es : /\ es[i] \in DOMAIN events'
                               /\ events'[es[i]].world = branches'[b].world

ManifestShareRows ==
    \A b \in New(manifests, manifests') :
       LET gs == manifests'[b].shares IN
       /\ IsInjective(gs)
       /\ \A i \in DOMAIN gs : /\ grants[gs[i]].dest = branches'[b].world
                               /\ grants[gs[i]].status = "active"

CapsuleRows ==
    /\ IsPrefix(capsules, capsules')
    /\ \A c \in New(capsules, capsules') :
          /\ Live(capsules'[c].branch)
          /\ capsules'[c].kind # "legacy_opaque" => capsules'[c].branch \in DOMAIN manifests'

CapsuleEdgeRows ==
    \A c \in New(capsules, capsules') : \A p \in capsules'[c].parents :
       /\ p < c
       /\ branches'[capsules'[p].branch].world = branches'[capsules'[c].branch].world

GrantRows ==
    /\ \A g \in DOMAIN grants :
          /\ g \in DOMAIN grants'
          /\ grants'[g] # grants[g] =>
                grants[g].status = "active" /\ grants'[g] = [grants[g] EXCEPT !.status = "revoked"]
    /\ \A g \in New(grants, grants') :
          grants'[g].capsule \in DOMAIN capsules /\ grants'[g].dest # CapsuleWorld(grants'[g].capsule)

ImportRows ==
    /\ Kept(imports, imports')
    /\ IsInjective(imports')
    /\ \A s \in New(imports, imports') : capsules'[imports'[s]].kind = "legacy_opaque"

EffectRows ==
    /\ \A x \in DOMAIN effects :
          /\ x \in DOMAIN effects' /\ effects'[x].branch = effects[x].branch
          /\ effects'[x].status # effects[x].status => effects[x].status = "prepared"
    /\ \A x \in New(effects, effects') :
          /\ effects'[x].status = "prepared" /\ Live(effects'[x].branch)

HeadRow ==
    head' # head =>
       /\ head'.revision = head.revision + 1
       /\ head'.revision \in DOMAIN advances' /\ advances'[head'.revision].branch = head'.branch

AdvanceRows ==
    /\ IsPrefix(advances, advances')
    /\ \A r \in New(advances, advances') :
          /\ r = head.revision + 1
          /\ advances'[r].pred = head.branch
          /\ advances'[r].branch # head.branch
          /\ branches'[advances'[r].branch].status = "yielded"
          /\ \A q \in DOMAIN advances : advances[q].branch # advances'[r].branch

ActivationRow == mode' # mode => mode = "dark" /\ mode' = "active"

StartRows ==
    /\ Kept(starts, starts')
    /\ \A b \in New(starts, starts') :
          starts'[b] = [base |-> head.revision, pred |-> head.branch]

\* context_branches_coordinated_return_guard.
ReturnRows ==
    \A b \in DOMAIN branches :
       (branches[b].status = "running" /\ branches'[b].status = "yielded" /\ b \in DOMAIN starts)
       => \A kind \in {"private", "root_receipt"} :
             \E c \in DOMAIN capsules' : capsules'[c].branch = b /\ capsules'[c].kind = kind

\* A claim by a started running branch, a release by a crash, or the head's
\* advance, by the active branch or while none is active.
CoordinatorRow ==
    coordinator' # coordinator =>
       \/ /\ coordinator.active = None /\ coordinator'.active # None
          /\ coordinator' = [coordinator EXCEPT !.active = coordinator'.active]
          /\ starts'[coordinator'.active] = [base |-> coordinator.base, pred |-> coordinator.pred]
          /\ branches'[coordinator'.active].status = "running"
       \/ /\ coordinator.active # None
          /\ coordinator' = [coordinator EXCEPT !.active = None]
          /\ branches'[coordinator.active].status = "crashed"
       \/ /\ coordinator' = [active |-> None, base |-> head'.revision, pred |-> head'.branch]
          /\ coordinator'.base = coordinator.base + 1
          /\ coordinator.active \in {None, head'.branch}

RecoveryRows ==
    /\ Kept(recoveries, recoveries')
    /\ \A b \in New(recoveries, recoveries') : branches'[b].status = "crashed"

\* A pending dark branch issues no effect and writes no capsule, and its only
\* end is the crash that its abandonment precedes.
PendingRows ==
    /\ \A x \in New(effects, effects') : effects'[x].branch \notin DOMAIN attempts
    /\ \A c \in New(capsules, capsules') : capsules'[c].branch \notin DOMAIN attempts
    /\ \A b \in DOMAIN attempts : branches'[b] # branches[b] =>
          branches'[b].status = "crashed" /\ b \in abandoned'

AbandonmentRows ==
    /\ abandoned \subseteq abandoned'
    /\ \A b \in abandoned' \ abandoned :
          /\ b \in DOMAIN attempts /\ b \in Running
          /\ coordinator.active = b /\ StartedAtHead(b)
          /\ EffectsOf(b) = {}

-----------------------------------------------------------------------------
ProjectionRows ==
    /\ projections \subseteq projections'
    /\ \A p \in projections' \ projections : p[1] \in DOMAIN events

LayerRows ==
    /\ layers \subseteq layers'
    /\ \A layer \in layers' : (layer.visibility = "world") = (layer.world # None)

\* The view of the active branch over its manifest.
ViewRows ==
    /\ Kept(views, views')
    /\ \A b \in New(views, views') :
          /\ Live(b) /\ coordinator'.active = b
          /\ starts'[b] = [base |-> head.revision, pred |-> head.branch]
          /\ views'[b].messageRenderer = manifests'[b].renderer
          /\ views'[b].policy = manifests'[b].policy

ViewLayerRows ==
    \A b \in New(views, views') : \A i \in DOMAIN views'[b].layers :
       LET layer == views'[b].layers[i] IN
       /\ layer \in layers
       /\ layer.renderer = views'[b].renderer /\ layer.policy = views'[b].policy
       /\ <<layer.visibility, layer.kind, layer.world>> \in
             {<<"global_contract", "runtime_contract", None>>,
              <<"integrated_self", "identity", None>>,
              <<"integrated_self", "integrated_self", None>>,
              <<"world", "world_policy", branches'[b].world>>}

ViewMessageRows ==
    \A b \in New(views, views') : \A i \in DOMAIN views'[b].messages :
       /\ views'[b].messages[i] = manifests'[b].events[i]
       /\ <<views'[b].messages[i], views'[b].messageRenderer>> \in projections

AdmissionRows ==
    /\ Kept(admissions, admissions')
    /\ \A e \in New(admissions, admissions') : events'[e].kind = "inbound" /\ mode = "dark"

\* An attempt is of the active branch, which has done nothing else yet.
AttemptBranch(b) ==
    /\ mode = "dark"
    /\ Live(b) /\ coordinator'.active = b
    /\ starts'[b] = [base |-> head.revision, pred |-> head.branch]
    /\ manifests'[b].shares = << >>
    /\ EffectsOf(b) = {} /\ CapsulesOf(b) = {}
    /\ Len(views'[b].messages) \in 1..attempts'[b].limit

\* It covers the queue from its first admission, as far as admissions of its
\* world and renderer are rendered, and overlaps no live attempt.
AttemptQueue(b) ==
    LET a == attempts'[b]
        v == views'[b]
        covered == {e \in DOMAIN admissions : a.first <= e /\ e <= a.last}
        later == {e \in DOMAIN admissions : e > a.last}
    IN  /\ a.first = Min(DOMAIN admissions) /\ a.last = Max(covered)
        /\ v.messages = SetToSortSeq(covered, <)
        /\ \A e \in covered : admissions[e] = v.messageRenderer
        /\ \A c \in DOMAIN attempts \ abandoned :
              attempts[c].last < a.first \/ a.last < attempts[c].first
        /\ (Cardinality(covered) < a.limit /\ later # {}) =>
              LET e == Min(later) IN
              ~ (/\ events[e].world = branches'[b].world
                 /\ admissions[e] = v.messageRenderer
                 /\ <<e, admissions[e]>> \in projections)

\* context_dark_pending_branch_attempts_profile_binding_guard.
AttemptBound(b) == b \in DOMAIN bindings'

AttemptRows ==
    /\ Kept(attempts, attempts')
    /\ \A b \in New(attempts, attempts') :
          AttemptBranch(b) /\ AttemptQueue(b) /\ AttemptBound(b)

\* An attempt seals the view and the manifest of its branch, and so does a
\* binding.
AttemptSeals == \A b \in DOMAIN attempts :
    views'[b] = views[b] /\ manifests'[b] = manifests[b]

BindingSeals == \A b \in DOMAIN bindings :
    views'[b] = views[b] /\ manifests'[b] = manifests[b]

ApprovalRows ==
    /\ approvals \subseteq approvals'
    /\ \A a \in approvals' \ approvals :
          /\ ApprovalMatches(a.layer, a.role) /\ a.layer \in layers
          /\ \A c \in approvals : c.layer # a.layer \/ c.generation # a.generation

ProfileRows ==
    /\ profiles \subseteq profiles'
    /\ \A p \in profiles' \ profiles : mode = "dark" /\ p.world # Legacy /\ ProfileLineage(p)

ProfileHeadRows ==
    \A w \in Worlds :
       /\ IsPrefix(profileHeads[w], profileHeads'[w])
       /\ profileHeads'[w] # profileHeads[w] =>
             LET p == Last(profileHeads'[w]) IN
             /\ mode = "dark" /\ p \in profiles /\ p.world = w
             /\ p \notin Range(profileHeads[w])

\* A binding is of the active branch's view, which nothing has used yet, to
\* the profile that heads its world.
BindingBranch(b) ==
    LET w == branches'[b].world IN
    /\ Live(b) /\ coordinator'.active = b
    /\ starts'[b] = [base |-> head.revision, pred |-> head.branch]
    /\ mode = "dark"
    /\ bindings'[b] = [profile |-> Last(profileHeads[w]), revision |-> Len(profileHeads[w])]
    /\ bindings'[b].profile.renderer = views'[b].renderer
    /\ bindings'[b].profile.policy = views'[b].policy
    /\ b \notin DOMAIN attempts /\ EffectsOf(b) = {} /\ CapsulesOf(b) = {}
    /\ manifests'[b].shares = << >>

\* It is exact: the messages are the manifest's, the layers the profile's.
BindingExact(b) ==
    /\ views'[b].messages = manifests'[b].events
    /\ views'[b].layers = ProfileLayers(bindings'[b].profile)

BindingRows ==
    /\ Kept(bindings, bindings')
    /\ \A b \in New(bindings, bindings') : BindingBranch(b) /\ BindingExact(b)

-----------------------------------------------------------------------------
SchemaStep ==
    /\ EventRows /\ BranchRows /\ EndedBranchRows /\ SingleRunning
    /\ ManifestRows /\ ManifestEventRows /\ ManifestShareRows
    /\ CapsuleRows /\ CapsuleEdgeRows /\ GrantRows /\ ImportRows /\ EffectRows
    /\ HeadRow /\ AdvanceRows /\ ActivationRow
    /\ StartRows /\ ReturnRows /\ CoordinatorRow /\ RecoveryRows
    /\ PendingRows /\ AbandonmentRows
    /\ ProjectionRows /\ LayerRows /\ ViewRows /\ ViewLayerRows /\ ViewMessageRows
    /\ AdmissionRows /\ AttemptRows /\ ApprovalRows /\ ProfileRows
    /\ ProfileHeadRows /\ BindingRows
    /\ AttemptSeals /\ BindingSeals

(* Every transaction of the store stays within its schema: after the       *)
(* checks the methods make themselves, no trigger of src/store/db.ts       *)
(* aborts a branch return, a recovery, an advance of the head, an          *)
(* assembly or a binding halfway.                                          *)
WithinSchema == [][SchemaStep]_vars
=============================================================================

--------------------------- MODULE MCRequestViews ---------------------------
(***************************************************************************)
(* Five scenes split the store's operations so that each is explored       *)
(* fully: effects and recovery, sharing between worlds, the legacy import, *)
(* the system profiles, and the dark request views over layers that are    *)
(* already approved.  A scene leaves the tables of the others alone.       *)
(***************************************************************************)
EXTENDS GraphSchema

CONSTANTS w1, w2, legacy, b1, b2, g1, x1, x2, s1, none

VARIABLE scene

Layer(kind, visibility, world, source, policy) ==
    [kind |-> kind, visibility |-> visibility, world |-> world, source |-> source,
     renderer |-> 1, policy |-> policy]

Contract(p) == Layer("runtime_contract", "global_contract", none,
                     "authored_scoped_contract", p)
Identity(p) == Layer("identity", "integrated_self", none, "soul_snapshot", p)
Policy(w) == Layer("world_policy", "world", w, "routing_policy", 1)
Frontier == Layer("private_frontier", "private_root", none, "frontier", 1)

MCWorlds == {w1, w2}
MCLayers == {Contract(1), Contract(2), Identity(1), Policy(w1), Frontier}
BranchSymmetry == Permutations(BranchIds)

Approval(layer, role) == [layer |-> layer, role |-> role, generation |-> 1]
ContractOK == Approval(Contract(1), "scoped_runtime_contract")
IdentityOK == Approval(Identity(1), "identity")
PolicyOK == Approval(Policy(w1), "world_policy")
Plain(w) == Profile(w, <<ContractOK, IdentityOK, none, none>>)

Frozen == CASE scene = "effects" -> <<viewVars, grants, imports, events>>
            [] scene = "shares"  -> <<viewVars, effects, imports, recoveries, mode>>
            [] scene = "legacy"  -> <<viewVars, effects, grants, events, mode>>
            [] scene = "profiles" -> <<events, branches>>
            [] scene = "views"   -> <<layers, approvals, profiles, capsules, grants, imports,
                                     effects, mode>>

MCInit ==
    /\ GraphInit
    /\ scene \in {"effects", "shares", "legacy", "profiles", "views"}
    /\ projections = {} /\ admissions = << >> /\ views = << >> /\ bindings = << >>
    /\ IF scene = "views"
       THEN /\ layers = {Contract(1), Identity(1), Policy(w1)}
            /\ approvals = {ContractOK, IdentityOK, PolicyOK}
            /\ profiles = {Plain(w1), Plain(w2),
                           Profile(w1, <<ContractOK, IdentityOK, none, PolicyOK>>)}
            /\ profileHeads = w1 :> << >> @@ w2 :> <<Plain(w2)>>
       ELSE /\ layers = {} /\ approvals = {} /\ profiles = {}
            /\ profileHeads = [w \in Worlds |-> << >>]

\* Only the view scene looks at what kind an event is; there every inbound
\* event comes in through the dark ingress.
MCNext ==
    /\ Next
    /\ UNCHANGED scene /\ Frozen' = Frozen
    /\ \A e \in DOMAIN events' :
          events'[e].kind = "other" \/ (scene = "views" /\ e \in DOMAIN admissions')

MCSpec == MCInit /\ [][MCNext]_<<vars, scene>>
=============================================================================

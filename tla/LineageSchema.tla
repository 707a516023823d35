--------------------------- MODULE LineageSchema ---------------------------
(***************************************************************************)
(* The rows of the dark context graph that the resident's own tool calls   *)
(* write (src/src/store/db.ts, migrations 30, 35, 36, 39 to 48), and the   *)
(* BEFORE INSERT and BEFORE UPDATE triggers that guard them.  A trigger is *)
(* an operator that is TRUE when SQLite accepts the row: when it is FALSE  *)
(* the statement aborts and the whole transaction rolls back.              *)
(*                                                                         *)
(* A row of the consent chain holds the row it was made from (the code's   *)
(* foreign key, followed), and the batch b and the index c of the tool     *)
(* call that wrote it.  A branch is its position in attempts: the code's   *)
(* authority epoch counts them in the same way.  Hashes, sizes and clock   *)
(* readings are left out; so are the columns that only copy their parent's.*)
(***************************************************************************)
EXTENDS Integers, Sequences, FiniteSets, FiniteSetsExt

CONSTANTS Souls,      \* the contents the SOUL file may have
          Worlds,     \* the social worlds (Discord and Signal rooms)
          Targets,    \* the provider targets the configuration may name
          NoSoul,     \* the profile head of a world without one
          First,      \* first_admissible_sequence of the only dark generation
          Limit       \* MAX_EVENTS of one assembled request

ASSUME LineageAssumption ==
    /\ NoSoul \notin Souls
    /\ First \in Nat \ {0}
    /\ Limit \in Nat \ {0}

VARIABLES events,          \* context_world_events, by sequence
          projected,       \* the sequences that have a message projection
          candidates,      \* resident_source_inspection_candidates
          authorizations,  \* resident_source_candidate_authorizations
          derivations,     \* resident_identity_system_derivations, by revision
          layers,          \* the SOULs whose identity layer and approval exist
          bindings,        \* resident_world_profile_bindings
          heads,           \* the SOUL of each world's profile head (revision 1)
          admissions,      \* dark_ingress_admissions, as sequences
          attempts,        \* dark_pending_branch_attempts, by authority epoch
          crashed,         \* the branches whose status is crashed
          abandoned,       \* dark_pending_branch_abandonments
          recovered,       \* context_branch_recoveries
          coordinator,     \* the branch that holds the root coordinator, or 0
          providers        \* dark_isolated_provider_bindings, in binding order

consent == <<candidates, authorizations, derivations, layers, bindings, heads>>
branches == <<admissions, attempts, crashed, abandoned, recovered, coordinator>>
rows == <<events, projected, consent, branches, providers>>

Elements(s) == {s[i] : i \in DOMAIN s}

\* Two rows written by one tool call: the batch id and the call index agree.
SameCall(x, y) == x.b = y.b /\ x.c = y.c

\* The UNIQUE (batch id, call index) of each of the receipt tables.
FreshCall(table, row) == \A x \in table : ~SameCall(x, row)

\* A branch is running from its insertion to its crash (these branches end
\* in no other way).
Running == DOMAIN attempts \ crashed

----------------------------------------------------------------------------
(* The consent chain: inspect, authorize, derive, bind.                    *)

\* candidates_identity_conflict and candidates_lineage_guard (the snapshot
\* row is inserted just before, in the same transaction).
CandidateAccepted(row) == FreshCall(candidates, row)

\* authorizations_identity_conflict: a candidate is authorized at most once.
AuthorizationFresh(row) ==
    \A x \in authorizations : x.candidate # row.candidate /\ ~SameCall(x, row)

\* authorizations_lineage_guard: the candidate exists and was inspected in
\* another batch.
AuthorizationLineage(row) ==
    row.candidate \in candidates /\ row.candidate.b # row.b

AuthorizationAccepted(row) ==
    AuthorizationFresh(row) /\ AuthorizationLineage(row)

\* derivations_identity_conflict: an authorization is derived at most once,
\* and a revision is used at most once.
DerivationFresh(row, revision) ==
    /\ \A x \in Elements(derivations) :
          x.authorization # row.authorization /\ ~SameCall(x, row)
    /\ revision \notin DOMAIN derivations

\* derivations_lineage_guard: three batches, the authorization's SOUL in the
\* approved layer, and the predecessor one revision below.  A layer older
\* than this row is the work of an earlier derivation of the same SOUL.
DerivationLineage(row, revision, predecessor, old) ==
    /\ row.authorization \in authorizations
    /\ row.authorization.b # row.b
    /\ row.authorization.candidate.b # row.b
    /\ old => \E x \in Elements(derivations) :
                 x.authorization.candidate.soul = row.authorization.candidate.soul
    /\ \/ revision = 1 /\ predecessor = 0 /\ derivations = <<>>
       \/ revision > 1 /\ predecessor \in DOMAIN derivations /\ predecessor = revision - 1

DerivationAccepted(row, revision, predecessor, old) ==
    DerivationFresh(row, revision) /\ DerivationLineage(row, revision, predecessor, old)

\* bindings_identity_conflict: one binding for each world, and each call.
BindingFresh(row) ==
    \A x \in bindings : x.world # row.world /\ ~SameCall(x, row)

\* bindings_lineage_guard: the latest derivation, four batches, an inbound
\* event of that world, and a head at revision one that names this profile.
BindingLineage(row, head) ==
    /\ row.derivation \in DOMAIN derivations
    /\ \A later \in DOMAIN derivations : later <= row.derivation
    /\ LET d == derivations[row.derivation] IN
          /\ row.b \notin {d.b, d.authorization.b, d.authorization.candidate.b}
          /\ head = d.authorization.candidate.soul
    /\ row.event \in DOMAIN events
    /\ events[row.event].world = row.world

\* system_profile_advances: the first advance of a world finds no head.
HeadAccepted(w) == heads[w] = NoSoul

BindingAccepted(row, head) ==
    HeadAccepted(row.world) /\ BindingFresh(row) /\ BindingLineage(row, head)

----------------------------------------------------------------------------
(* Admission, assembly and recovery of a dark branch.                      *)

\* dark_ingress_admissions: one row for each event, and the lineage guard.
AdmissionAccepted(e) ==
    e \notin admissions /\ e \in DOMAIN events /\ e >= First

\* The unique index on running branches, and the coordinator's transition
\* from free to held.
StartAccepted(branch) ==
    Running = {} /\ coordinator = 0 /\ branch \notin DOMAIN attempts

\* dark_pending_branch_attempts_lineage_guard, read after the admission, the
\* branch, the coordinator and the request rows of the same transaction: the
\* items are the first admissions, without a gap and in order; no attempt
\* that still stands overlaps them; and no admission is left out that fits.
AttemptAccepted(row, admitted) ==
    LET items == Elements(row.items)
        last  == row.items[Len(row.items)]
        after == {e \in admitted : e > last}
    IN  /\ Len(row.items) \in 1..Limit
        /\ items \subseteq admitted
        /\ \A e \in items : events[e].world = row.world /\ e \in projected
        /\ row.items[1] = Min(admitted)
        /\ Cardinality({e \in admitted : e <= last}) = Len(row.items)
        /\ \A i \in DOMAIN row.items :
              Cardinality({e \in admitted : e <= row.items[i]}) = i
        /\ \A n \in DOMAIN attempts \ abandoned :
              attempts[n].items[1] > last \/ Max(Elements(attempts[n].items)) < row.items[1]
        /\ ~ /\ Len(row.items) < Limit
             /\ after # {}
             /\ Min(after) \in projected
             /\ events[Min(after)].world = row.world

\* attempts_profile_binding_guard and request_view_bindings: the request's
\* profile is the world's profile head.
RequestProfileAccepted(row) == row.profile # NoSoul /\ row.profile = heads[row.world]

\* abandonments_lineage_guard: an attempt that runs and holds the coordinator.
AbandonmentAccepted(n) ==
    n \in Running /\ coordinator = n /\ n \notin abandoned

\* pending_branch_transition_guard: such a branch only leaves running for
\* crashed, and only when it was abandoned.
CrashAccepted(n, gone) == n \in Running /\ n \in gone

\* recoveries_crashed_guard, and the coordinator's transition to free.
RecoveryAccepted(n, down) == n \in down /\ n \notin recovered

\* isolated_provider_bindings_conflict_guard.
ProviderFresh(row) ==
    \A x \in Elements(providers) : x.branch # row.branch /\ ~SameCall(x, row)

\* isolated_provider_bindings_lineage_guard: the branch runs, holds the
\* coordinator, was not abandoned, and its profile is still the head.
ProviderLineage(row) ==
    /\ row.branch \in Running
    /\ coordinator = row.branch
    /\ row.branch \notin abandoned
    /\ LET a == attempts[row.branch] IN
          /\ heads[a.world] = a.profile
          /\ \E p \in bindings :
                p.world = a.world
                /\ derivations[p.derivation].authorization.candidate.soul = a.profile

ProviderAccepted(row) == ProviderFresh(row) /\ ProviderLineage(row)
============================================================================

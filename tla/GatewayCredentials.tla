-------------------------- MODULE GatewayCredentials --------------------------
(***************************************************************************)
(* How a resident obtains and rotates its Gateway credential.  The Gateway *)
(* keeps grants, instances and credentials in SQLite                       *)
(* (packages/gateway/src/credential-store.ts) behind three routes          *)
(* (resident-control-api.ts, http-service.ts).  The resident keeps one     *)
(* durable row (store/gateway-resident.ts) and drives it with one-shot     *)
(* controllers (gateway-enrollment.ts, gateway-rotation.ts,                *)
(* gateway-rotation-runtime.ts).  Requests and replies are lost or         *)
(* delayed, either side restarts, and the operator revokes at any time.    *)
(***************************************************************************)
EXTENDS Integers, FiniteSets

CONSTANTS Resident, Grant, Cred,   \* instance ids, enrollment grants, credential ids
          NoResident, NoCred, NoGrant, NoUse, NoRequest

VARIABLES
  grant,      \* gateway_enrollment_grants: state of each grant
  consumed,   \* consumed_instance_id and consumed_credential_id
  enrolled,   \* gateway_instances
  state,      \* gateway_node_credentials.state, "none" without a row
  owner,      \* instance_id
  rotates,    \* rotates_credential_id
  replaced,   \* replaced_by_credential_id
  phase,      \* gateway_resident_state.phase of each resident
  token,      \* enrollment_grant
  active,     \* active_credential_id and its token
  pending,    \* pending_credential_id and its token
  proposed,   \* residents with rotation_proposed_at
  up,         \* residents whose process runs
  attempt,    \* the request the running controller awaits
  reply,      \* its answer: "none", "ok" or "error"
  sent,       \* every request sent; a timed-out one may still be served
  authorized  \* proposals that passed authorizeProposal, before body I/O

gateway  == <<grant, consumed, enrolled, state, owner, rotates, replaced>>
row      == <<phase, token, active, pending, proposed>>
control  == <<up, attempt, reply>>
vars     == <<gateway, row, control, sent, authorized>>

Phase == {"idle", "enrolling", "active", "rotating"}

Enrollment(r, g, c)   == [kind |-> "enroll", r |-> r, grant |-> g, new |-> c]
Proposal(r, old, new) == [kind |-> "propose", r |-> r, old |-> old, new |-> new]
Activation(r, new)    == [kind |-> "activate", r |-> r, new |-> new]
Request ==
  {Enrollment(r, g, c) : r \in Resident, g \in Grant, c \in Cred}
  \cup {Proposal(r, old, new) : r \in Resident, old \in Cred, new \in Cred}
  \cup {Activation(r, new) : r \in Resident, new \in Cred}

ASSUME NullAssumption ==
  /\ NoCred \notin Cred /\ NoGrant \notin Grant /\ NoResident \notin Resident
  /\ NoUse \notin Resident \X Cred /\ NoRequest \notin Request

Init ==
  /\ grant = [g \in Grant |-> "none"] /\ consumed = [g \in Grant |-> NoUse]
  /\ enrolled = {}
  /\ state = [c \in Cred |-> "none"]
  /\ owner = [c \in Cred |-> NoResident]
  /\ rotates = [c \in Cred |-> NoCred] /\ replaced = [c \in Cred |-> NoCred]
  /\ phase = [r \in Resident |-> "idle"]
  /\ token = [r \in Resident |-> NoGrant]
  /\ active = [r \in Resident |-> NoCred] /\ pending = [r \in Resident |-> NoCred]
  /\ proposed = {} /\ up = {}
  /\ attempt = [r \in Resident |-> NoRequest]
  /\ reply = [r \in Resident |-> "none"]
  /\ sent = {} /\ authorized = {}

-----------------------------------------------------------------------------
(* The resident.                                                           *)

\* createNodeCredential: 128 random bits, so an id nobody has.
Fresh(c) == state[c] = "none" /\ \A r \in Resident : pending[r] # c

\* Post a request; the controller now awaits its answer.
Send(r, q) ==
  /\ attempt' = [attempt EXCEPT ![r] = q]
  /\ reply' = [reply EXCEPT ![r] = "none"]
  /\ sent' = sent \cup {q}

\* The request #prepare derives from a rotating row.
RotationStep(r) == IF r \in proposed THEN Activation(r, pending[r])
                   ELSE Proposal(r, active[r], pending[r])

\* beginEnrollment of an idle row with the configured grant, then the post.
BootIdle(r, g, c) ==
  /\ r \notin up /\ phase[r] = "idle" /\ grant[g] # "none" /\ Fresh(c)
  /\ up' = up \cup {r}
  /\ phase' = [phase EXCEPT ![r] = "enrolling"]
  /\ token' = [token EXCEPT ![r] = g]
  /\ pending' = [pending EXCEPT ![r] = c]
  /\ Send(r, Enrollment(r, g, c))
  /\ UNCHANGED <<gateway, active, proposed, authorized>>

\* Without a configured grant token an idle resident has nothing to send.
BootUnconfigured(r) ==
  /\ r \notin up /\ phase[r] = "idle"
  /\ up' = up \cup {r}
  /\ UNCHANGED <<gateway, row, attempt, reply, sent, authorized>>

\* An enrolling row is replayed with its persisted tuple, or left alone when
\* the configured token differs from it.
BootEnrolling(r) ==
  /\ r \notin up /\ phase[r] = "enrolling"
  /\ up' = up \cup {r}
  /\ \/ Send(r, Enrollment(r, token[r], pending[r]))
     \/ UNCHANGED <<attempt, reply, sent>>
  /\ UNCHANGED <<gateway, row, authorized>>

\* A rotating row is resumed at startup; an active one needs nothing.
BootEnrolled(r) ==
  /\ r \notin up /\ phase[r] \in {"active", "rotating"}
  /\ up' = up \cup {r}
  /\ IF phase[r] = "rotating" THEN Send(r, RotationStep(r))
     ELSE UNCHANGED <<attempt, reply, sent>>
  /\ UNCHANGED <<gateway, row, authorized>>

\* Mutant: a trigger on a rotating row begins a second rotation.
MutTriggerAnew(r, c) ==
  /\ r \in up /\ attempt[r] = NoRequest /\ phase[r] \in {"active", "rotating"} /\ Fresh(c)
  /\ phase' = [phase EXCEPT ![r] = "rotating"]
  /\ pending' = [pending EXCEPT ![r] = c]
  /\ Send(r, Proposal(r, active[r], c))
  /\ proposed' = proposed \ {r}
  /\ UNCHANGED <<gateway, token, active, up, authorized>>
\* trigger(): joins a running attempt, resumes a durable rotation, or begins one.
Trigger(r, c) ==
  /\ r \in up /\ attempt[r] = NoRequest /\ phase[r] = "active" /\ Fresh(c)
  /\ phase' = [phase EXCEPT ![r] = "rotating"]
  /\ pending' = [pending EXCEPT ![r] = c]
  /\ Send(r, Proposal(r, active[r], c))
  /\ UNCHANGED <<gateway, token, active, proposed, up, authorized>>

TriggerResumes(r) ==
  /\ r \in up /\ attempt[r] = NoRequest /\ phase[r] = "rotating"
  /\ Send(r, RotationStep(r))
  /\ UNCHANGED <<gateway, row, up, authorized>>

\* The controller's attempt is over.
Settle(r) == /\ attempt' = [attempt EXCEPT ![r] = NoRequest]
             /\ reply' = [reply EXCEPT ![r] = "none"]

\* activateEnrollment: the pending credential becomes the active one.
EnrollReturns(r) ==
  /\ reply[r] = "ok" /\ attempt[r].kind = "enroll"
  /\ phase' = [phase EXCEPT ![r] = "active"]
  /\ token' = [token EXCEPT ![r] = NoGrant]
  /\ active' = [active EXCEPT ![r] = pending[r]]
  /\ pending' = [pending EXCEPT ![r] = NoCred]
  /\ Settle(r)
  /\ UNCHANGED <<gateway, proposed, up, sent, authorized>>

\* Mutant: the rotation goes on without its durable checkpoint.
MutProposeReturnsUnmarked(r) ==
  /\ reply[r] = "ok" /\ attempt[r].kind = "propose"
  /\ Send(r, Activation(r, pending[r]))
  /\ UNCHANGED <<gateway, row, up, authorized>>
\* markRotationProposed: the checkpoint, then on to the activation.
ProposeReturns(r) ==
  /\ reply[r] = "ok" /\ attempt[r].kind = "propose"
  /\ proposed' = proposed \cup {r}
  /\ Send(r, Activation(r, pending[r]))
  /\ UNCHANGED <<gateway, phase, token, active, pending, up, authorized>>

\* activateRotation of the resident store.
ActivateReturns(r) ==
  /\ reply[r] = "ok" /\ attempt[r].kind = "activate"
  /\ phase' = [phase EXCEPT ![r] = "active"]
  /\ active' = [active EXCEPT ![r] = pending[r]]
  /\ pending' = [pending EXCEPT ![r] = NoCred]
  /\ proposed' = proposed \ {r}
  /\ Settle(r)
  /\ UNCHANGED <<gateway, token, up, sent, authorized>>

\* A refusal, a network error, the timeout or stop(): nothing durable changes,
\* and a late answer is dropped.
AttemptFails(r) ==
  /\ attempt[r] # NoRequest
  /\ Settle(r)
  /\ UNCHANGED <<gateway, row, up, sent, authorized>>

\* The resident process dies; its row survives.
Crash(r) ==
  /\ r \in up
  /\ up' = up \ {r}
  /\ Settle(r)
  /\ UNCHANGED <<gateway, row, sent, authorized>>

-----------------------------------------------------------------------------
(* The Gateway.  A handler is one transaction; "delivered" says whether    *)
(* its answer reaches the attempt that awaits this request.                *)

Answer(q, ok, delivered) ==
  IF delivered /\ attempt[q.r] = q /\ reply[q.r] = "none"
  THEN reply' = [reply EXCEPT ![q.r] = IF ok THEN "ok" ELSE "error"]
  ELSE UNCHANGED reply

createEnrollmentGrant(g) ==
  /\ grant[g] = "none"
  /\ grant' = [grant EXCEPT ![g] = "live"]
  /\ UNCHANGED <<consumed, enrolled, state, owner, rotates, replaced, row, control,
                 sent, authorized>>

\* revokeEnrollmentGrant, and the expiry that enroll() compares with the clock.
GrantEnds(g, how) ==
  /\ grant[g] = "live"
  /\ grant' = [grant EXCEPT ![g] = how]
  /\ UNCHANGED <<consumed, enrolled, state, owner, rotates, replaced, row, control,
                 sent, authorized>>

\* What enroll() does with a request: a replay changes nothing.
Replayed(q)   == consumed[q.grant] = <<q.r, q.new>>
Enrollable(q) == /\ consumed[q.grant] = NoUse /\ grant[q.grant] = "live"
                 /\ q.r \notin enrolled /\ state[q.new] = "none"

enroll(q, delivered) ==
  /\ q \in sent /\ q.kind = "enroll"
  /\ IF Enrollable(q)
     THEN /\ enrolled' = enrolled \cup {q.r}
          /\ state' = [state EXCEPT ![q.new] = "active"]
          /\ owner' = [owner EXCEPT ![q.new] = q.r]
          /\ consumed' = [consumed EXCEPT ![q.grant] = <<q.r, q.new>>]
     ELSE UNCHANGED <<enrolled, state, owner, consumed>>
  /\ Answer(q, Enrollable(q) \/ Replayed(q), delivered)
  /\ UNCHANGED <<grant, rotates, replaced, row, up, attempt, sent, authorized>>

\* authorizeProposal: the old token authenticates before the body is read.
authorizeProposal(q, delivered) ==
  /\ q \in sent /\ q.kind = "propose" /\ q \notin authorized
  /\ IF state[q.old] = "active"
     THEN authorized' = authorized \cup {q} /\ UNCHANGED reply
     ELSE UNCHANGED authorized /\ Answer(q, FALSE, delivered)
  /\ UNCHANGED <<gateway, row, up, attempt, sent>>

\* proposeRotation: a second pending rotation of one credential is refused.
Reproposed(q) == /\ state[q.old] = "active" /\ state[q.new] = "pending"
                 /\ rotates[q.new] = q.old
Proposable(q) == /\ state[q.old] = "active" /\ state[q.new] = "none"
                 /\ \A c \in Cred : rotates[c] = q.old => state[c] # "pending"

proposeRotation(q, delivered) ==
  /\ q \in authorized
  /\ IF Proposable(q)
     THEN /\ state' = [state EXCEPT ![q.new] = "pending"]
          /\ owner' = [owner EXCEPT ![q.new] = owner[q.old]]
          /\ rotates' = [rotates EXCEPT ![q.new] = q.old]
     ELSE UNCHANGED <<state, owner, rotates>>
  /\ Answer(q, Proposable(q) \/ Reproposed(q), delivered)
  /\ UNCHANGED <<grant, consumed, enrolled, replaced, row, up, attempt, sent, authorized>>

\* activateRotation: proof of the pending credential revokes the old one.
Reactivated(q) == /\ state[q.new] = "active" /\ rotates[q.new] # NoCred
                  /\ state[rotates[q.new]] = "revoked" /\ replaced[rotates[q.new]] = q.new
Activatable(q) == state[q.new] = "pending" /\ state[rotates[q.new]] = "active"

activateRotation(q, delivered) ==
  /\ q \in sent /\ q.kind = "activate"
  /\ IF Activatable(q)
     THEN /\ state' = [state EXCEPT ![q.new] = "active", ![rotates[q.new]] = "revoked"]
          /\ replaced' = [replaced EXCEPT ![rotates[q.new]] = q.new]
     ELSE UNCHANGED <<state, replaced>>
  /\ Answer(q, Activatable(q) \/ Reactivated(q), delivered)
  /\ UNCHANGED <<grant, consumed, enrolled, owner, rotates, row, up, attempt, sent,
                 authorized>>

revokeCredential(c) ==
  /\ state[c] \in {"pending", "active"}
  /\ state' = [state EXCEPT ![c] = "revoked"]
  /\ UNCHANGED <<grant, consumed, enrolled, owner, rotates, replaced, row, control, sent,
                 authorized>>

-----------------------------------------------------------------------------
Boots(r)     == \/ \E g \in Grant, c \in Cred : BootIdle(r, g, c)
                \/ BootUnconfigured(r) \/ BootEnrolling(r) \/ BootEnrolled(r)
Triggers(r)  == (\E c \in Cred : Trigger(r, c)) \/ TriggerResumes(r)
Returns(r)   == EnrollReturns(r) \/ ProposeReturns(r) \/ ActivateReturns(r)
Handles(q)   == \E delivered \in BOOLEAN :
                  \/ enroll(q, delivered) \/ authorizeProposal(q, delivered)
                  \/ proposeRotation(q, delivered) \/ activateRotation(q, delivered)
Operator     == \/ \E g \in Grant : \/ createEnrollmentGrant(g)
                                    \/ GrantEnds(g, "revoked") \/ GrantEnds(g, "expired")
                \/ \E c \in Cred : revokeCredential(c)

Next == \/ \E r \in Resident : \/ Boots(r) \/ Triggers(r) \/ Returns(r)
                               \/ AttemptFails(r) \/ Crash(r)
        \/ \E q \in sent : Handles(q)
        \/ Operator

Spec == Init /\ [][Next]_vars

-----------------------------------------------------------------------------
(* Properties.                                                             *)

\* Every variable has its type.
TypeOK ==
  /\ grant \in [Grant -> {"none", "live", "expired", "revoked"}]
  /\ consumed \in [Grant -> (Resident \X Cred) \cup {NoUse}]
  /\ enrolled \in SUBSET Resident
  /\ state \in [Cred -> {"none", "pending", "active", "revoked"}]
  /\ owner \in [Cred -> Resident \cup {NoResident}]
  /\ rotates \in [Cred -> Cred \cup {NoCred}]
  /\ replaced \in [Cred -> Cred \cup {NoCred}]
  /\ phase \in [Resident -> Phase]
  /\ token \in [Resident -> Grant \cup {NoGrant}]
  /\ active \in [Resident -> Cred \cup {NoCred}]
  /\ pending \in [Resident -> Cred \cup {NoCred}]
  /\ proposed \in SUBSET Resident /\ up \in SUBSET Resident
  /\ attempt \in [Resident -> Request \cup {NoRequest}]
  /\ reply \in [Resident -> {"none", "ok", "error"}]
  /\ sent \in SUBSET Request /\ authorized \in SUBSET sent

\* The operator revoked a credential of r itself (a rotation leaves a successor).
OperatorRevoked(r) ==
  \E c \in Cred : state[c] = "revoked" /\ owner[c] = r /\ replaced[c] = NoCred

\* The gateway would accept, now or after authorization, what a rotating
\* resident would send.
RotationAccepted(r) ==
  IF r \in proposed
  THEN Activatable(Activation(r, pending[r])) \/ Reactivated(Activation(r, pending[r]))
  ELSE Proposable(Proposal(r, active[r], pending[r]))
       \/ Reproposed(Proposal(r, active[r], pending[r]))

\* No lockout: however replies are lost and either side restarts, the row of an
\* enrolled resident names a credential the gateway accepts, or a rotation step
\* that it accepts, unless the operator revoked one of its credentials.
NoLockout ==
  \A r \in Resident : ~OperatorRevoked(r) =>
    /\ phase[r] = "active" => state[active[r]] = "active" /\ owner[active[r]] = r
    /\ phase[r] = "rotating" => RotationAccepted(r)

\* A live credential at the gateway is one its resident still stores: no lost
\* reply or replay leaves an authority nobody can use or rotate away.
NoOrphanAuthority ==
  \A c \in Cred : state[c] \in {"pending", "active"} => c \in {active[owner[c]], pending[owner[c]]}

=============================================================================

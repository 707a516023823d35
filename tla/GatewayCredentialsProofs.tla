---------------------- MODULE GatewayCredentialsProofs -----------------------
(***************************************************************************)
(* NoLockout and NoOrphanAuthority are not inductive: that the row a       *)
(* resident kept still matches the Gateway depends on every request that   *)
(* was ever sent, for a late one may be served at any time.  CredInv says  *)
(* what each row, each awaited answer, each request in the network and     *)
(* each row of the Gateway implies about the others.  It is inductive, and *)
(* both properties follow.                                                 *)
(***************************************************************************)
EXTENDS GatewayCredentials, TLAPS

\* What the phase of a resident's row says of its other columns and of the
\* credentials it names.
RowShape(r) ==
  /\ phase[r] \in {"idle", "enrolling"} => active[r] = NoCred
  /\ phase[r] \in {"idle", "active"} => pending[r] = NoCred
  /\ r \in proposed => phase[r] = "rotating"
  /\ phase[r] = "idle" => r \notin enrolled
  /\ phase[r] = "enrolling" =>
       /\ token[r] \in Grant /\ pending[r] \in Cred
       /\ replaced[pending[r]] = NoCred
       /\ IF r \in enrolled
          THEN owner[pending[r]] = r /\ state[pending[r]] \in {"active", "revoked"}
          ELSE state[pending[r]] = "none"
  /\ phase[r] \in {"active", "rotating"} =>
       /\ r \in enrolled
       /\ active[r] \in Cred /\ owner[active[r]] = r
       /\ state[active[r]] \in {"active", "revoked"}
  /\ phase[r] = "active" => replaced[active[r]] = NoCred
  /\ phase[r] = "rotating" =>
       /\ pending[r] \in Cred /\ pending[r] # active[r]
       /\ replaced[pending[r]] = NoCred
       /\ state[pending[r]] = "none" => r \notin proposed
       /\ state[pending[r]] # "none" =>
            rotates[pending[r]] = active[r] /\ owner[pending[r]] = r
       /\ state[pending[r]] = "active" => r \in proposed
       /\ replaced[active[r]] # NoCred => replaced[active[r]] = pending[r]

\* The request a controller awaits is the one its row calls for, and a good
\* answer to it was given by a transaction that committed.
AttemptShape(r) ==
  /\ reply[r] # "none" => attempt[r] # NoRequest
  /\ attempt[r] # NoRequest => attempt[r] \in sent /\ attempt[r].r = r
  /\ attempt[r] # NoRequest /\ attempt[r].kind = "enroll" =>
       /\ phase[r] = "enrolling"
       /\ reply[r] = "ok" => r \in enrolled
  /\ attempt[r] # NoRequest /\ attempt[r].kind = "propose" =>
       /\ phase[r] = "rotating" /\ r \notin proposed
       /\ reply[r] = "ok" => state[pending[r]] # "none"
  /\ attempt[r] # NoRequest /\ attempt[r].kind = "activate" =>
       /\ phase[r] = "rotating" /\ r \in proposed
       /\ attempt[r].new = pending[r]
       /\ reply[r] = "ok" => state[active[r]] = "revoked" /\ replaced[active[r]] = pending[r]

\* A request that may still be served is the one its resident's row holds, or
\* the Gateway can no longer act on it.
RequestShape(q) ==
  /\ q.kind = "enroll" =>
       \/ phase[q.r] = "enrolling" /\ token[q.r] = q.grant /\ pending[q.r] = q.new
       \/ q.r \in enrolled /\ phase[q.r] # "enrolling"
  /\ q.kind = "propose" =>
       \/ phase[q.r] = "rotating" /\ active[q.r] = q.old /\ pending[q.r] = q.new
       \/ state[q.old] = "revoked"
  /\ q.kind = "activate" =>
       \/ phase[q.r] = "rotating" /\ q.r \in proposed /\ pending[q.r] = q.new
       \/ state[q.new] \in {"active", "revoked"}

\* The Gateway's own tables: the columns of a credential agree with each other
\* and with the row of the resident that owns it.
CredentialShape(c) ==
  /\ state[c] = "none" => owner[c] = NoResident /\ rotates[c] = NoCred /\ replaced[c] = NoCred
  /\ state[c] # "none" => owner[c] \in Resident
  /\ replaced[c] # NoCred => state[c] = "revoked" /\ rotates[replaced[c]] = c
  /\ rotates[c] # NoCred => state[rotates[c]] # "none"
  /\ state[c] = "pending" =>
       /\ phase[owner[c]] = "rotating" /\ pending[owner[c]] = c
       /\ replaced[rotates[c]] = NoCred
  /\ state[c] = "active" =>
       /\ c \in {active[owner[c]], pending[owner[c]]}
       /\ rotates[c] # NoCred => state[rotates[c]] = "revoked" /\ replaced[rotates[c]] = c

\* A grant is used by the enrollment of the instance it names.
GrantShape(g) ==
  \A r \in Resident, c \in Cred : consumed[g] = <<r, c>> => r \in enrolled

\* The durable tables of both sides agree.
TableInv ==
  /\ \A r \in Resident : RowShape(r)
  /\ \A r, s \in Resident : pending[r] = pending[s] /\ pending[r] # NoCred => r = s
  /\ \A c \in Cred : CredentialShape(c)
  /\ \A g \in Grant : GrantShape(g)

\* So do the requests under way, whoever still waits for them.
CallInv ==
  /\ \A r \in Resident : AttemptShape(r)
  /\ \A q \in sent : RequestShape(q)
  /\ \A q \in authorized : q.kind = "propose"

CredInv == TypeOK /\ TableInv /\ CallInv

-----------------------------------------------------------------------------
\* The fields of a request, and of each of the three kinds.
LEMMA RequestFields ==
  ASSUME NEW q \in Request
  PROVE  /\ q.kind \in {"enroll", "propose", "activate"}
         /\ q.r \in Resident /\ q.new \in Cred
         /\ q.kind = "enroll" => q.grant \in Grant
         /\ q.kind = "propose" => q.old \in Cred
BY DEF Request, Enrollment, Proposal, Activation

\* The three constructors make requests.
LEMMA Made ==
  ASSUME NEW r \in Resident, NEW new \in Cred
  PROVE  /\ \A g \in Grant : Enrollment(r, g, new) \in Request
         /\ \A old \in Cred : Proposal(r, old, new) \in Request
         /\ Activation(r, new) \in Request
BY DEF Request

\* A post is typed and leaves the attempts of other residents alone.
LEMMA SendIs ==
  ASSUME TypeOK, NEW r \in Resident, NEW q \in Request, Send(r, q)
  PROVE  /\ attempt' \in [Resident -> Request \cup {NoRequest}]
         /\ reply' \in [Resident -> {"none", "ok", "error"}]
         /\ sent' \in SUBSET Request /\ sent' = sent \cup {q}
         /\ attempt'[r] = q /\ reply'[r] = "none"
         /\ \A x \in Resident : x # r => attempt'[x] = attempt[x] /\ reply'[x] = reply[x]
BY Zenon DEF TypeOK, Send

\* So does the end of an attempt.
LEMMA SettleIs ==
  ASSUME TypeOK, NEW r \in Resident, Settle(r)
  PROVE  /\ attempt' \in [Resident -> Request \cup {NoRequest}]
         /\ reply' \in [Resident -> {"none", "ok", "error"}]
         /\ attempt'[r] = NoRequest /\ reply'[r] = "none"
         /\ \A x \in Resident : x # r => attempt'[x] = attempt[x] /\ reply'[x] = reply[x]
BY Zenon DEF TypeOK, Settle

\* An answer reaches the attempt that awaits it, or nobody.
LEMMA AnswerIs ==
  ASSUME TypeOK, NEW q \in Request, NEW ok \in BOOLEAN, NEW d \in BOOLEAN, Answer(q, ok, d)
  PROVE  /\ reply' \in [Resident -> {"none", "ok", "error"}]
         /\ \A x \in Resident :
              \/ reply'[x] = reply[x]
              \/ /\ x = q.r /\ attempt[x] = q
                 /\ reply'[x] \in {"error", "ok"} /\ (reply'[x] = "ok" => ok)
BY RequestFields, ZenonT(30) DEF TypeOK, Answer

\* Steps that leave both sides' tables alone keep what they say.
LEMMA TablesStutter ==
  ASSUME TableInv, UNCHANGED row, UNCHANGED <<consumed, enrolled, state, owner, rotates, replaced>>
  PROVE  TableInv'
BY DEF TableInv, row, RowShape, CredentialShape, GrantShape

\* The credentials a row names are its resident's, once the Gateway knows them.
LEMMA NamesItsOwn ==
  ASSUME TypeOK, NEW x \in Resident, RowShape(x)
  PROVE  /\ active[x] \in Cred => state[active[x]] \in {"active", "revoked"} /\ owner[active[x]] = x
         /\ pending[x] \in Cred /\ state[pending[x]] # "none" => owner[pending[x]] = x
BY NullAssumption DEF TypeOK, Phase, RowShape

\* A step that leaves a row and the credentials it names alone keeps its shape.
LEMMA RowFrame ==
  ASSUME NEW x \in Resident, RowShape(x), UNCHANGED row,
         x \in enrolled' <=> x \in enrolled,
         \A c \in Cred : c \in {active[x], pending[x]} =>
           /\ state'[c] = state[c] /\ owner'[c] = owner[c]
           /\ rotates'[c] = rotates[c] /\ replaced'[c] = replaced[c]
  PROVE  RowShape(x)'
BY DEF RowShape, row

\* A good answer stays true: the Gateway never forgets an enrollment, a proposal
\* or a replacement.
LEMMA AttemptFrame ==
  ASSUME TypeOK, NEW x \in Resident, RowShape(x), AttemptShape(x),
         UNCHANGED <<row, sent>>, attempt'[x] = attempt[x], reply'[x] = reply[x],
         x \in enrolled => x \in enrolled',
         \A c \in Cred : /\ state[c] # "none" => state'[c] # "none"
                         /\ state[c] = "revoked" => state'[c] = "revoked"
                         /\ state[c] = "revoked" => replaced'[c] = replaced[c]
  PROVE  AttemptShape(x)'
BY NullAssumption DEF RowShape, AttemptShape, row

\* The shape of an awaited call after its answer came.
LEMMA Answered ==
  ASSUME NEW x \in Resident, AttemptShape(x), attempt[x] # NoRequest,
         UNCHANGED <<row, sent, attempt>>,
         attempt[x].kind = "enroll" /\ reply'[x] = "ok" => x \in enrolled',
         attempt[x].kind = "propose" /\ reply'[x] = "ok" => state'[pending[x]] # "none",
         attempt[x].kind = "activate" /\ reply'[x] = "ok" =>
           state'[active[x]] = "revoked" /\ replaced'[active[x]] = pending[x]
  PROVE  AttemptShape(x)'
BY Zenon DEF AttemptShape, row

\* Posting what the row calls for, with the tables left alone.
LEMMA PostInv ==
  ASSUME CredInv, NEW r \in Resident, NEW q \in Request, Send(r, q),
         UNCHANGED <<gateway, row, authorized>>, up' \in SUBSET Resident,
         q.r = r, RequestShape(q),
         q.kind = "enroll" => phase[r] = "enrolling",
         q.kind = "propose" => phase[r] = "rotating" /\ r \notin proposed,
         q.kind = "activate" => phase[r] = "rotating" /\ r \in proposed /\ q.new = pending[r]
  PROVE  CredInv'
<1> USE NullAssumption
<1>1. TypeOK'
  BY SendIs DEF CredInv, TypeOK, gateway, row
<1>2. TableInv'
  BY TablesStutter, Zenon DEF CredInv, gateway
<1>3. CallInv'
  <2>1. \A x \in Resident : AttemptShape(x)'
    BY SendIs DEF CredInv, CallInv, AttemptShape, gateway, row
  <2>2. \A p \in sent' : RequestShape(p)'
    BY SendIs DEF CredInv, CallInv, RequestShape, gateway, row
  <2> QED
    BY <2>1, <2>2, Zenon DEF CredInv, CallInv
<1> QED
  BY <1>1, <1>2, <1>3, Zenon DEF CredInv

\* A resident boots, or resumes, on the row it finds.
LEMMA ResumeInv ==
  ASSUME CredInv, NEW r \in Resident,
         BootUnconfigured(r) \/ BootEnrolling(r) \/ BootEnrolled(r) \/ TriggerResumes(r)
  PROVE  CredInv'
<1> USE NullAssumption
<1>1. RowShape(r) /\ up' \in SUBSET Resident /\ UNCHANGED <<gateway, row, authorized>>
  BY Zenon DEF CredInv, TableInv, TypeOK, BootUnconfigured, BootEnrolling, BootEnrolled, TriggerResumes
<1>2. CASE UNCHANGED <<attempt, reply, sent>>
  <2>1. TypeOK'
    BY <1>1, <1>2, Zenon DEF CredInv, TypeOK, gateway, row
  <2>2. TableInv'
    BY <1>1, TablesStutter, Zenon DEF CredInv, gateway
  <2>3. CallInv'
    BY <1>1, <1>2, ZenonT(60) DEF CredInv, CallInv, AttemptShape, RequestShape, gateway, row
  <2> QED
    BY <2>1, <2>2, <2>3, Zenon DEF CredInv
<1>3. CASE phase[r] = "enrolling" /\ Send(r, Enrollment(r, token[r], pending[r]))
  <2>1. Enrollment(r, token[r], pending[r]) \in Request
    BY <1>1, <1>3, Made, Zenon DEF RowShape
  <2> QED
    BY <1>1, <1>3, <2>1, PostInv, Zenon DEF Enrollment, RequestShape
<1>4. CASE phase[r] = "rotating" /\ Send(r, RotationStep(r))
  <2>1. RotationStep(r) \in Request
    BY <1>1, <1>4, Made, Zenon DEF RowShape, RotationStep
  <2> QED
    BY <1>1, <1>4, <2>1, PostInv, Zenon DEF RotationStep, Proposal, Activation, RequestShape
<1> QED
  BY <1>2, <1>3, <1>4, Zenon DEF BootUnconfigured, BootEnrolling, BootEnrolled, TriggerResumes

\* An attempt fails, or the process dies with it.
LEMMA FailInv ==
  ASSUME CredInv, NEW r \in Resident, AttemptFails(r) \/ Crash(r)
  PROVE  CredInv'
<1>1. /\ Settle(r) /\ up' \in SUBSET Resident
      /\ UNCHANGED <<gateway, row, sent, authorized>>
  BY Zenon DEF CredInv, TypeOK, AttemptFails, Crash
<1>2. TypeOK'
  BY <1>1, SettleIs, Zenon DEF CredInv, TypeOK, gateway, row
<1>3. TableInv'
  BY <1>1, TablesStutter, Zenon DEF CredInv, gateway
<1>4. CallInv'
  BY <1>1, SettleIs DEF CredInv, CallInv, AttemptShape, RequestShape, gateway, row
<1> QED
  BY <1>2, <1>3, <1>4, Zenon DEF CredInv

\* An idle resident begins its enrollment.
LEMMA BootIdleInv ==
  ASSUME CredInv, NEW r \in Resident, NEW g \in Grant, NEW c \in Cred, BootIdle(r, g, c)
  PROVE  CredInv'
<1> USE NullAssumption
<1> DEFINE q == Enrollment(r, g, c)
<1>1. /\ q \in Request /\ Send(r, q) /\ q.kind = "enroll" /\ q.r = r
      /\ q.grant = g /\ q.new = c
  BY Made, Zenon DEF BootIdle, Enrollment
<1> HIDE DEF q
<1>2. TypeOK'
  BY <1>1, SendIs DEF CredInv, TypeOK, BootIdle, gateway, Phase
<1>3. TableInv'
  BY DEF CredInv, TypeOK, TableInv, BootIdle, gateway, Fresh, RowShape, CredentialShape, GrantShape
<1>4. CallInv'
  <2>1. \A x \in Resident : AttemptShape(x)'
    BY <1>1, SendIs DEF CredInv, CallInv, TypeOK, BootIdle, gateway, AttemptShape
  <2>2. \A p \in sent' : RequestShape(p)'
    BY <1>1, SendIs, RequestFields
    DEF CredInv, TypeOK, CallInv, TableInv, BootIdle, gateway, RequestShape, RowShape
  <2> QED
    BY <2>1, <2>2, Zenon DEF CredInv, CallInv, BootIdle
<1> QED
  BY <1>2, <1>3, <1>4, Zenon DEF CredInv

\* An active one begins a rotation.
LEMMA TriggerInv ==
  ASSUME CredInv, NEW r \in Resident, NEW c \in Cred, Trigger(r, c)
  PROVE  CredInv'
<1> USE NullAssumption
<1> DEFINE q == Proposal(r, active[r], c)
<1>1. active[r] \in Cred /\ state[active[r]] # "none" /\ RowShape(r)
  BY Zenon DEF CredInv, TableInv, RowShape, Trigger
<1>2. /\ q \in Request /\ Send(r, q) /\ q.kind = "propose" /\ q.r = r
      /\ q.old = active[r] /\ q.new = c
  BY <1>1, Made, Zenon DEF Trigger, Proposal
<1> HIDE DEF q
<1>3. TypeOK'
  BY SMTT(30), <1>2, SendIs DEF CredInv, TypeOK, Trigger, gateway, Phase
<1>4. TableInv'
  BY <1>1 DEF CredInv, TypeOK, TableInv, Trigger, gateway, Fresh, RowShape, CredentialShape, GrantShape
<1>5. CallInv'
  <2>1. \A x \in Resident : AttemptShape(x)'
    BY SMTT(30), <1>1, <1>2, SendIs DEF CredInv, CallInv, TypeOK, Trigger, gateway, AttemptShape, RowShape
  <2>2. \A p \in sent' : RequestShape(p)'
    BY <1>1, <1>2, SendIs, RequestFields
    DEF CredInv, TypeOK, CallInv, TableInv, Trigger, gateway, RequestShape
  <2> QED
    BY <2>1, <2>2, Zenon DEF CredInv, CallInv, Trigger
<1> QED
  BY <1>3, <1>4, <1>5, Zenon DEF CredInv

\* The enrollment was accepted: the pending credential becomes the active one.
LEMMA EnrollReturnsInv ==
  ASSUME CredInv, NEW r \in Resident, EnrollReturns(r)
  PROVE  CredInv'
<1> USE NullAssumption
<1>1. /\ RowShape(r) /\ attempt[r] # NoRequest /\ Settle(r)
      /\ phase[r] = "enrolling" /\ r \in enrolled
  BY Zenon DEF CredInv, TableInv, CallInv, AttemptShape, EnrollReturns
<1>2. /\ pending[r] \in Cred /\ owner[pending[r]] = r /\ replaced[pending[r]] = NoCred
      /\ state[pending[r]] \in {"active", "revoked"} /\ r \notin proposed
  BY <1>1, Zenon DEF RowShape
<1>3. TypeOK'
  BY <1>1, <1>2, SettleIs, Zenon DEF CredInv, TypeOK, EnrollReturns, gateway, Phase
<1>4. TableInv'
  <2>1. \A x \in Resident : RowShape(x)'
    BY SMTT(30), <1>1, <1>2, <1>3 DEF CredInv, TypeOK, TableInv, EnrollReturns, gateway, RowShape
  <2>2. \A c \in Cred : CredentialShape(c)'
    BY <1>1, <1>2 DEF CredInv, TypeOK, TableInv, EnrollReturns, gateway, CredentialShape, RowShape
  <2> QED
    BY <2>1, <2>2, ZenonT(30) DEF CredInv, TypeOK, TableInv, EnrollReturns, gateway, GrantShape
<1>5. CallInv'
  <2>1. \A x \in Resident : AttemptShape(x)'
    BY SMTT(30), <1>1, SettleIs DEF CredInv, CallInv, TypeOK, EnrollReturns, gateway, AttemptShape
  <2>2. \A p \in sent' : RequestShape(p)'
    BY <1>1, RequestFields DEF CredInv, TypeOK, CallInv, EnrollReturns, gateway, RequestShape
  <2> QED
    BY <2>1, <2>2, Zenon DEF CredInv, CallInv, EnrollReturns
<1> QED
  BY <1>3, <1>4, <1>5, Zenon DEF CredInv

\* The proposal was accepted: the checkpoint is written and the activation sent.
LEMMA ProposeReturnsInv ==
  ASSUME CredInv, NEW r \in Resident, ProposeReturns(r)
  PROVE  CredInv'
<1> USE NullAssumption
<1> DEFINE q == Activation(r, pending[r])
<1>1. /\ RowShape(r) /\ phase[r] = "rotating" /\ state[pending[r]] # "none"
      /\ pending[r] \in Cred
  BY Zenon DEF CredInv, TableInv, CallInv, AttemptShape, ProposeReturns, RowShape
<1>2. /\ q \in Request /\ Send(r, q) /\ q.kind = "activate" /\ q.r = r
      /\ q.new = pending[r]
  BY <1>1, Made, Zenon DEF ProposeReturns, Activation
<1> HIDE DEF q
<1>3. TypeOK'
  BY <1>2, SendIs DEF CredInv, TypeOK, ProposeReturns, gateway
<1>4. TableInv'
  <2>1. \A x \in Resident : RowShape(x)'
    BY <1>1 DEF CredInv, TableInv, ProposeReturns, gateway, RowShape
  <2>2. \A c \in Cred : CredentialShape(c)'
    BY DEF CredInv, TableInv, ProposeReturns, gateway, CredentialShape
  <2> QED
    BY <2>1, <2>2, ZenonT(30) DEF CredInv, TableInv, ProposeReturns, gateway, GrantShape
<1>5. CallInv'
  <2>1. \A x \in Resident : AttemptShape(x)'
    BY SMTT(30), <1>1, <1>2, SendIs DEF CredInv, CallInv, ProposeReturns, gateway, AttemptShape
  <2>2. \A p \in sent' : RequestShape(p)'
    BY <1>1, <1>2, SendIs DEF CredInv, CallInv, ProposeReturns, gateway, RequestShape
  <2> QED
    BY <2>1, <2>2, Zenon DEF CredInv, CallInv, ProposeReturns
<1> QED
  BY <1>3, <1>4, <1>5, Zenon DEF CredInv

\* The activation was accepted: the old credential is dropped, and by then the
\* Gateway has revoked it.
LEMMA ActivateReturnsInv ==
  ASSUME CredInv, NEW r \in Resident, ActivateReturns(r)
  PROVE  CredInv'
<1> USE NullAssumption
<1> DEFINE old == active[r]
           new == pending[r]
<1>1. /\ RowShape(r) /\ attempt[r] # NoRequest /\ Settle(r)
      /\ phase[r] = "rotating" /\ state[old] = "revoked" /\ replaced[old] = new
  BY Zenon DEF CredInv, TableInv, CallInv, AttemptShape, ActivateReturns
<1>2. /\ old \in Cred /\ new \in Cred /\ new # old /\ r \in enrolled
      /\ replaced[new] = NoCred /\ CredentialShape(old) /\ CredentialShape(new)
  BY <1>1, ZenonT(30) DEF CredInv, TableInv, RowShape
<1>3. /\ rotates[new] = old /\ state[new] \in {"active", "revoked"} /\ owner[new] = r
  BY <1>1, <1>2 DEF CredInv, TypeOK, TableInv, RowShape, CredentialShape
<1>4. TypeOK'
  BY <1>1, <1>2, SettleIs, Zenon DEF CredInv, TypeOK, ActivateReturns, gateway, Phase
<1>5. TableInv'
  <2>1. \A x \in Resident : RowShape(x)'
    BY SMTT(30), <1>1, <1>2, <1>3 DEF CredInv, TypeOK, TableInv, ActivateReturns, gateway, RowShape
  <2>2. \A c \in Cred : CredentialShape(c)'
    BY <1>1, <1>2, <1>3 DEF CredInv, TypeOK, TableInv, ActivateReturns, gateway, CredentialShape
  <2> QED
    BY <2>1, <2>2, ZenonT(30) DEF CredInv, TypeOK, TableInv, ActivateReturns, gateway, GrantShape
<1>6. CallInv'
  <2>1. \A x \in Resident : AttemptShape(x)'
    BY SMTT(30), <1>1, SettleIs DEF CredInv, CallInv, TypeOK, ActivateReturns, gateway, AttemptShape
  <2>2. \A p \in sent' : RequestShape(p)'
    BY <1>1, <1>3, RequestFields
    DEF CredInv, TypeOK, CallInv, ActivateReturns, gateway, RequestShape
  <2> QED
    BY <2>1, <2>2, Zenon DEF CredInv, CallInv, ActivateReturns
<1> QED
  BY <1>4, <1>5, <1>6, Zenon DEF CredInv

\* enroll(): a fresh tuple makes the instance and its first credential.
LEMMA EnrollInv ==
  ASSUME CredInv, NEW q \in sent, NEW d \in BOOLEAN, enroll(q, d)
  PROVE  CredInv'
<1> USE NullAssumption
<1> DEFINE r == q.r
           c == q.new
           ok == Enrollable(q) \/ Replayed(q)
<1>1. /\ q \in Request /\ r \in Resident /\ c \in Cred /\ q.grant \in Grant
      /\ q.kind = "enroll" /\ RequestShape(q) /\ RowShape(r)
  BY RequestFields, Zenon DEF CredInv, TypeOK, CallInv, TableInv, enroll
<1>2. /\ reply' \in [Resident -> {"none", "ok", "error"}]
      /\ \A x \in Resident :
           \/ reply'[x] = reply[x]
           \/ x = r /\ attempt[x] = q /\ reply'[x] # "none" /\ (reply'[x] = "ok" => ok)
  <2>1. Answer(q, ok, d) /\ ok \in BOOLEAN
    BY Zenon DEF enroll, Enrollable, Replayed
  <2> HIDE DEF ok
  <2> QED
    BY <1>1, <2>1, AnswerIs DEF CredInv
<1>3. CASE Enrollable(q)
  <2>1. /\ phase[r] = "enrolling" /\ pending[r] = c /\ r \notin enrolled
        /\ state[c] = "none" /\ CredentialShape(c)
    BY <1>1, <1>3, Zenon DEF RequestShape, Enrollable, CredInv, TableInv
  <2>2. /\ enrolled' = enrolled \cup {r} /\ state' = [state EXCEPT ![c] = "active"]
        /\ owner' = [owner EXCEPT ![c] = r]
        /\ consumed' = [consumed EXCEPT ![q.grant] = <<r, c>>]
        /\ UNCHANGED <<grant, rotates, replaced, row, up, attempt, sent, authorized>>
    BY <1>3, ZenonT(30) DEF enroll
  <2>a. /\ state'[c] = "active" /\ owner'[c] = r
        /\ \A y \in Cred : y # c => state'[y] = state[y] /\ owner'[y] = owner[y]
    <3>1. DOMAIN state = Cred /\ DOMAIN owner = Cred
      BY Zenon DEF CredInv, TypeOK
    <3> QED
      BY <1>1, <2>2, <3>1, SMT
  <2>b. UNCHANGED <<phase, token, active, pending, proposed, replaced, rotates>> /\ r \in enrolled'
    BY <2>2, Zenon DEF row
  <2>3. TypeOK'
    BY <1>1, <1>2, <2>2 DEF CredInv, TypeOK, row
  <2>4. \A x \in Resident : RowShape(x)'
    <3>1. ASSUME NEW x \in Resident, x # r PROVE RowShape(x)'
      <4>1. RowShape(x) /\ c \notin {active[x], pending[x]}
        BY <1>1, <2>1, <3>1, NamesItsOwn DEF CredInv, TableInv
      <4> QED
        BY <2>2, <2>a, <3>1, <4>1, RowFrame, ZenonT(30) DEF CredInv
    <3>2. RowShape(r)'
      BY <1>1, <2>1, <2>a, <2>b, ZenonT(30) DEF RowShape
    <3> QED
      BY <3>1, <3>2, Zenon
  <2>5. \A x \in Cred : CredentialShape(x)'
    BY <1>1, <2>1, <2>2 DEF CredInv, TypeOK, TableInv, row, CredentialShape
  <2>6. \A x \in Grant : GrantShape(x)'
    BY <1>1, <2>2, ZenonT(30) DEF CredInv, TypeOK, TableInv, GrantShape
  <2>7. \A x \in Resident : AttemptShape(x)'
    <3>1. /\ \A y \in Cred : /\ state[y] # "none" => state'[y] # "none"
                             /\ state[y] = "revoked" => state'[y] = "revoked"
          /\ r \in enrolled'
      BY <2>1, <2>2 DEF CredInv, TypeOK
    <3>2. ASSUME NEW x \in Resident, reply'[x] = reply[x] PROVE AttemptShape(x)'
      BY <2>2, <3>1, <3>2, AttemptFrame, Zenon DEF CredInv, TableInv, CallInv
    <3>3. ASSUME attempt[r] = q PROVE AttemptShape(r)'
      BY <1>1, <2>2, <3>1, <3>3, Answered, Zenon DEF CredInv, CallInv
    <3> QED
      BY <1>2, <3>2, <3>3, Zenon
  <2>8. \A p \in sent' : RequestShape(p)'
    BY <1>1, <2>1, <2>2, RequestFields, ZenonT(30) DEF CredInv, TypeOK, CallInv, row, RequestShape
  <2> QED
    BY <2>2, <2>3, <2>4, <2>5, <2>6, <2>7, <2>8, Zenon DEF CredInv, TableInv, CallInv, row
<1>4. CASE ~Enrollable(q)
  <2>1. UNCHANGED <<enrolled, state, owner, consumed, grant, rotates, replaced, row, up, attempt,
                    sent, authorized>>
    BY <1>4, Zenon DEF enroll
  <2>2. TypeOK'
    BY <1>2, <2>1, Zenon DEF CredInv, TypeOK, row
  <2>3. TableInv'
    BY <2>1, TablesStutter, Zenon DEF CredInv
  <2>4. \A x \in Resident : AttemptShape(x)'
    <3>1. Replayed(q) => r \in enrolled
      BY <1>1, Zenon DEF CredInv, TableInv, GrantShape, Replayed
    <3>2. ASSUME NEW x \in Resident, reply'[x] = reply[x] PROVE AttemptShape(x)'
      BY <2>1, <3>2, AttemptFrame, Zenon DEF CredInv, TableInv, CallInv
    <3>3. ASSUME attempt[r] = q, reply'[r] = "ok" => r \in enrolled PROVE AttemptShape(r)'
      BY <1>1, <2>1, <3>3, Answered, Zenon DEF CredInv, CallInv
    <3> QED
      BY <1>2, <1>4, <3>1, <3>2, <3>3, Zenon
  <2> QED
    BY <2>1, <2>2, <2>3, <2>4, Zenon DEF CredInv, CallInv, RequestShape, row
<1> QED
  BY <1>3, <1>4, Zenon

\* authorizeProposal, and the operator's grants: the tables stay, at most an
\* error is delivered.
LEMMA AuthorizeInv ==
  ASSUME CredInv, NEW q \in sent, NEW d \in BOOLEAN, authorizeProposal(q, d)
  PROVE  CredInv'
<1>1. /\ q \in Request /\ q.kind = "propose" /\ authorized' \in {authorized, authorized \cup {q}}
      /\ UNCHANGED <<gateway, row, up, attempt, sent>>
  BY Zenon DEF CredInv, TypeOK, authorizeProposal
<1>2. /\ reply' \in [Resident -> {"none", "ok", "error"}]
      /\ \A x \in Resident :
           reply'[x] = reply[x] \/ (x = q.r /\ attempt[x] = q /\ reply'[x] = "error")
  <2>1. CASE UNCHANGED reply
    BY <2>1, Zenon DEF CredInv, TypeOK
  <2>2. CASE Answer(q, FALSE, d)
    BY <1>1, <2>2, RequestFields, ZenonT(30) DEF CredInv, TypeOK, Answer
  <2> QED
    BY <2>1, <2>2, Zenon DEF authorizeProposal
<1>3. TypeOK'
  BY <1>1, <1>2, ZenonT(30) DEF CredInv, TypeOK, gateway, row
<1>4. TableInv'
  BY <1>1, TablesStutter, Zenon DEF CredInv, gateway
<1>5. CallInv'
  <2>1. \A x \in Resident : AttemptShape(x)'
    BY <1>1, <1>2, NullAssumption DEF CredInv, TypeOK, CallInv, gateway, row, AttemptShape
  <2> QED
    BY <1>1, <2>1, Zenon DEF CredInv, CallInv, RequestShape, gateway, row
<1> QED
  BY <1>3, <1>4, <1>5, Zenon DEF CredInv

\* A grant is created, revoked or lapses; no credential changes.
LEMMA GrantInv ==
  ASSUME CredInv, NEW g \in Grant,
         createEnrollmentGrant(g) \/ GrantEnds(g, "revoked") \/ GrantEnds(g, "expired")
  PROVE  CredInv'
<1>1. /\ grant' \in [Grant -> {"none", "live", "expired", "revoked"}]
      /\ UNCHANGED <<consumed, enrolled, state, owner, rotates, replaced, row, control,
                     sent, authorized>>
  BY Zenon DEF CredInv, TypeOK, createEnrollmentGrant, GrantEnds
<1>2. TypeOK'
  BY <1>1, Zenon DEF CredInv, TypeOK, row, control
<1>3. TableInv'
  BY <1>1, TablesStutter, Zenon DEF CredInv
<1>4. CallInv'
  BY <1>1, ZenonT(30) DEF CredInv, CallInv, AttemptShape, RequestShape, row, control
<1> QED
  BY <1>2, <1>3, <1>4, Zenon DEF CredInv

\* proposeRotation(): only the row's own proposal finds its credential active,
\* so the new one belongs to the resident that stores it.
LEMMA ProposeInv ==
  ASSUME CredInv, NEW q \in sent, NEW d \in BOOLEAN, proposeRotation(q, d)
  PROVE  CredInv'
<1> USE NullAssumption
<1> DEFINE r == q.r
           old == q.old
           new == q.new
           ok == Proposable(q) \/ Reproposed(q)
<1>1. /\ q \in Request /\ r \in Resident /\ old \in Cred /\ new \in Cred
      /\ q.kind = "propose" /\ RequestShape(q) /\ RowShape(r)
  BY RequestFields, Zenon DEF CredInv, TypeOK, CallInv, TableInv, proposeRotation
<1>2. /\ reply' \in [Resident -> {"none", "ok", "error"}]
      /\ \A x \in Resident :
           \/ reply'[x] = reply[x]
           \/ x = r /\ attempt[x] = q /\ reply'[x] # "none" /\ (reply'[x] = "ok" => ok)
  <2>1. Answer(q, ok, d) /\ ok \in BOOLEAN
    BY Zenon DEF proposeRotation, Proposable, Reproposed
  <2> HIDE DEF ok
  <2> QED
    BY <1>1, <2>1, AnswerIs DEF CredInv
<1>3. ok => phase[r] = "rotating" /\ active[r] = old /\ pending[r] = new
  BY <1>1, Zenon DEF RequestShape, Proposable, Reproposed
<1>4. CASE Proposable(q)
  <2>1. /\ phase[r] = "rotating" /\ active[r] = old /\ pending[r] = new /\ new # old
        /\ state[new] = "none" /\ state[old] = "active" /\ owner[old] = r
        /\ r \notin proposed /\ replaced[new] = NoCred /\ replaced[old] = NoCred
        /\ \A c \in Cred : rotates[c] # new
    BY <1>1, <1>3, <1>4 DEF Proposable, RowShape, CredInv, TypeOK, TableInv, CredentialShape
  <2>2. /\ state' = [state EXCEPT ![new] = "pending"]
        /\ owner' = [owner EXCEPT ![new] = r]
        /\ rotates' = [rotates EXCEPT ![new] = old]
        /\ UNCHANGED <<grant, consumed, enrolled, replaced, row, up, attempt, sent, authorized>>
    BY <1>4, <2>1, ZenonT(30) DEF proposeRotation
  <2>a. /\ state'[new] = "pending" /\ owner'[new] = r /\ rotates'[new] = old
        /\ \A y \in Cred : y # new => /\ state'[y] = state[y] /\ owner'[y] = owner[y]
                                       /\ rotates'[y] = rotates[y]
    <3>1. DOMAIN state = Cred /\ DOMAIN owner = Cred /\ DOMAIN rotates = Cred
      BY Zenon DEF CredInv, TypeOK
    <3> QED
      BY <1>1, <2>2, <3>1, SMT
  <2>b. UNCHANGED <<phase, token, active, pending, proposed, replaced, enrolled>>
    BY <2>2, Zenon DEF row
  <2>3. TypeOK'
    BY <1>1, <1>2, <2>2, Zenon DEF CredInv, TypeOK, row
  <2>4. \A x \in Resident : RowShape(x)'
    <3>1. ASSUME NEW x \in Resident, x # r PROVE RowShape(x)'
      <4>1. RowShape(x) /\ new \notin {active[x], pending[x]}
        <5>1. TypeOK /\ RowShape(x) /\ (pending[r] = pending[x] /\ pending[r] # NoCred => r = x)
          BY <1>1, <3>1, Zenon DEF CredInv, TableInv
        <5>2. active[x] = new => state[new] \in {"active", "revoked"}
          BY <1>1, <3>1, <5>1, NamesItsOwn, Zenon
        <5>3. pending[x] # new
          BY <1>1, <2>1, <3>1, <5>1, Zenon
        <5>4. active[x] # new
          BY <2>1, <5>2, Zenon
        <5> QED
          BY <5>1, <5>3, <5>4, Zenon
      <4> QED
        BY <2>2, <2>a, <3>1, <4>1, RowFrame, ZenonT(30) DEF CredInv
    <3>2. RowShape(r)'
      BY <1>1, <2>1, <2>a, <2>b, ZenonT(30) DEF RowShape
    <3> QED
      BY <3>1, <3>2, Zenon
  <2>5. \A x \in Cred : CredentialShape(x)'
    <3> SUFFICES ASSUME NEW x \in Cred PROVE CredentialShape(x)'
      BY Zenon
    <3>1. CredentialShape(x) /\ rotates[x] \in Cred \cup {NoCred} /\ rotates[x] # new
      BY <2>1, Zenon DEF CredInv, TypeOK, TableInv
    <3>2. replaced[x] # new
      <4>1. CredentialShape(new)
        BY <1>1, Zenon DEF CredInv, TableInv
      <4>2. rotates[new] = NoCred
        BY <2>1, <4>1, Zenon DEF CredentialShape
      <4>3. replaced[x] # NoCred => rotates[replaced[x]] = x
        BY <3>1, Zenon DEF CredentialShape
      <4> QED
        BY <1>1, <4>2, <4>3, Zenon
    <3>3. CASE x = new
      BY <1>1, <2>1, <2>a, <2>b, <3>3, ZenonT(30) DEF CredentialShape
    <3>4. CASE x # new
      <4>1. /\ state'[x] = state[x] /\ owner'[x] = owner[x] /\ rotates'[x] = rotates[x]
            /\ replaced[x] \in Cred \cup {NoCred}
        BY <2>a, <3>4, Zenon DEF CredInv, TypeOK
      <4>2. rotates[x] # NoCred => state'[rotates[x]] = state[rotates[x]]
        BY <2>a, <3>1, Zenon
      <4>3. replaced[x] # NoCred => rotates'[replaced[x]] = rotates[replaced[x]]
        BY <2>a, <3>2, <4>1, Zenon
      <4> QED
        BY <2>b, <3>1, <4>1, <4>2, <4>3, ZenonT(30) DEF CredentialShape
    <3> QED
      BY <3>3, <3>4, Zenon
  <2>6. \A x \in Resident : AttemptShape(x)'
    BY <1>1, <1>2, <2>1, <2>2 DEF CredInv, TypeOK, CallInv, row, AttemptShape
  <2>7. \A p \in sent' : RequestShape(p)'
    BY <1>1, <2>1, <2>2, RequestFields, ZenonT(60) DEF CredInv, TypeOK, CallInv, row, RequestShape
  <2> QED
    BY <2>2, <2>3, <2>4, <2>5, <2>6, <2>7, Zenon DEF CredInv, TableInv, CallInv, GrantShape, row
<1>5. CASE ~Proposable(q)
  <2>1. UNCHANGED <<state, owner, rotates, grant, consumed, enrolled, replaced, row, up, attempt,
                    sent, authorized>>
    BY <1>5, Zenon DEF proposeRotation
  <2>2. TypeOK'
    BY <1>2, <2>1, Zenon DEF CredInv, TypeOK, row
  <2>3. TableInv'
    BY <2>1, TablesStutter, Zenon DEF CredInv
  <2>4. \A x \in Resident : AttemptShape(x)'
    <3>1. ok => state[pending[r]] # "none"
      BY <1>3, <1>5, Zenon DEF Reproposed
    <3> HIDE DEF ok
    <3> QED
      BY <1>1, <1>2, <2>1, <3>1 DEF CredInv, CallInv, row, AttemptShape
  <2> QED
    BY <2>1, <2>2, <2>3, <2>4, Zenon DEF CredInv, CallInv, RequestShape, row
<1> QED
  BY <1>4, <1>5, Zenon

\* activateRotation(): the pending credential takes the old one's place, at the
\* Gateway, in one transaction.
LEMMA ActivateInv ==
  ASSUME CredInv, NEW q \in sent, NEW d \in BOOLEAN, activateRotation(q, d)
  PROVE  CredInv'
<1> USE NullAssumption
<1> DEFINE r == q.r
           new == q.new
           old == rotates[new]
           ok == Activatable(q) \/ Reactivated(q)
<1>1. /\ q \in Request /\ r \in Resident /\ new \in Cred
      /\ q.kind = "activate" /\ RequestShape(q) /\ RowShape(r) /\ CredentialShape(new)
  BY RequestFields, Zenon DEF CredInv, TypeOK, CallInv, TableInv, activateRotation
<1>2. /\ reply' \in [Resident -> {"none", "ok", "error"}]
      /\ \A x \in Resident :
           \/ reply'[x] = reply[x]
           \/ x = r /\ attempt[x] = q /\ reply'[x] # "none" /\ (reply'[x] = "ok" => ok)
  <2>1. Answer(q, ok, d) /\ ok \in BOOLEAN
    BY Zenon DEF activateRotation, Activatable, Reactivated
  <2> HIDE DEF ok
  <2> QED
    BY <1>1, <2>1, AnswerIs DEF CredInv
<1>3. CASE Activatable(q)
  <2>1. /\ phase[r] = "rotating" /\ r \in proposed /\ pending[r] = new /\ active[r] = old
        /\ old \in Cred /\ new # old /\ owner[new] = r /\ owner[old] = r
        /\ state[new] = "pending" /\ state[old] = "active"
        /\ replaced[new] = NoCred /\ replaced[old] = NoCred
    BY <1>1, <1>3, ZenonT(30) DEF Activatable, RequestShape, RowShape, CredentialShape
  <2> HIDE DEF old
  <2>2. /\ state' = [state EXCEPT ![new] = "active", ![old] = "revoked"]
        /\ replaced' = [replaced EXCEPT ![old] = new]
        /\ UNCHANGED <<grant, consumed, enrolled, owner, rotates, row, up, attempt, sent,
                       authorized>>
    BY <1>3, Zenon DEF activateRotation, old
  <2>3. rotates[new] = old
    BY Zenon DEF old
  <2>4. TypeOK'
    BY <1>1, <1>2, <2>1, <2>2, Zenon DEF CredInv, TypeOK, row
  <2>a. /\ state'[new] = "active" /\ state'[old] = "revoked" /\ replaced'[old] = new
        /\ \A y \in Cred : y \notin {new, old} => state'[y] = state[y]
        /\ \A y \in Cred : y # old => replaced'[y] = replaced[y]
    BY <1>1, <2>1, <2>2 DEF CredInv, TypeOK
  <2>5. \A x \in Resident : RowShape(x)'
    <3>1. ASSUME NEW x \in Resident, x # r PROVE RowShape(x)'
      <4>1. RowShape(x) /\ new \notin {active[x], pending[x]} /\ old \notin {active[x], pending[x]}
        BY <1>1, <2>1, <3>1, NamesItsOwn DEF CredInv, TableInv
      <4>2. \A y \in Cred : y \in {active[x], pending[x]} =>
              /\ state'[y] = state[y] /\ owner'[y] = owner[y]
              /\ rotates'[y] = rotates[y] /\ replaced'[y] = replaced[y]
        BY <2>2, <2>a, <4>1, ZenonT(30)
      <4> QED
        BY <2>2, <3>1, <4>1, <4>2, RowFrame, ZenonT(30)
    <3>2. RowShape(r)'
      BY <1>1, <2>1, <2>2, <2>3, <2>a DEF CredInv, row, RowShape
    <3> QED
      BY <3>1, <3>2, Zenon
  <2>6. \A x \in Cred : CredentialShape(x)'
    <3>1. \A x \in Cred : state[x] = "pending" /\ rotates[x] = old => x = new
      <4> SUFFICES ASSUME NEW x \in Cred, state[x] = "pending", rotates[x] = old PROVE x = new
        OBVIOUS
      <4> DEFINE o == owner[x]
      <4>1. o \in Resident /\ phase[o] = "rotating" /\ pending[o] = x
        <5>1. CredentialShape(x) /\ state[x] # "none"
          BY Zenon DEF CredInv, TableInv
        <5> QED
          BY <5>1, Zenon DEF CredentialShape
      <4>2. rotates[x] = active[o] /\ active[o] \in Cred /\ owner[active[o]] = o
        <5>1. RowShape(o)
          BY <4>1, Zenon DEF CredInv, TableInv
        <5>2. phase[o] \in {"active", "rotating"} /\ state[pending[o]] # "none"
          BY <4>1, ZenonT(30)
        <5> HIDE DEF o
        <5> QED
          BY <4>1, <5>1, <5>2, Zenon DEF RowShape
      <4> QED
        BY <2>1, <4>1, <4>2, Zenon
    <3>2. ASSUME NEW x \in Cred, x \notin {new, old} PROVE CredentialShape(x)'
      BY <2>1, <2>2, <2>a, <3>1, <3>2 DEF CredInv, TypeOK, TableInv, row, CredentialShape
    <3>3. ASSUME NEW x \in Cred, x \in {new, old} PROVE CredentialShape(x)'
      <4>1. rotates[old] # NoCred => state'[rotates[old]] # "none"
        BY SMTT(30), <2>1, <2>a DEF CredInv, TypeOK, TableInv, CredentialShape
      <4>a. UNCHANGED <<owner, rotates, phase, active, pending>>
        BY <2>2, Zenon DEF row
      <4>2. CASE x = new
        <5>1. /\ state'[new] = "active" /\ owner'[new] = r /\ pending'[r] = new
              /\ replaced'[new] = NoCred /\ rotates'[new] = old
              /\ state'[old] = "revoked" /\ replaced'[old] = new
          BY <1>1, <2>1, <2>3, <2>a, <4>a, Zenon
        <5> QED
          BY <1>1, <4>2, <5>1, Zenon DEF CredentialShape
      <4>3. CASE x = old
        <5>1. /\ state'[old] = "revoked" /\ owner'[old] = r
              /\ replaced'[old] = new /\ rotates'[new] = old
              /\ rotates'[old] # NoCred => state'[rotates'[old]] # "none"
          BY <2>1, <2>3, <2>a, <4>1, <4>a, ZenonT(30)
        <5> QED
          BY <1>1, <4>3, <5>1, Zenon DEF CredentialShape
      <4> QED
        BY <3>3, <4>2, <4>3, ZenonT(30)
    <3> QED
      BY <3>2, <3>3, ZenonT(30)
  <2>7. \A x \in Resident : AttemptShape(x)'
    <3>1. \A y \in Cred : /\ state[y] # "none" => state'[y] # "none"
                          /\ state[y] = "revoked" => y \notin {new, old}
      BY <2>1, <2>a, ZenonT(30)
    <3>2. ASSUME NEW x \in Resident, reply'[x] = reply[x] PROVE AttemptShape(x)'
      BY <2>2, <2>a, <3>1, <3>2, AttemptFrame, ZenonT(30) DEF CredInv, TableInv, CallInv
    <3>3. ASSUME attempt[r] = q PROVE AttemptShape(r)'
      BY <1>1, <2>1, <2>2, <2>a, <3>3, Answered, ZenonT(30) DEF CredInv, CallInv
    <3> QED
      BY <1>2, <3>2, <3>3, Zenon
  <2>8. \A p \in sent' : RequestShape(p)'
    BY <1>1, <2>1, <2>2, RequestFields DEF CredInv, TypeOK, CallInv, row, RequestShape
  <2> QED
    BY <2>2, <2>4, <2>5, <2>6, <2>7, <2>8, Zenon DEF CredInv, TableInv, CallInv, GrantShape, row
<1>4. CASE ~Activatable(q)
  <2>1. UNCHANGED <<state, replaced, grant, consumed, enrolled, owner, rotates, row, up, attempt,
                    sent, authorized>>
    BY <1>4, Zenon DEF activateRotation
  <2>2. TypeOK'
    BY <1>2, <2>1, Zenon DEF CredInv, TypeOK, row
  <2>3. TableInv'
    BY <2>1, TablesStutter, Zenon DEF CredInv
  <2>4. \A x \in Resident : AttemptShape(x)'
    <3>1. ok /\ attempt[r] = q => state[active[r]] = "revoked" /\ replaced[active[r]] = pending[r]
      BY <1>1, <1>4 DEF Reactivated, CredInv, TypeOK, CallInv, AttemptShape, RowShape
    <3> HIDE DEF ok
    <3>2. ASSUME NEW x \in Resident, reply'[x] = reply[x] PROVE AttemptShape(x)'
      BY <2>1, <3>2, AttemptFrame, Zenon DEF CredInv, TableInv, CallInv
    <3>3. ASSUME attempt[r] = q, reply'[r] = "ok" => ok PROVE AttemptShape(r)'
      <4>1. AttemptShape(r) /\ attempt[r] # NoRequest
        BY <1>1, <3>3, NullAssumption, Zenon DEF CredInv, CallInv
      <4> QED
        BY <1>1, <2>1, <3>1, <3>3, <4>1, Answered, ZenonT(30)
    <3> QED
      BY <1>2, <3>2, <3>3, ZenonT(30)
  <2> QED
    BY <2>1, <2>2, <2>3, <2>4, ZenonT(30) DEF CredInv, CallInv, RequestShape, row
<1> QED
  BY <1>3, <1>4, Zenon

\* The operator revokes a credential.
LEMMA RevokeInv ==
  ASSUME CredInv, NEW c \in Cred, revokeCredential(c)
  PROVE  CredInv'
<1> USE NullAssumption
<1>1. /\ state[c] \in {"pending", "active"} /\ state' = [state EXCEPT ![c] = "revoked"]
      /\ UNCHANGED <<grant, consumed, enrolled, owner, rotates, replaced, row, control, sent,
                     authorized>>
  BY Zenon DEF revokeCredential
<1>2. TypeOK'
  BY <1>1, ZenonT(30) DEF CredInv, TypeOK, row, control
<1>3. \A x \in Resident : RowShape(x)'
  BY SMTT(30), <1>1 DEF CredInv, TypeOK, TableInv, row, RowShape, CredentialShape
<1>4. \A x \in Cred : CredentialShape(x)'
  BY SMTT(30), <1>1 DEF CredInv, TypeOK, TableInv, row, CredentialShape
<1>5. \A x \in Resident : AttemptShape(x)'
  <2>1. \A y \in Cred : /\ state[y] # "none" => state'[y] # "none"
                        /\ state[y] = "revoked" => state'[y] = "revoked"
    BY <1>1 DEF CredInv, TypeOK
  <2>2. UNCHANGED <<row, sent, enrolled, replaced, attempt, reply>>
    BY <1>1, Zenon DEF control
  <2> QED
    BY <2>1, <2>2, AttemptFrame, Zenon DEF CredInv, TableInv, CallInv
<1>6. \A p \in sent' : RequestShape(p)'
  BY <1>1, RequestFields, ZenonT(30) DEF CredInv, TypeOK, CallInv, row, RequestShape
<1> QED
  BY <1>1, <1>2, <1>3, <1>4, <1>5, <1>6, Zenon DEF CredInv, TableInv, CallInv, GrantShape, row

-----------------------------------------------------------------------------
\* The invariant of rows, requests and Gateway tables holds in every reachable
\* state, for any residents, grants and credentials and any number of lost,
\* late or repeated requests, crashes and revocations.
THEOREM CredentialInvariance == Spec => []CredInv
<1>1. Init => CredInv
  BY NullAssumption DEF Init, CredInv, TypeOK, TableInv, CallInv, RowShape, AttemptShape,
    CredentialShape, GrantShape, Phase
<1>2. CredInv /\ [Next]_vars => CredInv'
  <2> SUFFICES ASSUME CredInv, [Next]_vars PROVE CredInv'
    BY Zenon
  <2>1. ASSUME NEW r \in Resident, Boots(r) PROVE CredInv'
    BY <2>1, BootIdleInv, ResumeInv, Zenon DEF Boots
  <2>2. ASSUME NEW r \in Resident, Triggers(r) PROVE CredInv'
    BY <2>2, TriggerInv, ResumeInv, Zenon DEF Triggers
  <2>3. ASSUME NEW r \in Resident, Returns(r) PROVE CredInv'
    BY <2>3, EnrollReturnsInv, ProposeReturnsInv, ActivateReturnsInv, Zenon DEF Returns
  <2>4. ASSUME NEW r \in Resident, AttemptFails(r) \/ Crash(r) PROVE CredInv'
    BY <2>4, FailInv, Zenon
  <2>5. ASSUME NEW q \in sent, Handles(q) PROVE CredInv'
    BY <2>5, EnrollInv, AuthorizeInv, ProposeInv, ActivateInv, Zenon DEF Handles
  <2>6. CASE Operator
    BY <2>6, GrantInv, RevokeInv, Zenon DEF Operator
  <2>7. CASE UNCHANGED vars
    <3>1. UNCHANGED <<row, sent, authorized, attempt, reply, up, grant, consumed, enrolled, state,
                      owner, rotates, replaced>>
      BY <2>7, Zenon DEF vars, gateway, control
    <3>2. TypeOK'
      BY <3>1, Zenon DEF CredInv, TypeOK, row
    <3>3. TableInv'
      BY <3>1, TablesStutter, Zenon DEF CredInv
    <3>4. CallInv'
      BY <3>1, AttemptFrame, Zenon DEF CredInv, TableInv, CallInv, RequestShape, row
    <3> QED
      BY <3>2, <3>3, <3>4, Zenon DEF CredInv
  <2> QED
    BY <2>1, <2>2, <2>3, <2>4, <2>5, <2>6, <2>7, Zenon DEF Next
<1> QED
  BY <1>1, <1>2, PTL DEF Spec

\* A lost reply, a replay or a restart never locks a resident out: unless the
\* operator revoked one of its credentials, its row names a credential the
\* Gateway accepts, or the rotation step its row holds is accepted.
THEOREM NeverLockedOut == Spec => []NoLockout
<1> USE NullAssumption
<1>1. CredInv => NoLockout
  <2> SUFFICES ASSUME CredInv, NEW r \in Resident, ~OperatorRevoked(r)
      PROVE  /\ phase[r] = "active" => state[active[r]] = "active" /\ owner[active[r]] = r
             /\ phase[r] = "rotating" => RotationAccepted(r)
    BY Zenon DEF NoLockout
  <2>1. RowShape(r) /\ \A c \in Cred : CredentialShape(c)
    BY Zenon DEF CredInv, TableInv
  <2>2. phase[r] = "active" => state[active[r]] = "active" /\ owner[active[r]] = r
    BY <2>1, Zenon DEF RowShape, OperatorRevoked
  <2>3. ASSUME phase[r] = "rotating", r \in proposed PROVE RotationAccepted(r)
    <3> DEFINE old == active[r]
               new == pending[r]
    <3>1. /\ old \in Cred /\ owner[old] = r /\ state[old] \in {"active", "revoked"}
          /\ new \in Cred /\ replaced[new] = NoCred /\ state[new] # "none"
          /\ rotates[new] = old /\ owner[new] = r
      BY <2>1, <2>3, Zenon DEF RowShape
    <3>2. CredentialShape(new) /\ state[new] \in {"none", "pending", "active", "revoked"}
      BY <2>1, <3>1, Zenon DEF CredInv, TypeOK
    <3> HIDE DEF old, new
    <3>3. /\ state[new] # "revoked"
          /\ state[old] = "revoked" => replaced[old] # NoCred
      <4>1. \A c \in Cred : owner[c] = r /\ state[c] = "revoked" => replaced[c] # NoCred
        BY Zenon DEF OperatorRevoked
      <4> QED
        BY <3>1, <4>1, Zenon
    <3>a. Activation(r, new).new = new
      BY SMT DEF Activation
    <3>4. CASE state[new] = "pending"
      <4>1. state[old] = "active"
        BY <3>1, <3>2, <3>3, <3>4, Zenon DEF CredentialShape
      <4> QED
        BY <2>3, <3>1, <3>4, <3>a, <4>1, ZenonT(30) DEF RotationAccepted, Activatable, new
    <3>5. CASE state[new] = "active"
      <4>1. state[old] = "revoked" /\ replaced[old] = new /\ old # NoCred
        BY <3>1, <3>2, <3>5, Zenon DEF CredentialShape
      <4> QED
        BY <2>3, <3>1, <3>5, <3>a, <4>1, ZenonT(30) DEF RotationAccepted, Reactivated, new
    <3> QED
      BY <3>1, <3>2, <3>3, <3>4, <3>5, Zenon
  <2>4. ASSUME phase[r] = "rotating", r \notin proposed PROVE RotationAccepted(r)
    BY <2>1, <2>4 DEF CredInv, TypeOK, TableInv, RowShape, CredentialShape, OperatorRevoked,
      RotationAccepted, Proposable, Reproposed, Proposal
  <2> QED
    BY <2>2, <2>3, <2>4, Zenon
<1> QED
  BY <1>1, CredentialInvariance, PTL

\* Every pending or active credential of the Gateway is one that the row of its
\* resident still holds.
THEOREM NoAuthorityOrphaned == Spec => []NoOrphanAuthority
<1>1. CredInv => NoOrphanAuthority
  BY Zenon DEF CredInv, TableInv, CredentialShape, NoOrphanAuthority
<1> QED
  BY <1>1, CredentialInvariance, PTL
==============================================================================

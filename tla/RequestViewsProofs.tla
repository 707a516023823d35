------------------------- MODULE RequestViewsProofs -------------------------
(***************************************************************************)
(* Proofs about RequestViews (and the ContextGraph it extends), for any    *)
(* worlds, branches, events, layers and bounds.                            *)
(*                                                                         *)
(* The properties the runs check are not inductive.  GraphInv adds what    *)
(* they rest on, one part per group of tables:                             *)
(*  - LineInv: branches, starts and the continuation line name each other, *)
(*    and a coordinated branch that yielded is on the line;                *)
(*  - EffectInv: an ended branch has no prepared effect, and one on the    *)
(*    line has a receipt of all of its effects;                            *)
(*  - WorldInv: every reference leads to an earlier row of its own world;  *)
(*  - IngressInv and ProfileInv: admissions, projections, layers,          *)
(*    approvals, profiles and heads as their readers want them;            *)
(*  - ViewInv: views, bindings, attempts and abandonments as theirs do.    *)
(* For each part a frame says which changes preserve it (EffectFrame,      *)
(* WorldFrame, ViewFrame); an operation is then shown to make only those.  *)
(***************************************************************************)
EXTENDS RequestViews, WellFoundedInduction, FiniteSetTheorems, TLAPS

\* Leaves go to Zenon unless they name another prover.
USE ZenonT(30)

\* Some branch of the continuation line.
Advanced(b) == \E r \in DOMAIN advances : advances[r].branch = b

\* The line of branches: every start and every advance names a branch, and a
\* coordinated branch that yielded is on the line (nothing but its return ends
\* it so).
LineInv ==
  /\ DOMAIN branches \subseteq BranchIds /\ \A b \in DOMAIN branches : BranchReads(b)
  /\ \E n \in Nat : \A b \in DOMAIN branches : branches[b].epoch <= n
  /\ DOMAIN starts \subseteq DOMAIN branches /\ \A b \in DOMAIN starts : StartReads(b)
  /\ coordinator \in CoordinatorState
  /\ head \in [branch : BranchIds \cup {None}, revision : Nat]
  /\ advances \in Seq([pred : BranchIds \cup {None}, branch : BranchIds])
  /\ \A r \in DOMAIN advances : advances[r].branch \in DOMAIN branches
  /\ \A b \in DOMAIN starts : branches[b].status = "yielded" => Advanced(b)
  /\ Attached

\* No effect of the branch may still change.
Settled(b) == \A x \in DOMAIN effects : effects[x].branch = b => effects[x].status # "prepared"

\* A receipt of the branch lists all of its effects.
Receipted(b) ==
  \E c \in DOMAIN capsules : /\ capsules[c].branch = b /\ capsules[c].kind = "root_receipt"
                             /\ capsules[c].receipts = EffectReceipts(b)

\* What branches leave behind names branches and stays in range; an ended
\* branch is settled and a coordinated one on the line has its receipt.
EffectInv ==
  /\ DOMAIN effects \subseteq EffectIds /\ \A x \in DOMAIN effects : EffectReads(x)
  /\ capsules \in Seq(CapsuleRecord) /\ Len(capsules) <= MaxCapsules
  /\ \A c \in DOMAIN capsules : CapsuleReads(c)
  /\ \A b \in DOMAIN branches : branches[b].status # "running" => Settled(b)
  /\ \A b \in DOMAIN starts : Advanced(b) => Receipted(b)

\* Only scoped worlds have events.
ScopedEvent == [world : Worlds, kind : {"inbound", "other"}]

\* A row whose references are rows, all of its own world.
StartGood(b) == branches[b].world \in Worlds

\* A parent is a branch of the same world.
BranchGood(b) ==
  branches[b].parent # None =>
    /\ branches[b].parent \in DOMAIN branches
    /\ branches[branches[b].parent].world = branches[b].world

\* Parents are earlier capsules of the same world.
CapsuleGood(c) == \A p \in capsules[c].parents : p < c /\ CapsuleWorld(p) = CapsuleWorld(c)

\* A manifest selects stored events and grants for a started branch.
ManifestGood(b) ==
  /\ b \in DOMAIN starts /\ ManifestReads(b)
  /\ \A i \in DOMAIN manifests[b].events : manifests[b].events[i] \in DOMAIN events
  /\ \A i \in DOMAIN manifests[b].shares : manifests[b].shares[i] \in DOMAIN grants

\* A view renders the events of the manifest, with layers of its world.
ViewGood(b) ==
  /\ b \in DOMAIN manifests /\ views[b].messages = manifests[b].events
  /\ \A i \in DOMAIN views[b].layers : views[b].layers[i].world \in {None, branches[b].world}

\* What is read from one world was written there.
WorldInv ==
  /\ events \in Seq(ScopedEvent) /\ Len(events) <= MaxEvents
  /\ DOMAIN grants \subseteq GrantIds /\ \A g \in DOMAIN grants : GrantReads(g)
  /\ \A b \in DOMAIN starts : StartGood(b)
  /\ \A b \in DOMAIN branches : BranchGood(b)
  /\ \A c \in DOMAIN capsules : CapsuleGood(c)
  /\ \A b \in DOMAIN manifests : ManifestGood(b)
  /\ \A b \in DOMAIN views : ViewGood(b)

\* Only inbound events are admitted and rendered.
AdmissionGood(e) ==
  e \in DOMAIN events /\ events[e].kind = "inbound" /\ admissions[e] \in Renderers

\* A projection renders an inbound event.
ProjectionGood(p) ==
  p[1] \in DOMAIN events /\ events[p[1]].kind = "inbound" /\ p[2] \in Renderers

\* Admissions and projections are of inbound events.
IngressInv ==
  /\ \A e \in DOMAIN admissions : AdmissionGood(e)
  /\ \A p \in projections : ProjectionGood(p)

\* The system layers, their approvals and the profiles made of them.
ProfileGood(p) ==
  p.world \in Worlds /\ p.renderer \in Nat /\ p.policy \in Nat /\ ProfileReads(p)

\* Layers, approvals, profiles and heads read back.
ProfileInv ==
  /\ layers \subseteq Layers /\ \A layer \in layers : LayerReads(layer)
  /\ \A a \in approvals : ApprovalReads(a)
  /\ \A p \in profiles : ProfileGood(p)
  /\ DOMAIN profileHeads = Worlds
  /\ \A w \in Worlds : profileHeads[w] \in Seq(profiles) /\ HeadReads(w)

\* The request views and what pins them.
ViewInv ==
  /\ \A b \in DOMAIN views : views[b].layers \in Seq(layers) /\ ViewReads(b)
  /\ \A b \in DOMAIN bindings : BindingReads(b)
  /\ \A b \in DOMAIN attempts : b \in DOMAIN bindings /\ AttemptReads(b)
  /\ \A b \in abandoned : AbandonmentReads(b)

-----------------------------------------------------------------------------
(* Numbers, tables and sequences.                                          *)

\* A nonempty set of numbers has a least element.
LEMMA HasMin == ASSUME NEW S, S \subseteq Nat, S # {} PROVE \E m \in S : \A n \in S : m <= n
<1>1. PICK x \in S : \A y \in S : ~(<<y, x>> \in OpToRel(<, Nat))
  BY NatLessThanWellFounded, WFMin
<1>2. \A y \in S : y \in Nat /\ x \in Nat /\ ~(y < x)
  BY <1>1 DEF OpToRel
<1>3. \A y \in S : x <= y
  <2> TAKE y \in S
  <2> QED
    BY <1>2, SMT
<1> QED
  BY <1>1, <1>3

\* The greatest element of a bounded nonempty set is one of its elements.
LEMMA MaxIs ==
  ASSUME NEW b \in Nat, NEW S, S \subseteq 0..b, S # {}
  PROVE  Max(S) \in S /\ \A n \in S : n <= Max(S)
<1> DEFINE gaps == {b - n : n \in S}
<1>0. \A n \in S : n \in 0..b /\ b - n \in Nat
  <2> TAKE n \in S
  <2> QED
    BY SMT
<1>1. gaps \subseteq Nat /\ gaps # {}
  BY <1>0
<1>2. PICK g \in gaps : \A h \in gaps : g <= h
  <2> HIDE DEF gaps
  <2> QED
    BY <1>1, HasMin
<1>3. PICK m \in S : g = b - m
  OBVIOUS
<1>4. \A n \in S : b - m <= b - n
  BY <1>2, <1>3, SMT
<1>5. \A n \in S : m >= n
  <2> TAKE n \in S
  <2>1. n \in 0..b /\ m \in 0..b /\ b - m <= b - n
    BY <1>0, <1>4
  <2> QED
    BY <2>1, SMT
<1>6. Max(S) \in S /\ \A n \in S : Max(S) >= n
  BY <1>3, <1>5 DEF Max
<1>7. \A n \in S : n <= Max(S)
  <2> TAKE n \in S
  <2>1. n \in 0..b /\ Max(S) \in 0..b /\ Max(S) >= n
    BY <1>6
  <2> QED
    BY <2>1, SMT
<1> QED
  BY <1>6, <1>7

-----------------------------------------------------------------------------
(* The line of branches.                                                   *)

\* The parent of a new branch is a branch of its world.
LEMMA LocalParentIs ==
  ASSUME LineInv, NEW w
  PROVE  \/ LocalParent(w) = None
         \/ LocalParent(w) \in DOMAIN branches /\ branches[LocalParent(w)].world = w
<1> DEFINE own == {r \in DOMAIN advances : branches[advances[r].branch].world = w}
<1>1. own = {} => LocalParent(w) = None
  BY DEF LocalParent
<1>2. own # {} => LocalParent(w) = advances[Max(own)].branch
  BY DEF LocalParent
<1>3. Len(advances) \in Nat /\ own \subseteq 0..Len(advances)
  BY SMT DEF LineInv
<1>4. own # {} => Max(own) \in own
  <2> HIDE DEF own
  <2> QED
    BY <1>3, MaxIs
<1>5. \A r \in own : advances[r].branch \in DOMAIN branches /\ branches[advances[r].branch].world = w
  BY DEF LineInv
<1> QED
  BY <1>1, <1>2, <1>4, <1>5

\* What opening a branch does.
LEMMA OpenIs ==
  ASSUME LineInv, NEW b, NEW w, NEW epoch, OpenBranch(b, w, epoch)
  PROVE  /\ b \notin DOMAIN branches /\ b \notin DOMAIN starts
         /\ DOMAIN branches' = DOMAIN branches \cup {b}
         /\ branches'[b] = [world |-> w, parent |-> LocalParent(w), epoch |-> epoch,
                            status |-> "running"]
         /\ \A c \in DOMAIN branches : branches'[c] = branches[c]
         /\ DOMAIN starts' = DOMAIN starts \cup {b}
         /\ starts'[b] = [base |-> head.revision, pred |-> head.branch]
         /\ \A c \in DOMAIN starts : starts'[c] = starts[c]
<1>1. b \notin DOMAIN branches /\ b \notin DOMAIN starts
  BY DEF LineInv, OpenBranch, CanInsertBranch
<1> DEFINE row == [world |-> w, parent |-> LocalParent(w), epoch |-> epoch, status |-> "running"]
           start == [base |-> head.revision, pred |-> head.branch]
<1>2. branches' = Insert(branches, b, row) /\ starts' = Insert(starts, b, start)
  BY DEF OpenBranch
<1>3. /\ DOMAIN branches' = DOMAIN branches \cup {b} /\ branches'[b] = row
      /\ \A c \in DOMAIN branches : branches'[c] = branches[c]
  <2> HIDE DEF row
  <2> QED
    BY <1>1, <1>2 DEF Insert
<1>4. /\ DOMAIN starts' = DOMAIN starts \cup {b} /\ starts'[b] = start
      /\ \A c \in DOMAIN starts : starts'[c] = starts[c]
  <2> HIDE DEF start
  <2> QED
    BY <1>1, <1>2 DEF Insert
<1> QED
  BY <1>1, <1>3, <1>4

\* beginCoordinatedBranch() puts the new branch at the coordinator.
LEMMA OpenLine ==
  ASSUME LineInv, NEW b \in BranchIds, NEW w \in AllWorlds, NEW epoch \in Nat,
         OpenBranch(b, w, epoch), UNCHANGED <<head, advances>>
  PROVE  LineInv'
<1> USE GraphAssumption
<1>1. /\ b \notin DOMAIN branches /\ b \notin DOMAIN starts
      /\ DOMAIN branches' = DOMAIN branches \cup {b}
      /\ branches'[b] = [world |-> w, parent |-> LocalParent(w), epoch |-> epoch,
                         status |-> "running"]
      /\ \A c \in DOMAIN branches : branches'[c] = branches[c]
  BY OpenIs
<1>2. /\ DOMAIN starts' = DOMAIN starts \cup {b}
      /\ starts'[b] = [base |-> head.revision, pred |-> head.branch]
      /\ \A c \in DOMAIN starts : starts'[c] = starts[c]
  BY OpenIs
<1>3. /\ coordinator.active = None /\ coordinator.base = head.revision
      /\ coordinator.pred = head.branch /\ Running = {}
      /\ coordinator' = [coordinator EXCEPT !.active = b]
  BY DEF OpenBranch, CoordinatorAtHead, CanInsertBranch
<1>4. LocalParent(w) \in BranchIds \cup {None}
  BY LocalParentIs DEF LineInv
<1>5. /\ coordinator'.active = b /\ coordinator'.base = head.revision
      /\ coordinator'.pred = head.branch /\ coordinator' \in CoordinatorState
  BY <1>3, SMT DEF LineInv, CoordinatorState
<1>6. DOMAIN branches' \subseteq BranchIds /\ \A c \in DOMAIN branches' : BranchReads(c)'
  BY <1>1, <1>4, SMT DEF LineInv, BranchReads, BranchRecord
<1>7. \E n \in Nat : \A c \in DOMAIN branches' : branches'[c].epoch <= n
  <2>1. PICK n \in Nat : \A c \in DOMAIN branches : branches[c].epoch <= n
    BY DEF LineInv
  <2>2. \A c \in DOMAIN branches : branches[c].epoch \in Nat
    BY SMT DEF LineInv, BranchReads, BranchRecord
  <2>3. \A c \in DOMAIN branches' : branches'[c].epoch <= n + epoch
    BY <1>1, <2>1, <2>2, SMTT(30)
  <2> QED
    BY <2>3, SMT
<1>8. DOMAIN starts' \subseteq DOMAIN branches' /\ \A c \in DOMAIN starts' : StartReads(c)'
  <2>1. head.branch # None => head.branch \in DOMAIN branches
    BY SMT DEF LineInv, Attached
  <2> QED
    BY <1>1, <1>2, <2>1, SMTT(30) DEF LineInv, StartReads, StartRecord
<1>9. Running' = {b}
  BY <1>1, <1>3, SMTT(30) DEF Running
<1>10. \A c \in DOMAIN starts' : branches'[c].status = "yielded" => Advanced(c)'
  BY <1>1, <1>2, SMT DEF LineInv, Advanced
<1>11. \A r \in DOMAIN advances : branches'[advances[r].branch] = branches[advances[r].branch]
  BY <1>1 DEF LineInv
<1>12. Attached'
  <2>1. CanRecover' /\ CoordinatorAtHead'
    BY <1>2, <1>5, <1>9 DEF CanRecover, CoordinatorAtHead, StartedAtHead
  <2>2. \A r \in DOMAIN advances :
          /\ advances[r].pred = IF r = 1 THEN None ELSE advances[r - 1].branch
          /\ branches'[advances[r].branch].status = "yielded"
          /\ \A q \in 1..(r - 1) : advances[q].branch # advances[r].branch
    BY <1>11 DEF LineInv, Attached
  <2>3. /\ head.revision = Len(advances)
        /\ head.branch = IF advances = << >> THEN None ELSE advances[Len(advances)].branch
    BY DEF LineInv, Attached
  <2> QED
    BY <1>1, <1>5, <1>9, <2>1, <2>2, <2>3 DEF Attached
<1> QED
  BY <1>1, <1>5, <1>6, <1>7, <1>8, <1>10, <1>12 DEF LineInv

\* The head moves to a branch that has yielded, in this step or before.
LEMMA MoveLine ==
  ASSUME LineInv, NEW b \in DOMAIN branches, HeadMayMove(b), MoveHead(b),
         UNCHANGED starts, DOMAIN branches' = DOMAIN branches,
         \A c \in DOMAIN branches : c # b => branches'[c] = branches[c],
         branches'[b] \in BranchRecord, branches'[b].epoch = branches[b].epoch,
         branches'[b].status = "yielded"
  PROVE  LineInv'
<1> USE GraphAssumption
<1> DEFINE n == Len(advances)
           step == [pred |-> head.branch, branch |-> b]
           Advances == [pred : BranchIds \cup {None}, branch : BranchIds]
<1>0. b \in BranchIds /\ b # None
  BY DEF LineInv
<1>1. /\ head \in [branch : BranchIds \cup {None}, revision : Nat] /\ head.revision = n
      /\ head.branch = IF advances = << >> THEN None ELSE advances[n].branch
  BY DEF LineInv, Attached
<1>2. /\ advances' = Append(advances, step)
      /\ head' = [branch |-> b, revision |-> n + 1]
      /\ coordinator' = [active |-> None, base |-> n + 1, pred |-> b]
  BY <1>1 DEF MoveHead
<1>3. advances \in Seq(Advances) /\ n \in Nat /\ step \in Advances /\ DOMAIN advances = 1..n
  BY <1>0, <1>1, SMTT(30) DEF LineInv
<1>4. /\ advances' \in Seq(Advances) /\ Len(advances') = n + 1 /\ DOMAIN advances' = 1..(n + 1)
      /\ advances'[n + 1] = step /\ \A r \in 1..n : advances'[r] = advances[r]
      /\ advances' # << >>
  BY <1>2, <1>3, SMTT(30)
<1>5. /\ coordinator' \in CoordinatorState /\ coordinator'.active = None
      /\ coordinator'.base = n + 1 /\ coordinator'.pred = b
      /\ head' \in [branch : BranchIds \cup {None}, revision : Nat]
      /\ head'.branch = b /\ head'.revision = n + 1
  BY <1>0, <1>2, <1>3, SMTT(30) DEF CoordinatorState
<1>6. Running' = {}
  <2>0. IF coordinator.active = None THEN Running = {} ELSE Running = {coordinator.active}
    BY DEF LineInv, Attached
  <2>1. Running \subseteq {b}
    BY <2>0 DEF HeadMayMove
  <2> QED
    BY <2>1, SMT DEF Running
<1>7. /\ DOMAIN branches' \subseteq BranchIds /\ \A c \in DOMAIN branches' : BranchReads(c)'
      /\ \A c \in DOMAIN branches : branches'[c].epoch = branches[c].epoch
  BY DEF LineInv, BranchReads
<1>8. \E m \in Nat : \A c \in DOMAIN branches' : branches'[c].epoch <= m
  BY <1>7 DEF LineInv
<1>9. DOMAIN starts' \subseteq DOMAIN branches' /\ \A c \in DOMAIN starts' : StartReads(c)'
  BY DEF LineInv, StartReads
<1>10. \A r \in 1..(n + 1) : advances'[r].branch \in DOMAIN branches
  <2>1. \A r \in 1..n : advances[r].branch \in DOMAIN branches
    BY <1>3 DEF LineInv
  <2> QED
    BY <1>3, <1>4, <2>1, SMT
<1>11. \A c \in DOMAIN starts : branches'[c].status = "yielded" => Advanced(c)'
  <2> SUFFICES ASSUME NEW c \in DOMAIN starts, branches'[c].status = "yielded" PROVE Advanced(c)'
    BY SMT
  <2>1. CASE c = b
    BY <1>3, <1>4, <2>1, SMT DEF Advanced
  <2>2. CASE c # b
    <3>1. Advanced(c)
      BY <2>2 DEF LineInv
    <3> QED
      BY <1>3, <1>4, <3>1, SMT DEF Advanced
  <2> QED
    BY <2>1, <2>2
<1>12. ASSUME NEW r \in 1..(n + 1)
       PROVE  /\ advances'[r].pred = IF r = 1 THEN None ELSE advances'[r - 1].branch
              /\ branches'[advances'[r].branch].status = "yielded"
              /\ \A q \in 1..(r - 1) : advances'[q].branch # advances'[r].branch
  <2>1. CASE r \in 1..n
    <3>1. /\ advances[r].pred = IF r = 1 THEN None ELSE advances[r - 1].branch
          /\ branches[advances[r].branch].status = "yielded"
          /\ \A q \in 1..(r - 1) : advances[q].branch # advances[r].branch
      BY <1>3, <2>1 DEF LineInv, Attached
    <3>2. branches'[advances[r].branch].status = "yielded"
      BY <1>3, <2>1, <3>1 DEF LineInv
    <3>3. advances'[r] = advances[r] /\ \A q \in 1..(r - 1) : advances'[q] = advances[q]
      BY <1>3, <1>4, <2>1, SMTT(30)
    <3>4. r # 1 => r - 1 \in 1..(r - 1)
      BY <1>3, <2>1, SMT
    <3> QED
      BY <3>1, <3>2, <3>3, <3>4
  <2>2. CASE r = n + 1
    <3>1. advances'[r].branch = b /\ advances'[r].pred = head.branch
      BY <1>4, <2>2, SMTT(30)
    <3>2. /\ r = 1 <=> advances = << >>
          /\ r # 1 => r - 1 = n /\ n \in 1..n /\ advances'[r - 1] = advances[n]
      BY <1>3, <1>4, <2>2, SMT
    <3>3. \A q \in 1..(r - 1) : advances'[q].branch # b
      <4>1. 1..(r - 1) = 1..n
        BY <1>3, <2>2, SMT
      <4>2. \A q \in DOMAIN advances : advances[q].branch # b
        BY DEF HeadMayMove
      <4>3. \A q \in 1..n : advances'[q] = advances[q]
        BY <1>4
      <4> QED
        BY <1>3, <4>1, <4>2, <4>3
    <3> QED
      BY <1>1, <3>1, <3>2, <3>3
  <2> QED
    BY <1>3, <2>1, <2>2, SMT
<1>13. Attached'
  <2>1. advances'[Len(advances')].branch = b
    BY <1>4, SMT
  <2> QED
    BY <1>4, <1>5, <1>6, <1>12, <2>1 DEF Attached, CoordinatorAtHead
<1> QED
  BY <1>4, <1>5, <1>7, <1>8, <1>9, <1>10, <1>11, <1>13 DEF LineInv

\* advanceContinuationHead(): the coordinator is free, since the branch it would
\* hold is still running.
LEMMA AdvanceLine ==
  ASSUME LineInv, NEW b, NEW v, AdvanceContinuationHead(b, v)
  PROVE  LineInv'
<1>1. b \in DOMAIN branches /\ branches[b].status = "yielded" /\ HeadMayMove(b) /\ MoveHead(b)
      /\ UNCHANGED <<branches, starts>>
  BY DEF AdvanceContinuationHead
<1>2. branches'[b] \in BranchRecord
  BY <1>1 DEF LineInv, BranchReads
<1> QED
  BY <1>1, <1>2, MoveLine

\* completeCoordinatedBranch(): the branch yields and the head moves to it.
LEMMA CompleteLine ==
  ASSUME LineInv, NEW b, NEW ps, CompleteCoordinatedBranch(b, ps)
  PROVE  LineInv'
<1>1. b \in DOMAIN branches /\ HeadMayMove(b) /\ MoveHead(b) /\ UNCHANGED starts
      /\ branches' = [branches EXCEPT ![b].status = "yielded"]
  BY DEF CompleteCoordinatedBranch, Running
<1>2. branches[b] \in BranchRecord
  BY <1>1 DEF LineInv, BranchReads
<1>3. /\ DOMAIN branches' = DOMAIN branches
      /\ \A c \in DOMAIN branches : c # b => branches'[c] = branches[c]
      /\ branches'[b] = [branches[b] EXCEPT !.status = "yielded"]
  BY <1>1, SMT
<1>4. /\ branches'[b] \in BranchRecord /\ branches'[b].epoch = branches[b].epoch
      /\ branches'[b].status = "yielded"
  BY <1>2, <1>3, SMT DEF BranchRecord
<1> QED
  BY <1>1, <1>3, <1>4, MoveLine

\* recoverCoordinatedBranch(): the branch crashes, the head stays.
LEMMA RecoverLine ==
  ASSUME LineInv, RecoverCoordinatedBranch
  PROVE  LineInv'
<1> USE GraphAssumption
<1> DEFINE b == coordinator.active
<1>1. /\ b # None /\ b \in DOMAIN branches /\ branches[b].status = "running"
      /\ branches' = [branches EXCEPT ![b].status = "crashed"]
      /\ coordinator' = [coordinator EXCEPT !.active = None]
      /\ UNCHANGED <<starts, head, advances>>
  BY DEF RecoverCoordinatedBranch, CanRecover, Running
<1>2. branches[b] \in BranchRecord /\ coordinator \in CoordinatorState
  BY <1>1 DEF LineInv, BranchReads
<1> HIDE DEF b
<1>3. /\ DOMAIN branches' = DOMAIN branches
      /\ \A c \in DOMAIN branches : c # b => branches'[c] = branches[c]
      /\ branches'[b] = [branches[b] EXCEPT !.status = "crashed"]
  BY <1>1, SMT
<1>4. /\ branches'[b] \in BranchRecord /\ branches'[b].epoch = branches[b].epoch
      /\ branches'[b].status = "crashed"
  BY <1>2, <1>3, SMT DEF BranchRecord
<1>5. /\ coordinator' \in CoordinatorState /\ coordinator'.active = None
      /\ coordinator'.base = coordinator.base /\ coordinator'.pred = coordinator.pred
  BY <1>1, <1>2, SMT DEF CoordinatorState
<1>6. Running' = {}
  <2>1. Running = {b}
    BY <1>1 DEF LineInv, Attached, b
  <2> QED
    BY <1>3, <1>4, <2>1 DEF Running
<1>7. /\ DOMAIN branches' \subseteq BranchIds /\ \A c \in DOMAIN branches' : BranchReads(c)'
      /\ \A c \in DOMAIN branches : branches'[c].epoch = branches[c].epoch
  BY <1>3, <1>4 DEF LineInv, BranchReads
<1>8. \E m \in Nat : \A c \in DOMAIN branches' : branches'[c].epoch <= m
  BY <1>3, <1>7 DEF LineInv
<1>9. DOMAIN starts' \subseteq DOMAIN branches' /\ \A c \in DOMAIN starts' : StartReads(c)'
  BY <1>1, <1>3 DEF LineInv, StartReads
<1>10. \A c \in DOMAIN starts' : branches'[c].status = "yielded" => Advanced(c)'
  <2>1. \A c \in DOMAIN starts : c \in DOMAIN branches /\ (branches[c].status = "yielded" => Advanced(c))
    BY DEF LineInv
  <2>2. ASSUME NEW c \in DOMAIN starts, branches'[c].status = "yielded" PROVE Advanced(c)'
    <3>1. c # b
      BY <1>4, <2>2, SMT
    <3>2. branches'[c] = branches[c]
      BY <1>3, <2>1, <3>1
    <3>3. Advanced(c)
      BY <2>1, <2>2, <3>2
    <3> QED
      BY <1>1, <3>3 DEF Advanced
  <2>3. starts' = starts
    BY <1>1
  <2> QED
    BY <2>2, <2>3
<1>11. \A r \in DOMAIN advances : advances[r].branch # b
  BY <1>1 DEF LineInv, Attached
<1>12. \A r \in DOMAIN advances : branches'[advances[r].branch].status = "yielded"
  BY <1>3, <1>11 DEF LineInv, Attached
<1>13. Attached'
  <2>1. CoordinatorAtHead'
    BY <1>1, <1>5 DEF LineInv, Attached, CoordinatorAtHead
  <2>2. \A r \in DOMAIN advances :
          /\ advances[r].pred = IF r = 1 THEN None ELSE advances[r - 1].branch
          /\ \A q \in 1..(r - 1) : advances[q].branch # advances[r].branch
    BY DEF LineInv, Attached
  <2>3. /\ head.revision = Len(advances)
        /\ head.branch = IF advances = << >> THEN None ELSE advances[Len(advances)].branch
    BY DEF LineInv, Attached
  <2> QED
    BY <1>1, <1>5, <1>6, <1>12, <2>1, <2>2, <2>3 DEF Attached
<1> QED
  BY <1>1, <1>3, <1>5, <1>7, <1>8, <1>9, <1>10, <1>13 DEF LineInv

\* importLegacyArtifact(): a branch of its own, that has yielded.
LEMMA ImportLine ==
  ASSUME LineInv, NEW s, NEW b \in BranchIds, ImportLegacyArtifact(s, b)
  PROVE  LineInv'
<1> USE GraphAssumption
<1> DEFINE row == [world |-> Legacy, parent |-> None, epoch |-> 0, status |-> "yielded"]
<1>1. /\ b \notin DOMAIN branches /\ Running = {} /\ branches' = Insert(branches, b, row)
      /\ UNCHANGED <<starts, coordinator, head, advances>>
  BY DEF ImportLegacyArtifact, CanInsertBranch
<1>2. /\ row \in BranchRecord /\ row.epoch = 0 /\ row.status = "yielded"
  BY SMT DEF BranchRecord, AllWorlds
<1> HIDE DEF row
<1>3. /\ DOMAIN branches' = DOMAIN branches \cup {b} /\ branches'[b] = row
      /\ \A c \in DOMAIN branches : branches'[c] = branches[c]
  BY <1>1 DEF Insert
<1>4. Running' = {}
  BY <1>1, <1>2, <1>3, SMT DEF Running
<1>5. DOMAIN branches' \subseteq BranchIds /\ \A c \in DOMAIN branches' : BranchReads(c)'
  BY <1>2, <1>3 DEF LineInv, BranchReads
<1>6. \E n \in Nat : \A c \in DOMAIN branches' : branches'[c].epoch <= n
  <2>1. PICK n \in Nat : \A c \in DOMAIN branches : branches[c].epoch <= n
    BY DEF LineInv
  <2>2. row.epoch <= n
    BY <1>2, <2>1, SMT
  <2> QED
    BY <1>3, <2>1, <2>2
<1>7. DOMAIN starts' \subseteq DOMAIN branches' /\ \A c \in DOMAIN starts' : StartReads(c)'
  BY <1>1, <1>3 DEF LineInv, StartReads
<1>8. \A c \in DOMAIN starts' : branches'[c].status = "yielded" => Advanced(c)'
  <2>1. \A c \in DOMAIN starts : c \in DOMAIN branches /\ (branches[c].status = "yielded" => Advanced(c))
    BY DEF LineInv
  <2>2. \A c : Advanced(c)' <=> Advanced(c)
    BY <1>1 DEF Advanced
  <2>3. starts' = starts
    BY <1>1
  <2> QED
    BY <1>3, <2>1, <2>2, <2>3
<1>9. \A r \in DOMAIN advances : branches'[advances[r].branch] = branches[advances[r].branch]
  BY <1>3 DEF LineInv
<1>10. coordinator.active = None
  BY <1>1 DEF LineInv, Attached
<1>11. Attached'
  <2>1. CoordinatorAtHead'
    BY <1>1 DEF LineInv, Attached, CoordinatorAtHead
  <2>2. \A r \in DOMAIN advances :
          /\ advances[r].pred = IF r = 1 THEN None ELSE advances[r - 1].branch
          /\ branches'[advances[r].branch].status = "yielded"
          /\ \A q \in 1..(r - 1) : advances[q].branch # advances[r].branch
    BY <1>9 DEF LineInv, Attached
  <2>3. /\ head.revision = Len(advances)
        /\ head.branch = IF advances = << >> THEN None ELSE advances[Len(advances)].branch
    BY DEF LineInv, Attached
  <2> QED
    BY <1>1, <1>4, <1>10, <2>1, <2>2, <2>3 DEF Attached
<1> QED
  BY <1>1, <1>3, <1>5, <1>6, <1>7, <1>8, <1>11 DEF LineInv

\* Every other step leaves the line alone.
LEMMA StayLine ==
  ASSUME LineInv, UNCHANGED <<branches, starts, coordinator, head, advances>>
  PROVE  LineInv'
BY SMT DEF LineInv, BranchReads, StartReads, Advanced, Attached, Running, CanRecover,
   CoordinatorAtHead, StartedAtHead

-----------------------------------------------------------------------------
(* Effects and receipts.                                                   *)

\* What one step may do to the effects, the capsules, the end of a branch and
\* the line.  Each operation is shown to stay within these.
EffectStep ==
  /\ DOMAIN effects' \subseteq EffectIds /\ \A x \in DOMAIN effects' : EffectReads(x)'
  /\ \A x \in DOMAIN effects : x \in DOMAIN effects' /\ effects'[x].branch = effects[x].branch
                               /\ (effects[x].status # "prepared" => effects'[x] = effects[x])
  /\ \A x \in DOMAIN effects' \ DOMAIN effects : effects'[x].branch \in Running

\* Capsules are appended, never changed.
CapsuleStep ==
  /\ capsules' \in Seq(CapsuleRecord) /\ Len(capsules') <= MaxCapsules
  /\ \A c \in DOMAIN capsules' : CapsuleReads(c)'
  /\ \A c \in DOMAIN capsules : c \in DOMAIN capsules' /\ capsules'[c] = capsules[c]

\* A branch that ends in this step has no prepared effect.
EndStep ==
  \A b \in DOMAIN branches' : branches'[b].status # "running" =>
    (b \in DOMAIN branches /\ branches[b].status # "running") \/ Settled(b)'

\* Only a branch with a receipt is put on the line.
LineStep ==
  \A b \in DOMAIN starts' : Advanced(b)' => (b \in DOMAIN starts /\ Advanced(b)) \/ Receipted(b)'

\* A branch on the line has yielded.
LEMMA OnLine ==
  ASSUME LineInv, NEW b, Advanced(b)
  PROVE  b \in DOMAIN branches /\ branches[b].status = "yielded"
<1>1. PICK r \in DOMAIN advances : advances[r].branch = b
  BY DEF Advanced
<1>2. advances[r].branch \in DOMAIN branches /\ branches[advances[r].branch].status = "yielded"
  BY DEF LineInv, Attached
<1> QED
  BY <1>1, <1>2

\* Steps within these bounds keep EffectInv: the effects of a branch on the
\* line are settled, so its receipt still lists them.
LEMMA EffectFrame ==
  ASSUME LineInv, EffectInv, EffectStep, CapsuleStep, EndStep, LineStep
  PROVE  EffectInv'
<1>1. ASSUME NEW b \in DOMAIN branches, branches[b].status # "running"
      PROVE  /\ \A x \in DOMAIN effects' : effects'[x].branch = b =>
                  x \in DOMAIN effects /\ effects[x].branch = b /\ effects'[x] = effects[x]
             /\ \A x \in DOMAIN effects : effects[x].branch = b =>
                  x \in DOMAIN effects' /\ effects'[x] = effects[x]
  <2>1. Settled(b) /\ b \notin Running
    BY <1>1 DEF EffectInv, Running
  <2> QED
    BY <2>1 DEF EffectStep, Settled
<1>2. ASSUME NEW b \in DOMAIN branches', branches'[b].status # "running" PROVE Settled(b)'
  <2>1. CASE b \in DOMAIN branches /\ branches[b].status # "running"
    <3>1. Settled(b)
      BY <2>1 DEF EffectInv
    <3>2. \A x \in DOMAIN effects' : effects'[x].branch = b =>
            x \in DOMAIN effects /\ effects[x].branch = b /\ effects'[x] = effects[x]
      BY <1>1, <2>1
    <3> QED
      BY <3>1, <3>2 DEF Settled
  <2> QED
    BY <1>2, <2>1 DEF EndStep
<1>3. ASSUME NEW b \in DOMAIN starts', Advanced(b)' PROVE Receipted(b)'
  <2>1. CASE b \in DOMAIN starts /\ Advanced(b)
    <3>1. b \in DOMAIN branches /\ branches[b].status = "yielded"
      BY <2>1, OnLine
    <3>2. branches[b].status # "running"
      BY <3>1, SMT
    <3>3. EffectsOf(b)' = EffectsOf(b) /\ \A x \in EffectsOf(b) : effects'[x] = effects[x]
      BY <1>1, <3>1, <3>2 DEF EffectsOf
    <3>4. EffectReceipts(b)' = EffectReceipts(b)
      BY <3>3 DEF EffectReceipts
    <3>5. PICK c \in DOMAIN capsules : /\ capsules[c].branch = b /\ capsules[c].kind = "root_receipt"
                                       /\ capsules[c].receipts = EffectReceipts(b)
      BY <2>1 DEF EffectInv, Receipted
    <3> QED
      BY <3>4, <3>5 DEF CapsuleStep, Receipted
  <2> QED
    BY <1>3, <2>1 DEF LineStep
<1> QED
  BY <1>2, <1>3 DEF EffectInv, EffectStep, CapsuleStep

\* Tables a step leaves alone.
LEMMA EffectsStay ==
  ASSUME EffectInv, UNCHANGED effects, DOMAIN branches \subseteq DOMAIN branches'
  PROVE  EffectStep
BY DEF EffectInv, EffectStep, EffectReads

\* Capsules a step leaves alone.
LEMMA CapsulesStay ==
  ASSUME EffectInv, UNCHANGED capsules, DOMAIN branches \subseteq DOMAIN branches'
  PROVE  CapsuleStep
BY DEF EffectInv, CapsuleStep, CapsuleReads

\* A line a step leaves alone.
LEMMA LineStays ==
  ASSUME LineInv, UNCHANGED advances,
         \A b \in DOMAIN starts' : b \in DOMAIN starts \/ b \notin DOMAIN branches
  PROVE  LineStep
<1> SUFFICES ASSUME NEW b \in DOMAIN starts', Advanced(b)' PROVE b \in DOMAIN starts /\ Advanced(b)
  BY DEF LineStep
<1>1. Advanced(b)
  BY DEF Advanced
<1> QED
  BY <1>1, OnLine

\* A branch inserted by this step has no effects yet.
LEMMA EndStays ==
  ASSUME EffectInv, UNCHANGED effects, \A b \in DOMAIN branches : branches'[b] = branches[b]
  PROVE  EndStep
<1>1. \A b : b \notin DOMAIN branches => Settled(b)'
  BY DEF EffectInv, EffectReads, Settled
<1> QED
  BY <1>1 DEF EndStep

\* A step on none of these tables.
LEMMA StayEffects ==
  ASSUME LineInv, EffectInv, UNCHANGED <<branches, starts, advances, effects, capsules>>
  PROVE  EffectInv'
<1>1. EffectStep /\ CapsuleStep
  BY EffectsStay, CapsulesStay
<1>2. EndStep
  BY EndStays
<1>3. LineStep
  BY LineStays
<1> QED
  BY <1>1, <1>2, <1>3, EffectFrame

\* A new branch has no effect yet.
LEMMA OpenEffects ==
  ASSUME LineInv, EffectInv, NEW b, NEW w, NEW epoch, OpenBranch(b, w, epoch),
         UNCHANGED <<advances, effects, capsules>>
  PROVE  EffectInv'
<1>1. /\ b \notin DOMAIN branches /\ DOMAIN branches' = DOMAIN branches \cup {b}
      /\ DOMAIN starts' = DOMAIN starts \cup {b}
      /\ \A c \in DOMAIN branches : branches'[c] = branches[c]
  BY OpenIs
<1>2. EffectStep /\ CapsuleStep
  BY <1>1, EffectsStay, CapsulesStay
<1>3. EndStep
  BY <1>1, EndStays
<1>4. LineStep
  BY <1>1, LineStays
<1> QED
  BY <1>2, <1>3, <1>4, EffectFrame

\* One capsule more.
LEMMA AppendCapsule ==
  ASSUME EffectInv, NEW cap \in CapsuleRecord, capsules' = Append(capsules, cap),
         Len(capsules) < MaxCapsules, cap.branch \in DOMAIN branches',
         DOMAIN branches \subseteq DOMAIN branches'
  PROVE  CapsuleStep /\ \A c \in DOMAIN capsules' \ DOMAIN capsules : capsules'[c] = cap
<1> USE GraphAssumption
<1>1. capsules \in Seq(CapsuleRecord) /\ \A c \in DOMAIN capsules : capsules[c].branch \in DOMAIN branches
  BY DEF EffectInv, CapsuleReads
<1>2. /\ capsules' \in Seq(CapsuleRecord) /\ Len(capsules') <= MaxCapsules
      /\ DOMAIN capsules' = 1..(Len(capsules) + 1) /\ capsules'[Len(capsules) + 1] = cap
      /\ \A c \in DOMAIN capsules : c \in DOMAIN capsules' /\ capsules'[c] = capsules[c]
      /\ \A c \in DOMAIN capsules' : c \in DOMAIN capsules \/ c = Len(capsules) + 1
  BY <1>1, SMT
<1>3. \A c \in DOMAIN capsules' : capsules'[c] \in CapsuleRecord /\ capsules'[c].branch \in DOMAIN branches'
  BY <1>1, <1>2, SMT
<1> QED
  BY <1>2, <1>3 DEF CapsuleStep, CapsuleReads

\* Parents are capsules, so numbers in range.
LEMMA ParentsInRange ==
  ASSUME EffectInv, NEW ps, NEW w, CanBeParents(ps, w)
  PROVE  ps \subseteq DOMAIN capsules /\ ps \subseteq 1..MaxCapsules
<1>1. ps \subseteq DOMAIN capsules
  BY DEF CanBeParents
<1>2. DOMAIN capsules \subseteq 1..MaxCapsules
  BY GraphAssumption, SMT DEF EffectInv
<1> QED
  BY <1>1, <1>2

\* createCapsule() appends a capsule of an existing branch.
LEMMA CreateCapsuleEffects ==
  ASSUME LineInv, EffectInv, NEW b, NEW ps,
         NEW kind \in {"private", "root_receipt", "self_delta", "legacy_opaque"},
         CreateCapsule(b, kind, ps)
  PROVE  /\ EffectInv' /\ CapsuleStep
         /\ \A c \in DOMAIN capsules' \ DOMAIN capsules :
              capsules'[c].branch = b /\ capsules'[c].parents = ps
<1>1. /\ b \in DOMAIN branches /\ Len(capsules) < MaxLoose /\ CanBeParents(ps, branches[b].world)
      /\ capsules' = Append(capsules, Capsule(b, kind, ps, {}))
      /\ UNCHANGED <<branches, starts, advances, effects>>
  BY DEF CreateCapsule, CanInsertCapsule, Running
<1>2. /\ Capsule(b, kind, ps, {}) \in CapsuleRecord
      /\ Capsule(b, kind, ps, {}).branch = b /\ Capsule(b, kind, ps, {}).parents = ps
  <2>1. ps \subseteq 1..MaxCapsules /\ b \in BranchIds
    BY <1>1, ParentsInRange DEF LineInv
  <2> QED
    BY <2>1, SMT DEF Capsule, CapsuleRecord
<1>3. Len(capsules) < MaxCapsules
  BY <1>1, GraphAssumption, SMT DEF EffectInv
<1>4. CapsuleStep /\ \A c \in DOMAIN capsules' \ DOMAIN capsules : capsules'[c] = Capsule(b, kind, ps, {})
  BY <1>1, <1>2, <1>3, AppendCapsule
<1>5. EffectStep /\ EndStep
  BY <1>1, EffectsStay, EndStays
<1>6. LineStep
  BY <1>1, LineStays
<1> QED
  BY <1>2, <1>4, <1>5, <1>6, EffectFrame

\* importLegacyArtifact() appends an opaque capsule of an ended branch.
LEMMA ImportEffects ==
  ASSUME LineInv, EffectInv, NEW s, NEW b \in BranchIds, ImportLegacyArtifact(s, b)
  PROVE  /\ EffectInv' /\ CapsuleStep
         /\ \A c \in DOMAIN capsules' \ DOMAIN capsules : capsules'[c].parents = {}
<1> DEFINE cap == Capsule(b, "legacy_opaque", {}, {})
<1>1. /\ b \notin DOMAIN branches /\ Len(capsules) < MaxCapsules
      /\ capsules' = Append(capsules, cap) /\ UNCHANGED <<starts, advances, effects>>
      /\ DOMAIN branches' = DOMAIN branches \cup {b}
      /\ \A c \in DOMAIN branches : branches'[c] = branches[c]
  BY DEF ImportLegacyArtifact, CanInsertBranch, Insert
<1>2. cap \in CapsuleRecord /\ cap.branch = b /\ cap.parents = {}
  BY SMT DEF Capsule, CapsuleRecord
<1>3. CapsuleStep /\ \A c \in DOMAIN capsules' \ DOMAIN capsules : capsules'[c] = cap
  <2> HIDE DEF cap
  <2> QED
    BY <1>1, <1>2, AppendCapsule
<1>4. EffectStep /\ EndStep
  BY <1>1, EffectsStay, EndStays
<1>5. LineStep
  BY <1>1, LineStays
<1> HIDE DEF cap
<1> QED
  BY <1>2, <1>3, <1>4, <1>5, EffectFrame

\* prepareEffect(): only a running branch gets a new effect.
LEMMA PrepareEffects ==
  ASSUME LineInv, EffectInv, NEW x \in EffectIds, NEW b, PrepareEffect(x, b)
  PROVE  EffectInv'
<1> DEFINE row == [branch |-> b, status |-> "prepared"]
<1>1. /\ x \notin DOMAIN effects /\ b \in Running /\ effects' = Insert(effects, x, row)
      /\ UNCHANGED <<branches, starts, advances, capsules>>
  BY DEF PrepareEffect
<1>2. b \in DOMAIN branches /\ b \in BranchIds
  BY <1>1 DEF LineInv, Running
<1>3. row \in EffectRecord /\ row.branch = b
  BY <1>2, SMT DEF EffectRecord
<1> HIDE DEF row
<1>4. /\ DOMAIN effects' = DOMAIN effects \cup {x} /\ effects'[x] = row
      /\ \A y \in DOMAIN effects : effects'[y] = effects[y]
  BY <1>1 DEF Insert
<1>5. \A y \in DOMAIN effects' : EffectReads(y)'
  BY <1>1, <1>2, <1>3, <1>4 DEF EffectInv, EffectReads
<1>6. \A y \in DOMAIN effects' \ DOMAIN effects : effects'[y].branch \in Running
  BY <1>1, <1>3, <1>4
<1>7. EffectStep
  BY <1>4, <1>5, <1>6 DEF EffectInv, EffectStep
<1>8. CapsuleStep /\ LineStep
  BY <1>1, CapsulesStay, LineStays
<1>9. EndStep
  BY <1>1 DEF EndStep
<1> QED
  BY <1>7, <1>8, <1>9, EffectFrame

\* Effects only leave the prepared status.
LEMMA ResolvedOnly ==
  ASSUME EffectInv, DOMAIN effects' = DOMAIN effects, DOMAIN branches \subseteq DOMAIN branches',
         \A x \in DOMAIN effects :
           \/ effects'[x] = effects[x]
           \/ /\ effects[x].status = "prepared"
              /\ \E v \in {"observed", "failed", "uncertain"} :
                   effects'[x] = [effects[x] EXCEPT !.status = v]
  PROVE  EffectStep
<1>1. ASSUME NEW x \in DOMAIN effects
      PROVE  /\ effects'[x] \in EffectRecord /\ effects'[x].branch = effects[x].branch
             /\ effects[x].status # "prepared" => effects'[x] = effects[x]
  <2>1. effects[x] \in EffectRecord
    BY DEF EffectInv, EffectReads
  <2> QED
    BY <2>1, SMT DEF EffectRecord
<1>2. \A x \in DOMAIN effects' : EffectReads(x)'
  BY <1>1 DEF EffectInv, EffectReads
<1> QED
  BY <1>1, <1>2 DEF EffectInv, EffectStep

\* resolveEffect() settles one prepared effect.
LEMMA ResolveEffects ==
  ASSUME LineInv, EffectInv, NEW x, NEW v \in {"observed", "failed"}, ResolveEffect(x, v)
  PROVE  EffectInv'
<1>1. /\ x \in DOMAIN effects /\ effects[x].status = "prepared"
      /\ effects' = [effects EXCEPT ![x].status = v]
      /\ UNCHANGED <<branches, starts, advances, capsules>>
  BY DEF ResolveEffect
<1>2. /\ DOMAIN effects' = DOMAIN effects /\ effects'[x] = [effects[x] EXCEPT !.status = v]
      /\ \A y \in DOMAIN effects : y # x => effects'[y] = effects[y]
  BY <1>1, SMT
<1>3. v \in {"observed", "failed", "uncertain"}
  OBVIOUS
<1>4. EffectStep
  BY <1>1, <1>2, <1>3, ResolvedOnly
<1>5. CapsuleStep /\ LineStep
  BY <1>1, CapsulesStay, LineStays
<1>6. EndStep
  BY <1>1 DEF EndStep
<1> QED
  BY <1>4, <1>5, <1>6, EffectFrame

\* recoverPreparedEffects() leaves no effect prepared.
LEMMA RecoverPreparedKeeps ==
  ASSUME LineInv, EffectInv, RecoverPreparedEffects
  PROVE  EffectInv'
<1>1. /\ DOMAIN effects' = DOMAIN effects
      /\ \A x \in DOMAIN effects :
           effects'[x] = IF effects[x].status = "prepared"
                         THEN [effects[x] EXCEPT !.status = "uncertain"] ELSE effects[x]
      /\ UNCHANGED <<branches, starts, advances, capsules>>
  BY DEF RecoverPreparedEffects
<1>2. \A x \in DOMAIN effects :
        \/ effects'[x] = effects[x]
        \/ /\ effects[x].status = "prepared"
           /\ \E v \in {"observed", "failed", "uncertain"} :
                effects'[x] = [effects[x] EXCEPT !.status = v]
  BY <1>1
<1>3. EffectStep
  BY <1>1, <1>2, ResolvedOnly
<1>4. CapsuleStep /\ LineStep
  BY <1>1, CapsulesStay, LineStays
<1>5. EndStep
  BY <1>1 DEF EndStep
<1> QED
  BY <1>3, <1>4, <1>5, EffectFrame

\* recoverCoordinatedBranch(): the branch is settled as it ends.
LEMMA RecoverEffects ==
  ASSUME LineInv, EffectInv, RecoverCoordinatedBranch
  PROVE  EffectInv'
<1> DEFINE b == coordinator.active
<1>1. /\ DOMAIN effects' = DOMAIN effects
      /\ \A x \in DOMAIN effects :
           effects'[x] = IF x \in Prepared(b)
                         THEN [effects[x] EXCEPT !.status = "uncertain"] ELSE effects[x]
      /\ branches' = [branches EXCEPT ![b].status = "crashed"]
      /\ UNCHANGED <<starts, advances, capsules>>
  BY DEF RecoverCoordinatedBranch
<1> HIDE DEF b
<1>2. /\ DOMAIN branches' = DOMAIN branches
      /\ \A c \in DOMAIN branches : c # b => branches'[c] = branches[c]
  BY <1>1, SMT
<1>3. \A x \in DOMAIN effects :
        \/ effects'[x] = effects[x]
        \/ /\ effects[x].status = "prepared"
           /\ \E v \in {"observed", "failed", "uncertain"} :
                effects'[x] = [effects[x] EXCEPT !.status = v]
  BY <1>1 DEF Prepared
<1>4. EffectStep
  BY <1>1, <1>2, <1>3, ResolvedOnly
<1>5. CapsuleStep /\ LineStep
  BY <1>1, <1>2, CapsulesStay, LineStays
<1>6. ASSUME NEW c, c = b PROVE Settled(c)'
  <2> SUFFICES ASSUME NEW x \in DOMAIN effects, effects'[x].branch = b PROVE effects'[x].status # "prepared"
    BY <1>1, <1>6 DEF Settled
  <2>1. effects[x] \in EffectRecord /\ effects'[x].branch = effects[x].branch
    BY <1>4 DEF EffectInv, EffectReads, EffectStep
  <2>2. x \in Prepared(b) <=> effects[x].status = "prepared"
    BY <2>1 DEF Prepared, EffectsOf
  <2> QED
    BY <1>1, <2>1, <2>2, SMTT(30) DEF EffectRecord
<1>7. EndStep
  BY <1>2, <1>6 DEF EndStep
<1> QED
  BY <1>4, <1>5, <1>7, EffectFrame

\* The line grows by the branch the head moves to.
LEMMA MoveAdvances ==
  ASSUME LineInv, NEW b, MoveHead(b), NEW c, Advanced(c)'
  PROVE  Advanced(c) \/ c = b
<1>1. PICK r \in DOMAIN advances' : advances'[r].branch = c
  BY DEF Advanced
<1>2. advances' = Append(advances, [pred |-> head.branch, branch |-> b])
  BY DEF MoveHead
<1>3. \/ r \in DOMAIN advances /\ advances'[r] = advances[r]
      \/ advances'[r] = [pred |-> head.branch, branch |-> b]
  BY <1>2, SMT DEF LineInv
<1>4. [pred |-> head.branch, branch |-> b].branch = b
  BY SMT
<1> QED
  BY <1>1, <1>3, <1>4 DEF Advanced

\* advanceContinuationHead(): a coordinated branch is on the line already.
LEMMA AdvanceEffects ==
  ASSUME LineInv, EffectInv, NEW b, NEW v, AdvanceContinuationHead(b, v)
  PROVE  EffectInv'
<1>1. /\ b \in DOMAIN branches /\ branches[b].status = "yielded" /\ MoveHead(b)
      /\ UNCHANGED <<branches, starts, effects, capsules>>
  BY DEF AdvanceContinuationHead
<1>2. EffectStep /\ CapsuleStep
  BY <1>1, EffectsStay, CapsulesStay
<1>3. EndStep
  BY <1>1 DEF EndStep
<1>4. \A c \in DOMAIN starts : Advanced(c)' => Advanced(c)
  BY <1>1, MoveAdvances DEF LineInv
<1>5. LineStep
  BY <1>1, <1>4 DEF LineStep
<1> QED
  BY <1>2, <1>3, <1>5, EffectFrame

\* Two capsules more.
LEMMA AppendCapsules ==
  ASSUME EffectInv, NEW c1 \in CapsuleRecord, NEW c2 \in CapsuleRecord,
         capsules' = capsules \o <<c1, c2>>, Len(capsules) + 2 <= MaxCapsules,
         c1.branch \in DOMAIN branches', c2.branch \in DOMAIN branches',
         DOMAIN branches \subseteq DOMAIN branches'
  PROVE  /\ CapsuleStep /\ \A c \in DOMAIN capsules' \ DOMAIN capsules : capsules'[c] \in {c1, c2}
         /\ Len(capsules) + 2 \in DOMAIN capsules' /\ capsules'[Len(capsules) + 2] = c2
<1> USE GraphAssumption
<1>1. capsules \in Seq(CapsuleRecord) /\ \A c \in DOMAIN capsules : capsules[c].branch \in DOMAIN branches
  BY DEF EffectInv, CapsuleReads
<1> DEFINE n == Len(capsules)
           two == <<c1, c2>>
<1>a. n \in Nat /\ DOMAIN capsules = 1..n
  BY <1>1, SMT
<1>b. two \in Seq(CapsuleRecord) /\ Len(two) = 2 /\ two[1] = c1 /\ two[2] = c2
  BY SMT
<1> HIDE DEF two
<1>c. /\ capsules' \in Seq(CapsuleRecord) /\ Len(capsules') = n + 2
      /\ \A c \in 1..n + 2 : capsules'[c] = IF c <= n THEN capsules[c] ELSE two[c - n]
  BY <1>1, <1>a, <1>b, capsules' = capsules \o two, SMTT(30) DEF two
<1> HIDE DEF n
<1>d. DOMAIN capsules' = 1..n + 2
  BY <1>c, SMT
<1>2. /\ capsules' \in Seq(CapsuleRecord) /\ Len(capsules') = n + 2
      /\ capsules'[n + 1] = c1 /\ capsules'[n + 2] = c2
      /\ n + 2 \in DOMAIN capsules'
      /\ \A c \in DOMAIN capsules : c \in DOMAIN capsules' /\ capsules'[c] = capsules[c]
      /\ \A c \in DOMAIN capsules' : c \in DOMAIN capsules \/ c = n + 1 \/ c = n + 2
  <2>1. (n + 1) - n = 1 /\ (n + 2) - n = 2 /\ ~(n + 1 <= n) /\ ~(n + 2 <= n) /\ n + 1 \in 1..n + 2 /\ n + 2 \in 1..n + 2
    BY <1>a, SMTT(30)
  <2>2. capsules'[n + 1] = c1 /\ capsules'[n + 2] = c2
    BY <2>1, <1>b, <1>c
  <2>3. \A c \in 1..n : c \in 1..n + 2 /\ c <= n
    BY <1>a, SMTT(30)
  <2>4. \A c \in 1..n + 2 : c \in 1..n \/ c = n + 1 \/ c = n + 2
    BY <1>a, SMTT(30)
  <2> QED
    BY <2>1, <2>2, <2>3, <2>4, <1>a, <1>c, <1>d
<1>3. \A c \in DOMAIN capsules' : capsules'[c] \in CapsuleRecord /\ capsules'[c].branch \in DOMAIN branches'
  BY <1>1, <1>2, SMTT(30)
<1> QED
  BY <1>2, <1>3 DEF CapsuleStep, CapsuleReads, n

\* completeCoordinatedBranch(): the receipt lists the effects as they stay.
LEMMA CompleteEffects ==
  ASSUME LineInv, EffectInv, NEW b, NEW ps, CompleteCoordinatedBranch(b, ps)
  PROVE  /\ EffectInv' /\ CapsuleStep
         /\ \A c \in DOMAIN capsules' \ DOMAIN capsules :
              capsules'[c].branch = b /\ capsules'[c].parents \in {ps, {}}
<1> DEFINE c1 == Capsule(b, "private", ps, {})
           c2 == Capsule(b, "root_receipt", {}, EffectReceipts(b))
<1>1. /\ b \in DOMAIN branches /\ CanBeParents(ps, branches[b].world) /\ MoveHead(b)
      /\ Len(capsules) + 2 <= MaxCapsules /\ Prepared(b) = {}
      /\ capsules' = capsules \o <<c1, c2>>
      /\ branches' = [branches EXCEPT ![b].status = "yielded"]
      /\ UNCHANGED <<starts, effects>>
  BY DEF CompleteCoordinatedBranch, Running
<1>2. /\ DOMAIN branches' = DOMAIN branches
      /\ \A c \in DOMAIN branches : c # b => branches'[c] = branches[c]
  BY <1>1, SMT
<1>3. Settled(b)'
  BY <1>1 DEF Prepared, EffectsOf, Settled
<1>4. EffectReceipts(b) \subseteq EffectIds \X {"observed", "failed", "uncertain"}
  <2>1. \A x \in EffectsOf(b) : x \in EffectIds /\ effects[x] \in EffectRecord /\ effects[x].status # "prepared"
    BY <1>1 DEF EffectsOf, Prepared, EffectInv, EffectReads
  <2> QED
    BY <2>1, SMT DEF EffectReceipts, EffectRecord
<1>5. /\ c1 \in CapsuleRecord /\ c1.branch = b /\ c2 \in CapsuleRecord /\ c2.branch = b
      /\ c1.parents = ps /\ c2.parents = {}
      /\ c2.kind = "root_receipt" /\ c2.receipts = EffectReceipts(b)
  <2>1. ps \subseteq 1..MaxCapsules /\ b \in BranchIds
    BY <1>1, ParentsInRange DEF LineInv
  <2> QED
    BY <1>4, <2>1, SMT DEF Capsule, CapsuleRecord
<1> HIDE DEF c1, c2
<1>a. c1.branch \in DOMAIN branches' /\ c2.branch \in DOMAIN branches' /\ DOMAIN branches \subseteq DOMAIN branches'
  BY <1>1, <1>2, <1>5
<1>6. /\ CapsuleStep /\ \A c \in DOMAIN capsules' \ DOMAIN capsules : capsules'[c] \in {c1, c2}
      /\ Len(capsules) + 2 \in DOMAIN capsules' /\ capsules'[Len(capsules) + 2] = c2
  BY <1>1, <1>a, <1>5, AppendCapsules
<1>7. EffectStep
  BY <1>1, <1>2, EffectsStay
<1>8. EndStep
  BY <1>2, <1>3 DEF EndStep
<1>9. EffectReceipts(b)' = EffectReceipts(b)
  BY <1>1 DEF EffectReceipts, EffectsOf
<1>10. Receipted(b)'
  BY <1>5, <1>6, <1>9 DEF Receipted
<1>11. \A c : Advanced(c)' => Advanced(c) \/ c = b
  BY <1>1, MoveAdvances
<1>12. LineStep
  BY <1>1, <1>10, <1>11 DEF LineStep
<1> QED
  BY <1>5, <1>6, <1>7, <1>8, <1>12, EffectFrame

\* The form of EffectInv that the run checks.
LEMMA ReceiptsFinal == ASSUME LineInv, EffectInv PROVE ReceiptFinal
<1>1. ASSUME NEW r \in DOMAIN advances, advances[r].branch \in DOMAIN starts
      PROVE  \E c \in CapsulesOf(advances[r].branch) :
                /\ capsules[c].kind = "root_receipt"
                /\ capsules[c].receipts = EffectReceipts(advances[r].branch)
  <2>1. Receipted(advances[r].branch)
    BY <1>1 DEF EffectInv, Advanced
  <2> QED
    BY <2>1 DEF Receipted, CapsulesOf
<1>2. ASSUME NEW b \in DOMAIN branches \ Running PROVE Prepared(b) = {}
  BY <1>2 DEF EffectInv, Settled, Prepared, EffectsOf, Running
<1> QED
  BY <1>1, <1>2 DEF ReceiptFinal

-----------------------------------------------------------------------------
(* Worlds.                                                                 *)

\* The rows of a table stay as they are.
Kept(old, new) == \A k \in DOMAIN old : k \in DOMAIN new /\ new[k] = old[k]

\* What no step does to the rows of a world: a branch stays in its world, a
\* grant keeps its destination, everything else stays as it is.
BranchesKept ==
  /\ DOMAIN starts \subseteq DOMAIN starts'
  /\ \A b \in DOMAIN branches : /\ b \in DOMAIN branches' /\ branches'[b].world = branches[b].world
                                /\ branches'[b].parent = branches[b].parent

\* Events are appended, never changed.
EventsKept == events' \in Seq(ScopedEvent) /\ Len(events') <= MaxEvents /\ Kept(events, events')

\* A grant keeps its destination.
GrantsKept ==
  /\ DOMAIN grants' \subseteq GrantIds /\ \A g \in DOMAIN grants' : GrantReads(g)'
  /\ \A g \in DOMAIN grants : g \in DOMAIN grants' /\ grants'[g].dest = grants[g].dest

\* All of that.
WorldKept ==
  /\ BranchesKept /\ EventsKept /\ GrantsKept /\ CapsuleStep
  /\ Kept(manifests, manifests') /\ Kept(views, views')

\* The rows a step inserts are good ones.
NewGood ==
  /\ \A b \in DOMAIN starts' \ DOMAIN starts : StartGood(b)'
  /\ \A b \in DOMAIN branches' \ DOMAIN branches : BranchGood(b)'
  /\ \A c \in DOMAIN capsules' \ DOMAIN capsules : CapsuleGood(c)'
  /\ \A b \in DOMAIN manifests' \ DOMAIN manifests : ManifestGood(b)'
  /\ \A b \in DOMAIN views' \ DOMAIN views : ViewGood(b)'

\* A capsule stays in its world.
LEMMA CapsuleWorldKept ==
  ASSUME EffectInv, CapsuleStep, BranchesKept, NEW c \in DOMAIN capsules
  PROVE  c \in DOMAIN capsules' /\ CapsuleWorld(c)' = CapsuleWorld(c)
<1>1. capsules[c].branch \in DOMAIN branches
  BY DEF EffectInv, CapsuleReads
<1>2. c \in DOMAIN capsules' /\ capsules'[c] = capsules[c]
  BY DEF CapsuleStep
<1> QED
  BY <1>1, <1>2 DEF BranchesKept, CapsuleWorld

\* An earlier number than a capsule's is a capsule's.
LEMMA EarlierCapsule ==
  ASSUME EffectInv, NEW c \in DOMAIN capsules, NEW p \in capsules[c].parents, p < c
  PROVE  p \in DOMAIN capsules
<1>1. capsules[c] \in CapsuleRecord
  BY DEF EffectInv, CapsuleReads
<1>2. p \in 1..MaxCapsules
  BY <1>1, SMT DEF CapsuleRecord
<1>3. capsules \in Seq(CapsuleRecord)
  BY DEF EffectInv
<1> QED
  BY <1>2, <1>3, GraphAssumption, SMTT(30)

\* Good rows stay good.
LEMMA GoodStays ==
  ASSUME LineInv, EffectInv, WorldInv, WorldKept
  PROVE  /\ \A b \in DOMAIN starts : StartGood(b)'
         /\ \A b \in DOMAIN branches : BranchGood(b)'
         /\ \A c \in DOMAIN capsules : CapsuleGood(c)'
         /\ \A b \in DOMAIN manifests : ManifestGood(b)'
         /\ \A b \in DOMAIN views : ViewGood(b)'
<1>1. ASSUME NEW b \in DOMAIN branches PROVE BranchGood(b)'
  <2>1. BranchGood(b) /\ BranchesKept
    BY DEF WorldInv, WorldKept
  <2>2. branches'[b].world = branches[b].world /\ branches'[b].parent = branches[b].parent
    BY <2>1 DEF BranchesKept
  <2> SUFFICES ASSUME branches[b].parent # None
               PROVE  /\ branches[b].parent \in DOMAIN branches'
                      /\ branches'[branches[b].parent].world = branches[b].world
    BY <2>2 DEF BranchGood
  <2>3. branches[b].parent \in DOMAIN branches /\ branches[branches[b].parent].world = branches[b].world
    BY <2>1 DEF BranchGood
  <2> QED
    BY <2>1, <2>3 DEF BranchesKept
<1>2. ASSUME NEW c \in DOMAIN capsules PROVE CapsuleGood(c)'
  <2>1. CapsuleStep /\ BranchesKept /\ CapsuleGood(c)
    BY DEF WorldKept, WorldInv
  <2>2. capsules'[c] = capsules[c] /\ CapsuleWorld(c)' = CapsuleWorld(c)
    BY <2>1, CapsuleWorldKept DEF CapsuleStep
  <2>3. ASSUME NEW p \in capsules[c].parents PROVE p < c /\ CapsuleWorld(p)' = CapsuleWorld(c)
    <3>1. p < c /\ CapsuleWorld(p) = CapsuleWorld(c)
      BY <2>1 DEF CapsuleGood
    <3>2. p \in DOMAIN capsules
      BY <3>1, EarlierCapsule
    <3> QED
      BY <2>1, <3>1, <3>2, CapsuleWorldKept
  <2> QED
    BY <2>2, <2>3 DEF CapsuleGood
<1>3. ASSUME NEW b \in DOMAIN manifests PROVE ManifestGood(b)'
  <2>1. ManifestGood(b) /\ BranchesKept /\ EventsKept /\ GrantsKept /\ manifests'[b] = manifests[b]
    BY DEF WorldInv, WorldKept, Kept
  <2> DEFINE m == manifests[b]
  <2>2. /\ b \in DOMAIN starts /\ m \in ManifestRecord /\ b \in DOMAIN branches
        /\ IsInjective(m.events) /\ IsInjective(m.shares)
    BY <2>1 DEF ManifestGood, ManifestReads
  <2>3. \A i \in DOMAIN m.events : m.events[i] \in DOMAIN events /\ events[m.events[i]].world = branches[b].world
    BY <2>1 DEF ManifestGood, ManifestReads
  <2>4. \A i \in DOMAIN m.shares : m.shares[i] \in DOMAIN grants /\ grants[m.shares[i]].dest = branches[b].world
    BY <2>1 DEF ManifestGood, ManifestReads
  <2>5. b \in DOMAIN starts' /\ b \in DOMAIN branches' /\ branches'[b].world = branches[b].world
    BY <2>1, <2>2 DEF BranchesKept
  <2>6. manifests'[b] = m
    BY <2>1
  <2> HIDE DEF m
  <2>7. \A i \in DOMAIN m.events : m.events[i] \in DOMAIN events' /\ events'[m.events[i]].world = branches[b].world
    BY <2>1, <2>3 DEF EventsKept, Kept
  <2>8. \A i \in DOMAIN m.shares : m.shares[i] \in DOMAIN grants' /\ grants'[m.shares[i]].dest = branches[b].world
    BY <2>1, <2>4 DEF GrantsKept
  <2> QED
    BY <2>2, <2>5, <2>6, <2>7, <2>8 DEF ManifestGood, ManifestReads
<1>4. ASSUME NEW b \in DOMAIN views PROVE ViewGood(b)'
  <2>1. /\ ViewGood(b) /\ BranchesKept /\ views'[b] = views[b]
        /\ b \in DOMAIN manifests' /\ manifests'[b] = manifests[b]
    BY DEF WorldInv, WorldKept, Kept, ViewGood
  <2>2. b \in DOMAIN branches
    BY <2>1 DEF ViewGood, WorldInv, ManifestGood, ManifestReads
  <2> QED
    BY <2>1, <2>2 DEF ViewGood, BranchesKept
<1>5. ASSUME NEW b \in DOMAIN starts PROVE StartGood(b)'
  BY DEF LineInv, WorldInv, WorldKept, BranchesKept, StartGood
<1> QED
  BY <1>1, <1>2, <1>3, <1>4, <1>5

\* A step that keeps the rows and inserts good ones keeps WorldInv.
LEMMA WorldFrame ==
  ASSUME LineInv, EffectInv, WorldInv, WorldKept, NewGood
  PROVE  WorldInv'
<1>1. /\ \A b \in DOMAIN starts' : StartGood(b)'
      /\ \A b \in DOMAIN branches' : BranchGood(b)'
      /\ \A c \in DOMAIN capsules' : CapsuleGood(c)'
  BY GoodStays DEF NewGood
<1>2. /\ \A b \in DOMAIN manifests' : ManifestGood(b)'
      /\ \A b \in DOMAIN views' : ViewGood(b)'
  BY GoodStays DEF NewGood
<1> QED
  BY <1>1, <1>2 DEF WorldInv, WorldKept, EventsKept, GrantsKept

\* Tables a step leaves alone.
LEMMA BranchesStay == ASSUME UNCHANGED <<branches, starts>> PROVE BranchesKept
BY DEF BranchesKept

\* Events a step leaves alone.
LEMMA EventsStay == ASSUME WorldInv, UNCHANGED events PROVE EventsKept
BY DEF EventsKept, WorldInv, Kept

\* Grants a step leaves alone.
LEMMA GrantsStay ==
  ASSUME WorldInv, UNCHANGED grants, DOMAIN capsules \subseteq DOMAIN capsules'
  PROVE  GrantsKept
BY DEF GrantsKept, WorldInv, GrantReads

\* A table that did not change kept its rows.
LEMMA TableStays == \A t : Kept(t, t)
BY DEF Kept

\* The form of WorldInv that the run checks.
LEMMA WorldsAreApart == ASSUME WorldInv PROVE WorldsApart
<1>1. \A b \in DOMAIN manifests : ManifestReads(b)
  BY DEF WorldInv, ManifestGood
<1>2. \A c \in DOMAIN capsules : \A p \in capsules[c].parents :
          p < c /\ CapsuleWorld(p) = CapsuleWorld(c)
  BY DEF WorldInv, CapsuleGood
<1>3. \A b \in DOMAIN branches : branches[b].parent # None =>
          branches[branches[b].parent].world = branches[b].world
  BY DEF WorldInv, BranchGood
<1>4. ASSUME NEW b \in DOMAIN views
      PROVE  /\ \A i \in DOMAIN views[b].messages :
                  events[views[b].messages[i]].world = branches[b].world
             /\ \A i \in DOMAIN views[b].layers :
                  views[b].layers[i].world \in {None, branches[b].world}
  <2>1. /\ b \in DOMAIN manifests /\ views[b].messages = manifests[b].events
        /\ \A i \in DOMAIN views[b].layers :
             views[b].layers[i].world \in {None, branches[b].world}
    BY <1>4 DEF WorldInv, ViewGood
  <2>2. \A i \in DOMAIN manifests[b].events :
          events[manifests[b].events[i]].world = branches[b].world
    BY <1>1, <2>1 DEF ManifestReads
  <2> QED
    BY <2>1, <2>2
<1> QED
  BY <1>1, <1>2, <1>3, <1>4 DEF WorldsApart

\* A step on none of the tables of a world.
LEMMA StayWorlds ==
  ASSUME LineInv, EffectInv, WorldInv,
         UNCHANGED <<branches, starts, events, capsules, grants, manifests, views>>
  PROVE  WorldInv' /\ WorldKept
<1>1. BranchesKept /\ EventsKept /\ GrantsKept /\ CapsuleStep
  BY BranchesStay, EventsStay, GrantsStay, CapsulesStay
<1>2. WorldKept
  BY <1>1, TableStays DEF WorldKept
<1>3. NewGood
  BY DEF NewGood
<1> QED
  BY <1>2, <1>3, WorldFrame

\* One event more.
LEMMA EventWorlds ==
  ASSUME LineInv, EffectInv, WorldInv, NEW w \in Worlds, NEW kind \in {"inbound", "other"},
         AppendWorldEvent(w, kind), UNCHANGED <<branches, starts, capsules, grants, manifests, views>>
  PROVE  WorldInv' /\ WorldKept
<1> DEFINE row == [world |-> w, kind |-> kind]
<1>1. Len(events) < MaxEvents /\ events' = Append(events, row)
  BY DEF AppendWorldEvent
<1>2. row \in ScopedEvent
  BY SMT DEF ScopedEvent
<1> HIDE DEF row
<1>3. events \in Seq(ScopedEvent)
  BY DEF WorldInv
<1>4. events' \in Seq(ScopedEvent) /\ Len(events') <= MaxEvents
  BY <1>1, <1>2, <1>3, GraphAssumption, SMTT(30)
<1>5. \A e \in DOMAIN events : e \in DOMAIN events' /\ events'[e] = events[e]
  BY <1>1, <1>2, <1>3, SMTT(30)
<1>6. EventsKept
  BY <1>4, <1>5 DEF EventsKept, Kept
<1>7. BranchesKept /\ GrantsKept /\ CapsuleStep
  BY BranchesStay, GrantsStay, CapsulesStay
<1>8. WorldKept
  BY <1>6, <1>7, TableStays DEF WorldKept
<1>9. NewGood
  BY DEF NewGood
<1> QED
  BY <1>6, <1>8, <1>9, WorldFrame

\* A new branch continues one of its own world.
LEMMA OpenKeeps ==
  ASSUME LineInv, WorldInv, NEW b, NEW w \in Worlds, NEW epoch, OpenBranch(b, w, epoch)
  PROVE  /\ BranchesKept /\ \A c \in DOMAIN branches' \ DOMAIN branches : BranchGood(c)'
         /\ \A c \in DOMAIN starts' \ DOMAIN starts : StartGood(c)'
         /\ b \in DOMAIN starts' /\ b \in DOMAIN branches' /\ branches'[b].world = w
         /\ b \notin DOMAIN starts
<1> DEFINE row == [world |-> w, parent |-> LocalParent(w), epoch |-> epoch, status |-> "running"]
<1>1. /\ DOMAIN branches' = DOMAIN branches \cup {b} /\ branches'[b] = row
      /\ \A c \in DOMAIN branches : branches'[c] = branches[c]
      /\ DOMAIN starts' = DOMAIN starts \cup {b} /\ b \notin DOMAIN starts
  BY OpenIs
<1>2. row.world = w /\ row.parent = LocalParent(w)
  BY SMT
<1> HIDE DEF row
<1>3. BranchesKept
  BY <1>1 DEF BranchesKept
<1>4. BranchGood(b)'
  <2> SUFFICES ASSUME LocalParent(w) # None
               PROVE  LocalParent(w) \in DOMAIN branches' /\ branches'[LocalParent(w)].world = w
    BY <1>1, <1>2 DEF BranchGood
  <2> QED
    BY <1>1, LocalParentIs
<1>5. StartGood(b)'
  BY <1>1, <1>2 DEF StartGood
<1> QED
  BY <1>1, <1>2, <1>3, <1>4, <1>5

\* A new branch has a parent of its world, or none.
LEMMA OpenWorlds ==
  ASSUME LineInv, EffectInv, WorldInv, NEW b, NEW w \in Worlds, NEW epoch, OpenBranch(b, w, epoch),
         UNCHANGED <<events, capsules, grants, manifests, views>>
  PROVE  WorldInv' /\ WorldKept
<1>1. /\ BranchesKept /\ \A c \in DOMAIN branches' \ DOMAIN branches : BranchGood(c)'
      /\ \A c \in DOMAIN starts' \ DOMAIN starts : StartGood(c)'
  BY OpenKeeps
<1>2. EventsKept /\ GrantsKept
  BY EventsStay, GrantsStay
<1>3. CapsuleStep
  BY <1>1, CapsulesStay DEF BranchesKept
<1>4. WorldKept
  BY <1>1, <1>2, <1>3, TableStays DEF WorldKept
<1>5. NewGood
  BY <1>1 DEF NewGood
<1> QED
  BY <1>4, <1>5, WorldFrame

\* A running branch holds the coordinator, so it has a start.
LEMMA RunningStarted == ASSUME LineInv, NEW b \in Running PROVE b \in DOMAIN starts /\ b = coordinator.active
<1>1. coordinator.active # None /\ Running = {coordinator.active} /\ CanRecover
  BY DEF LineInv, Attached
<1> QED
  BY <1>1 DEF CanRecover, StartedAtHead

\* A list is a sequence.
LEMMA ListIsSeq == ASSUME NEW S, NEW n \in Nat, NEW f \in [1..n -> S] PROVE f \in Seq(S) /\ Len(f) = n
BY SMT

\* What a sequence is as a function.
LEMMA SeqFacts ==
  ASSUME NEW S, NEW T, S \subseteq T, NEW s \in Seq(S)
  PROVE  /\ s \in Seq(T) /\ Len(s) \in Nat /\ DOMAIN s = 1..Len(s) /\ \A i \in DOMAIN s : s[i] \in S
         /\ s # << >> => 1 \in DOMAIN s /\ Len(s) \in DOMAIN s /\ (1 < Len(s) \/ Len(s) = 1)
<1>1. s \in Seq(T) /\ Len(s) \in Nat /\ DOMAIN s = 1..Len(s) /\ \A i \in DOMAIN s : s[i] \in S
  BY SMT
<1>2. s # << >> => Len(s) # 0
  BY SMT
<1> QED
  BY <1>1, <1>2, SMTT(30)

\* What callers choose from.
LEMMA ListTypes ==
  ASSUME WorldInv, NEW es \in EventLists, NEW gs \in ShareLists
  PROVE  /\ es \in Seq(1..MaxEvents) /\ gs \in Seq(GrantIds)
         /\ \A i \in DOMAIN es : es[i] \in DOMAIN events
<1>1. PICK m \in 0..MaxEvents : es \in [1..m -> DOMAIN events]
  BY DEF EventLists, Lists
<1>2. PICK n \in 0..1 : gs \in [1..n -> DOMAIN grants]
  BY DEF ShareLists, Lists
<1>3. events \in Seq(ScopedEvent) /\ Len(events) <= MaxEvents /\ DOMAIN grants \subseteq GrantIds
  BY DEF WorldInv
<1>4. DOMAIN events \subseteq 1..MaxEvents
  BY <1>3, GraphAssumption, SMTT(30)
<1>5. \A i \in 1..m : es[i] \in 1..MaxEvents
  BY <1>1, <1>4
<1>6. \A i \in 1..n : gs[i] \in GrantIds
  BY <1>2, <1>3
<1>a. m \in Nat /\ n \in Nat
  BY GraphAssumption, SMT
<1>b. es \in [1..m -> 1..MaxEvents] /\ gs \in [1..n -> GrantIds]
  BY <1>1, <1>2, <1>5, <1>6
<1>7. es \in Seq(1..MaxEvents) /\ gs \in Seq(GrantIds)
  BY <1>a, <1>b, ListIsSeq
<1> QED
  BY <1>1, <1>7

\* A new manifest.
ManifestAdded(b, es, gs, r, p) ==
  /\ DOMAIN manifests' = DOMAIN manifests \cup {b} /\ Kept(manifests, manifests')
  /\ manifests'[b] \in ManifestRecord
  /\ manifests'[b].events = es /\ manifests'[b].shares = gs
  /\ manifests'[b].renderer = r /\ manifests'[b].policy = p

\* What insertManifest writes.
LEMMA InsertManifestIs ==
  ASSUME NEW b, b \notin DOMAIN manifests, NEW es \in Seq(1..MaxEvents), NEW gs \in Seq(GrantIds),
         NEW r \in Nat, NEW p \in Nat \ {0}, InsertManifest(b, es, gs, r, p)
  PROVE  ManifestAdded(b, es, gs, r, p)
<1> DEFINE row == [events |-> es, shares |-> gs, renderer |-> r, policy |-> p]
<1>1. manifests' = Insert(manifests, b, row)
  BY DEF InsertManifest
<1>2. row \in ManifestRecord /\ row.events = es /\ row.shares = gs /\ row.renderer = r /\ row.policy = p
  BY SMT DEF ManifestRecord
<1> HIDE DEF row
<1>3. /\ DOMAIN manifests' = DOMAIN manifests \cup {b} /\ manifests'[b] = row
      /\ \A c \in DOMAIN manifests : manifests'[c] = manifests[c]
  BY <1>1 DEF Insert
<1> QED
  BY <1>2, <1>3 DEF Kept, ManifestAdded

\* createManifest() selects events and grants of the world of its branch.
LEMMA ManifestWorlds ==
  ASSUME LineInv, EffectInv, WorldInv, NEW b, NEW es \in EventLists, NEW gs \in ShareLists,
         NEW r \in Renderers, NEW p \in Policies, CreateManifest(b, es, gs, r, p), UNCHANGED views
  PROVE  WorldInv' /\ WorldKept
<1>1. /\ b \in Running /\ b \notin DOMAIN manifests /\ ManifestFits(branches[b].world, es, gs)
      /\ InsertManifest(b, es, gs, r, p)
      /\ UNCHANGED <<branches, starts, events, capsules, grants>>
  BY DEF CreateManifest
<1>2. r \in Nat /\ p \in Nat \ {0}
  BY GraphAssumption, ViewAssumption, SMTT(30)
<1>3. es \in Seq(1..MaxEvents) /\ gs \in Seq(GrantIds)
  BY ListTypes
<1>4. /\ DOMAIN manifests' = DOMAIN manifests \cup {b} /\ Kept(manifests, manifests')
      /\ manifests'[b] \in ManifestRecord
      /\ manifests'[b].events = es /\ manifests'[b].shares = gs
  <2>1. ManifestAdded(b, es, gs, r, p)
    BY <1>1, <1>2, <1>3, InsertManifestIs
  <2> QED
    BY <2>1 DEF ManifestAdded
<1>5. BranchesKept /\ EventsKept /\ GrantsKept /\ CapsuleStep
  BY <1>1, BranchesStay, EventsStay, GrantsStay, CapsulesStay
<1>6. WorldKept
  BY <1>4, <1>5, TableStays DEF WorldKept
<1>7. ManifestGood(b)'
  <2>1. b \in DOMAIN starts /\ b \in DOMAIN branches
    BY <1>1, RunningStarted DEF Running
  <2>2. /\ IsInjective(es) /\ IsInjective(gs)
        /\ \A i \in DOMAIN es : es[i] \in DOMAIN events /\ events[es[i]].world = branches[b].world
        /\ \A i \in DOMAIN gs : gs[i] \in DOMAIN grants /\ grants[gs[i]].dest = branches[b].world
    BY <1>1 DEF ManifestFits
  <2> QED
    BY <1>1, <1>4, <2>1, <2>2 DEF ManifestGood, ManifestReads
<1>8. NewGood
  BY <1>1, <1>4, <1>7 DEF NewGood
<1> QED
  BY <1>6, <1>8, WorldFrame

\* Grants.
LEMMA GrantWorlds ==
  ASSUME LineInv, EffectInv, WorldInv, GrantsKept,
         UNCHANGED <<branches, starts, events, capsules, manifests, views>>
  PROVE  WorldInv' /\ WorldKept
<1>1. BranchesKept /\ EventsKept /\ CapsuleStep
  BY BranchesStay, EventsStay, CapsulesStay
<1>2. WorldKept
  BY <1>1, TableStays DEF WorldKept
<1>3. NewGood
  BY DEF NewGood
<1> QED
  BY <1>2, <1>3, WorldFrame

\* createShareGrant() adds a grant of a stored capsule.
LEMMA CreateGrantWorlds ==
  ASSUME LineInv, EffectInv, WorldInv, NEW g \in GrantIds, NEW c, NEW w \in Worlds,
         CreateShareGrant(g, c, w), UNCHANGED views
  PROVE  WorldInv' /\ WorldKept
<1> DEFINE row == [capsule |-> c, dest |-> w, status |-> "active"]
<1>1. /\ g \notin DOMAIN grants /\ c \in DOMAIN capsules /\ grants' = Insert(grants, g, row)
      /\ UNCHANGED <<branches, starts, events, capsules, manifests>>
  BY DEF CreateShareGrant
<1>2. c \in 1..MaxCapsules
  BY <1>1, GraphAssumption, SMTT(30) DEF EffectInv
<1>3. row \in GrantRecord /\ row.capsule = c
  BY <1>2, SMT DEF GrantRecord, AllWorlds
<1> HIDE DEF row
<1>4. /\ DOMAIN grants' = DOMAIN grants \cup {g} /\ grants'[g] = row
      /\ \A h \in DOMAIN grants : grants'[h] = grants[h]
  BY <1>1 DEF Insert
<1>5. GrantsKept
  BY <1>1, <1>3, <1>4 DEF GrantsKept, WorldInv, GrantReads
<1> QED
  BY <1>1, <1>5, GrantWorlds

\* revokeShareGrant() changes nothing but the state of the grant.
LEMMA RevokeGrantWorlds ==
  ASSUME LineInv, EffectInv, WorldInv, NEW g, RevokeShareGrant(g), UNCHANGED views
  PROVE  WorldInv' /\ WorldKept
<1>1. /\ g \in DOMAIN grants /\ grants' = [grants EXCEPT ![g].status = "revoked"]
      /\ UNCHANGED <<branches, starts, events, capsules, manifests>>
  BY DEF RevokeShareGrant
<1>2. \A h \in DOMAIN grants : grants[h] \in GrantRecord /\ grants[h].capsule \in DOMAIN capsules
  BY DEF WorldInv, GrantReads
<1>3. /\ DOMAIN grants' = DOMAIN grants
      /\ \A h \in DOMAIN grants : /\ grants'[h] \in GrantRecord /\ grants'[h].capsule = grants[h].capsule
                                  /\ grants'[h].dest = grants[h].dest
  BY <1>1, <1>2, SMTT(30) DEF GrantRecord
<1>4. GrantsKept
  BY <1>1, <1>2, <1>3 DEF GrantsKept, WorldInv, GrantReads
<1> QED
  BY <1>1, <1>4, GrantWorlds

\* The parents of a new capsule are earlier capsules of its world.
LEMMA ParentsGood ==
  ASSUME EffectInv, CapsuleStep, BranchesKept, NEW b \in DOMAIN branches,
         NEW c \in DOMAIN capsules' \ DOMAIN capsules, capsules'[c].branch = b,
         CanBeParents(capsules'[c].parents, branches[b].world)
  PROVE  CapsuleGood(c)'
<1>1. capsules \in Seq(CapsuleRecord) /\ capsules' \in Seq(CapsuleRecord)
  BY DEF EffectInv, CapsuleStep
<1>2. \A p \in DOMAIN capsules : p < c
  BY <1>1, SMT
<1>3. CapsuleWorld(c)' = branches[b].world
  BY DEF CapsuleWorld, BranchesKept
<1>4. ASSUME NEW p \in capsules'[c].parents PROVE p < c /\ CapsuleWorld(p)' = CapsuleWorld(c)'
  <2>1. p \in DOMAIN capsules /\ CapsuleWorld(p) = branches[b].world
    BY <1>4 DEF CanBeParents
  <2> QED
    BY <1>2, <1>3, <2>1, CapsuleWorldKept
<1> QED
  BY <1>4 DEF CapsuleGood

\* A capsule without parents.
LEMMA NoParentsGood == ASSUME NEW c, capsules'[c].parents = {} PROVE CapsuleGood(c)'
BY DEF CapsuleGood

\* A branch keeps its world when its status changes.
LEMMA StatusKept ==
  ASSUME LineInv, NEW b, NEW v, branches' = [branches EXCEPT ![b].status = v], UNCHANGED starts
  PROVE  BranchesKept /\ DOMAIN branches' = DOMAIN branches
<1>1. \A c \in DOMAIN branches : branches[c] \in BranchRecord
  BY DEF LineInv, BranchReads
<1>2. /\ DOMAIN branches' = DOMAIN branches
      /\ \A c \in DOMAIN branches : /\ branches'[c].world = branches[c].world
                                    /\ branches'[c].parent = branches[c].parent
  BY <1>1, SMT DEF BranchRecord
<1> QED
  BY <1>2 DEF BranchesKept

\* Steps that write capsules and no other row of a world.
LEMMA CapsuleWorlds ==
  ASSUME LineInv, EffectInv, WorldInv, BranchesKept, CapsuleStep,
         \A b \in DOMAIN branches' \ DOMAIN branches : BranchGood(b)',
         \A c \in DOMAIN capsules' \ DOMAIN capsules : CapsuleGood(c)',
         UNCHANGED <<starts, events, grants, manifests, views>>
  PROVE  WorldInv' /\ WorldKept
<1>1. EventsKept
  BY EventsStay
<1>2. DOMAIN capsules \subseteq DOMAIN capsules'
  BY DEF CapsuleStep
<1>3. GrantsKept
  BY <1>2, GrantsStay
<1>4. WorldKept
  BY <1>1, <1>3, TableStays DEF WorldKept
<1>5. NewGood
  BY DEF NewGood
<1> QED
  BY <1>4, <1>5, WorldFrame

\* createCapsule() takes parents of the world of its branch.
LEMMA CreateCapsuleWorlds ==
  ASSUME LineInv, EffectInv, WorldInv, NEW b, NEW ps,
         NEW kind \in {"private", "root_receipt", "self_delta", "legacy_opaque"},
         CreateCapsule(b, kind, ps), UNCHANGED views
  PROVE  WorldInv' /\ WorldKept
<1>1. /\ b \in DOMAIN branches /\ CanBeParents(ps, branches[b].world)
      /\ UNCHANGED <<branches, starts, events, grants, manifests>>
  BY DEF CreateCapsule, CanInsertCapsule, Running
<1>2. CapsuleStep /\ \A c \in DOMAIN capsules' \ DOMAIN capsules :
                       capsules'[c].branch = b /\ capsules'[c].parents = ps
  BY CreateCapsuleEffects
<1>3. BranchesKept
  BY <1>1, BranchesStay
<1>4. \A c \in DOMAIN capsules' \ DOMAIN capsules : CapsuleGood(c)'
  BY <1>1, <1>2, <1>3, ParentsGood
<1> QED
  BY <1>1, <1>2, <1>3, <1>4, CapsuleWorlds

\* completeCoordinatedBranch() writes capsules of the world of its branch.
LEMMA CompleteWorlds ==
  ASSUME LineInv, EffectInv, WorldInv, NEW b, NEW ps, CompleteCoordinatedBranch(b, ps), UNCHANGED views
  PROVE  WorldInv' /\ WorldKept
<1>1. /\ b \in DOMAIN branches /\ CanBeParents(ps, branches[b].world)
      /\ branches' = [branches EXCEPT ![b].status = "yielded"]
      /\ UNCHANGED <<starts, events, grants, manifests>>
  BY DEF CompleteCoordinatedBranch, Running
<1>2. CapsuleStep /\ \A c \in DOMAIN capsules' \ DOMAIN capsules :
                       capsules'[c].branch = b /\ capsules'[c].parents \in {ps, {}}
  BY CompleteEffects
<1>3. BranchesKept /\ DOMAIN branches' = DOMAIN branches
  BY <1>1, StatusKept
<1>4. \A c \in DOMAIN capsules' \ DOMAIN capsules : CapsuleGood(c)'
  <2> TAKE c \in DOMAIN capsules' \ DOMAIN capsules
  <2>1. capsules'[c].branch = b /\ (capsules'[c].parents = ps \/ capsules'[c].parents = {})
    BY <1>2
  <2> QED
    BY <1>1, <1>2, <1>3, <2>1, ParentsGood, NoParentsGood
<1> QED
  BY <1>1, <1>2, <1>3, <1>4, CapsuleWorlds

\* importLegacyArtifact() makes a branch and a capsule without parents.
LEMMA ImportWorlds ==
  ASSUME LineInv, EffectInv, WorldInv, NEW s, NEW b \in BranchIds, ImportLegacyArtifact(s, b),
         UNCHANGED views
  PROVE  WorldInv' /\ WorldKept
<1> DEFINE row == [world |-> Legacy, parent |-> None, epoch |-> 0, status |-> "yielded"]
<1>1. /\ b \notin DOMAIN branches /\ branches' = Insert(branches, b, row)
      /\ UNCHANGED <<starts, events, grants, manifests>>
  BY DEF ImportLegacyArtifact, CanInsertBranch
<1>2. row.parent = None
  BY SMT
<1> HIDE DEF row
<1>3. /\ DOMAIN branches' = DOMAIN branches \cup {b} /\ branches'[b] = row
      /\ \A c \in DOMAIN branches : branches'[c] = branches[c]
  BY <1>1 DEF Insert
<1>4. BranchesKept
  BY <1>1, <1>3 DEF BranchesKept
<1>5. \A c \in DOMAIN branches' \ DOMAIN branches : BranchGood(c)'
  BY <1>2, <1>3 DEF BranchGood
<1>6. CapsuleStep /\ \A c \in DOMAIN capsules' \ DOMAIN capsules : CapsuleGood(c)'
  BY ImportEffects, NoParentsGood
<1> QED
  BY <1>1, <1>4, <1>5, <1>6, CapsuleWorlds

\* recoverCoordinatedBranch() moves no row to another world.
LEMMA RecoverWorlds ==
  ASSUME LineInv, EffectInv, WorldInv, RecoverCoordinatedBranch, UNCHANGED views
  PROVE  WorldInv' /\ WorldKept
<1>1. /\ branches' = [branches EXCEPT ![coordinator.active].status = "crashed"]
      /\ UNCHANGED <<starts, events, capsules, grants, manifests>>
  BY DEF RecoverCoordinatedBranch
<1>2. BranchesKept /\ DOMAIN branches' = DOMAIN branches
  BY <1>1, StatusKept
<1>3. CapsuleStep
  BY <1>1, <1>2, CapsulesStay
<1> QED
  BY <1>1, <1>2, <1>3, CapsuleWorlds

-----------------------------------------------------------------------------
(* Request views.                                                          *)

\* A new view.
ViewAdded(b, ls, r, es, mr, p) ==
  /\ DOMAIN views' = DOMAIN views \cup {b} /\ Kept(views, views')
  /\ views'[b].layers = ls /\ views'[b].renderer = r /\ views'[b].messages = es
  /\ views'[b].messageRenderer = mr /\ views'[b].policy = p

\* The row of a new view.
LEMMA InsertViewIs ==
  ASSUME NEW b, b \notin DOMAIN views, NEW r, NEW ls, NEW m, InsertView(b, r, ls, m)
  PROVE  ViewAdded(b, ls, r, m.events, m.renderer, m.policy)
<1> DEFINE row == [layers |-> ls, renderer |-> r, messages |-> m.events,
                   messageRenderer |-> m.renderer, policy |-> m.policy]
<1>1. views' = Insert(views, b, row)
  BY DEF InsertView
<1>2. /\ row.layers = ls /\ row.renderer = r /\ row.messages = m.events
      /\ row.messageRenderer = m.renderer /\ row.policy = m.policy
  BY SMT
<1> HIDE DEF row
<1>3. /\ DOMAIN views' = DOMAIN views \cup {b} /\ views'[b] = row
      /\ \A c \in DOMAIN views : views'[c] = views[c]
  BY <1>1 DEF Insert
<1> QED
  BY <1>2, <1>3 DEF Kept, ViewAdded

\* Layers that fit a world are its own or no world's.
LEMMA LayersOfWorld ==
  ASSUME NEW w, NEW r, NEW p, NEW ls, LayersFit(w, r, p, ls)
  PROVE  \A i \in DOMAIN ls : ls[i].world \in {None, w}
BY DEF LayersFit

\* createLocalBranchRequestView() takes layers of the world of its branch.
LEMMA ViewWorlds ==
  ASSUME LineInv, EffectInv, WorldInv, NEW b, NEW r, NEW ls, CreateLocalBranchRequestView(b, r, ls)
  PROVE  WorldInv' /\ WorldKept
<1>1. /\ b \in DOMAIN manifests /\ b \notin DOMAIN views
      /\ LayersFit(branches[b].world, r, manifests[b].policy, ls)
      /\ InsertView(b, r, ls, manifests[b])
      /\ UNCHANGED <<branches, starts, events, capsules, grants, manifests>>
  BY DEF CreateLocalBranchRequestView, graphVars
<1>2. /\ DOMAIN views' = DOMAIN views \cup {b} /\ Kept(views, views')
      /\ views'[b].layers = ls /\ views'[b].messages = manifests[b].events
  <2>1. ViewAdded(b, ls, r, manifests[b].events, manifests[b].renderer, manifests[b].policy)
    BY <1>1, InsertViewIs
  <2> QED
    BY <2>1 DEF ViewAdded
<1>3. BranchesKept /\ EventsKept /\ GrantsKept /\ CapsuleStep
  BY <1>1, BranchesStay, EventsStay, GrantsStay, CapsulesStay
<1>4. WorldKept
  BY <1>1, <1>2, <1>3, TableStays DEF WorldKept
<1>5. ViewGood(b)'
  BY <1>1, <1>2, LayersOfWorld DEF ViewGood
<1>6. NewGood
  BY <1>1, <1>2, <1>5 DEF NewGood
<1> QED
  BY <1>4, <1>6, WorldFrame

-----------------------------------------------------------------------------
(* Layers, approvals and profiles.                                         *)

\* Nothing that was rendered or approved is taken back.
RowsGrow == layers \subseteq layers' /\ approvals \subseteq approvals' /\ profiles \subseteq profiles'

\* A profile stays acceptable.
LEMMA ProfileStays ==
  ASSUME RowsGrow, NEW p
  PROVE  /\ ProfileReads(p) => ProfileReads(p)'
         /\ ProfileGood(p) => ProfileGood(p)'
<1>1. ProfileLineage(p) => ProfileLineage(p)'
  BY DEF RowsGrow, ProfileLineage
<1>2. ProfileReads(p) => ProfileReads(p)'
  BY <1>1 DEF ProfileReads
<1> QED
  BY <1>2 DEF ProfileGood

\* So does the line of profiles that headed a world.
LEMMA HeadStays ==
  ASSUME RowsGrow, NEW w, profileHeads'[w] = profileHeads[w]
  PROVE  /\ HeadReads(w) => HeadReads(w)'
         /\ profileHeads[w] \in Seq(profiles) => profileHeads'[w] \in Seq(profiles')
<1>1. \A p : ProfileReads(p) => ProfileReads(p)'
  BY ProfileStays
<1>2. profiles \subseteq profiles'
  BY DEF RowsGrow
<1>3. HeadReads(w) => HeadReads(w)'
  BY <1>1, <1>2 DEF HeadReads
<1>4. profileHeads[w] \in Seq(profiles) => profileHeads'[w] \in Seq(profiles')
  BY <1>2, SMTT(30)
<1> QED
  BY <1>3, <1>4

\* A step on none of the tables of the profiles.
LEMMA StayProfiles ==
  ASSUME ProfileInv, UNCHANGED <<layers, approvals, profiles, profileHeads>>
  PROVE  ProfileInv' /\ RowsGrow
<1>1. RowsGrow
  BY DEF RowsGrow
<1>2. \A w \in Worlds : profileHeads'[w] \in Seq(profiles') /\ HeadReads(w)'
  BY <1>1, HeadStays DEF ProfileInv
<1>3. \A p \in profiles' : ProfileGood(p)'
  BY <1>1, ProfileStays DEF ProfileInv
<1> QED
  BY <1>1, <1>2, <1>3 DEF ProfileInv, LayerReads, ApprovalReads

\* createSystemLayerProjection() adds a layer that reads back.
LEMMA LayerProfiles ==
  ASSUME ProfileInv, NEW layer \in Layers, CreateSystemLayerProjection(layer)
  PROVE  ProfileInv' /\ RowsGrow
<1>1. /\ layers' = layers \cup {layer} /\ LayerReads(layer)
      /\ UNCHANGED <<approvals, profiles, profileHeads>>
  BY DEF CreateSystemLayerProjection, LayerReads
<1>2. RowsGrow
  BY <1>1 DEF RowsGrow
<1>3. \A w \in Worlds : profileHeads'[w] \in Seq(profiles') /\ HeadReads(w)'
  BY <1>1, <1>2, HeadStays DEF ProfileInv
<1>4. \A p \in profiles' : ProfileGood(p)'
  BY <1>1, <1>2, ProfileStays DEF ProfileInv
<1>5. layers' \subseteq Layers /\ \A l \in layers' : LayerReads(l)'
  BY <1>1 DEF ProfileInv, LayerReads
<1>6. \A a \in approvals' : ApprovalReads(a)'
  BY <1>1 DEF ProfileInv, ApprovalReads
<1> QED
  BY <1>1, <1>2, <1>3, <1>4, <1>5, <1>6 DEF ProfileInv

\* approveSystemLayer() adds an approval that reads back.
LEMMA ApproveProfiles ==
  ASSUME ProfileInv, NEW layer, NEW i \in DOMAIN Roles, NEW g \in ApprovalGens,
         ApproveSystemLayer(layer, Roles[i], g)
  PROVE  ProfileInv' /\ RowsGrow
<1> DEFINE row == [layer |-> layer, role |-> Roles[i], generation |-> g]
<1>1. /\ layer \in layers /\ ApprovalMatches(layer, Roles[i]) /\ approvals' = approvals \cup {row}
      /\ UNCHANGED <<layers, profiles, profileHeads>>
  BY DEF ApproveSystemLayer
<1>2. row.layer = layer /\ row.role = Roles[i] /\ row.generation = g
  BY SMT
<1>3. g >= 1 /\ Roles[i] \in Range(Roles)
  BY ViewAssumption, SMT DEF Range
<1> HIDE DEF row
<1>4. ApprovalReads(row)'
  BY <1>1, <1>2, <1>3 DEF ApprovalReads
<1>5. RowsGrow
  BY <1>1 DEF RowsGrow
<1>6. \A w \in Worlds : profileHeads'[w] \in Seq(profiles') /\ HeadReads(w)'
  BY <1>1, <1>5, HeadStays DEF ProfileInv
<1>7. \A p \in profiles' : ProfileGood(p)'
  BY <1>1, <1>5, ProfileStays DEF ProfileInv
<1>8. \A a \in approvals' : ApprovalReads(a)'
  BY <1>1, <1>4 DEF ProfileInv, ApprovalReads
<1> QED
  BY <1>1, <1>5, <1>6, <1>7, <1>8 DEF ProfileInv, LayerReads

\* createSystemProfile() adds a profile that reads back.
LEMMA CreateProfileProfiles ==
  ASSUME ProfileInv, NEW w \in Worlds, NEW as, CreateSystemProfile(w, as)
  PROVE  ProfileInv' /\ RowsGrow
<1> DEFINE p == Profile(w, as)
<1>1. /\ ProfileLineage(p) /\ profiles' = profiles \cup {p}
      /\ UNCHANGED <<layers, approvals, profileHeads>>
  BY DEF CreateSystemProfile
<1>2. /\ p.world = w /\ p.renderer = as[1].layer.renderer /\ p.policy = as[1].layer.policy
      /\ p.approvals = as
  BY SMT DEF Profile
<1>3. as[1].layer \in layers
  <2>1. 1 \in Named(p)
    BY <1>1 DEF ProfileLineage
  <2>2. p.approvals[1].layer \in layers
    BY <1>1, <2>1 DEF ProfileLineage
  <2> QED
    BY <1>2, <2>2
<1> HIDE DEF p
<1>4. p.renderer \in Nat /\ p.policy \in Nat /\ p.renderer >= 1 /\ p.policy >= 1
  BY <1>2, <1>3, ViewAssumption DEF ProfileInv, LayerReads
<1>5. p.world # Legacy
  BY <1>2, GraphAssumption
<1>6. RowsGrow
  BY <1>1 DEF RowsGrow
<1>7. ProfileGood(p)
  BY <1>1, <1>2, <1>4, <1>5 DEF ProfileGood, ProfileReads
<1>8. \A q \in profiles' : ProfileGood(q)'
  BY <1>1, <1>6, <1>7, ProfileStays DEF ProfileInv
<1>9. \A v \in Worlds : profileHeads'[v] \in Seq(profiles') /\ HeadReads(v)'
  BY <1>1, <1>6, HeadStays DEF ProfileInv
<1> QED
  BY <1>1, <1>6, <1>8, <1>9 DEF ProfileInv, LayerReads, ApprovalReads

\* A profile that is not on the line is added to its end.
LEMMA HeadProfiles ==
  ASSUME ProfileInv, NEW w \in Worlds, NEW p \in profiles, NEW n, AdvanceSystemProfileHead(w, p, n)
  PROVE  /\ ProfileInv' /\ RowsGrow
         /\ \A v \in Worlds : Kept(profileHeads[v], profileHeads'[v])
<1>1. /\ p.world = w /\ p \notin Range(profileHeads[w])
      /\ profileHeads' = [profileHeads EXCEPT ![w] = Append(@, p)]
      /\ UNCHANGED <<layers, approvals, profiles>>
  BY DEF AdvanceSystemProfileHead
<1> DEFINE s == profileHeads[w]
<1>2. /\ DOMAIN profileHeads' = Worlds /\ profileHeads'[w] = Append(s, p)
      /\ \A v \in Worlds : v # w => profileHeads'[v] = profileHeads[v]
  BY <1>1, DOMAIN profileHeads = Worlds DEF ProfileInv
<1>3. s \in Seq(profiles) /\ HeadReads(w)
  BY DEF ProfileInv
<1> HIDE DEF s
<1>4. RowsGrow
  BY <1>1 DEF RowsGrow
<1>5. /\ Append(s, p) \in Seq(profiles)
      /\ \A i \in DOMAIN s : i \in DOMAIN Append(s, p) /\ Append(s, p)[i] = s[i]
      /\ \A i \in DOMAIN Append(s, p) : i \in DOMAIN s \/ (i = Len(s) + 1 /\ Append(s, p)[i] = p)
  BY <1>3, SMTT(30)
<1>6. \A i \in DOMAIN s : s[i] # p
  BY <1>1 DEF s, Range
<1>7. IsInjective(s) /\ \A i \in DOMAIN s : s[i].world = w /\ ProfileReads(s[i])
  BY <1>3 DEF s, HeadReads
<1>8. IsInjective(Append(s, p))
  BY <1>5, <1>6, <1>7 DEF IsInjective
<1>9. ASSUME NEW i \in DOMAIN Append(s, p), NEW q, q = Append(s, p)[i]
      PROVE  q \in profiles /\ q.world = w /\ ProfileReads(q)'
  <2>1. ProfileReads(p)
    BY DEF ProfileInv, ProfileGood
  <2>2. \A j \in DOMAIN s : s[j] \in profiles
    BY <1>3, SMT
  <2>3. q \in profiles /\ q.world = w /\ ProfileReads(q)
    BY <1>1, <1>5, <1>7, <1>9, <2>1, <2>2
  <2> QED
    BY <1>4, <2>3, ProfileStays
<1>10. HeadReads(w)'
  BY <1>1, <1>2, <1>8, <1>9 DEF HeadReads
<1>11. \A v \in Worlds : profileHeads'[v] \in Seq(profiles') /\ HeadReads(v)'
  BY <1>1, <1>2, <1>4, <1>5, <1>10, HeadStays DEF ProfileInv
<1>12. \A q \in profiles' : ProfileGood(q)'
  BY <1>1, <1>4, ProfileStays DEF ProfileInv
<1>13. \A v \in Worlds : Kept(profileHeads[v], profileHeads'[v])
  BY <1>2, <1>5, TableStays DEF Kept, s
<1> QED
  BY <1>1, <1>2, <1>4, <1>11, <1>12, <1>13 DEF ProfileInv, LayerReads, ApprovalReads

\* The profile at the head of a world.
LEMMA HeadProfileIs ==
  ASSUME ProfileInv, NEW w \in Worlds, profileHeads[w] # << >>
  PROVE  /\ Len(profileHeads[w]) \in DOMAIN profileHeads[w] /\ HeadProfile(w) \in profiles
         /\ ProfileGood(HeadProfile(w))
<1>1. profileHeads[w] \in Seq(profiles)
  BY DEF ProfileInv
<1>2. Len(profileHeads[w]) \in DOMAIN profileHeads[w] /\ profileHeads[w][Len(profileHeads[w])] \in profiles
  BY <1>1, SMT
<1> QED
  BY <1>2 DEF HeadProfile, ProfileInv

-----------------------------------------------------------------------------
(* Ingress.                                                                *)

\* A step that admits and renders nothing.
LEMMA StayIngress ==
  ASSUME IngressInv, EventsKept, UNCHANGED <<admissions, projections>>
  PROVE  IngressInv'
BY DEF IngressInv, EventsKept, Kept, AdmissionGood, ProjectionGood

\* createEventMessageProjection() renders an inbound event.
LEMMA RenderIngress ==
  ASSUME IngressInv, NEW e, NEW r \in Renderers, CreateEventMessageProjection(e, r)
  PROVE  IngressInv'
<1>1. /\ e \in DOMAIN events /\ events[e].kind = "inbound" /\ projections' = projections \cup {<<e, r>>}
      /\ UNCHANGED <<events, admissions>>
  BY DEF CreateEventMessageProjection, graphVars
<1>2. ProjectionGood(<<e, r>>)
  BY <1>1, SMT DEF ProjectionGood
<1> QED
  BY <1>1, <1>2 DEF IngressInv, AdmissionGood, ProjectionGood

\* admitDarkInboundEvent() admits the event it appends.
LEMMA AdmitIngress ==
  ASSUME IngressInv, WorldInv, EventsKept, NEW w \in Worlds, NEW r \in Renderers,
         AdmitDarkInboundEvent(w, r)
  PROVE  IngressInv'
<1> DEFINE row == [world |-> w, kind |-> "inbound"]
<1>1. /\ events' = Append(events, row) /\ admissions' = Insert(admissions, Len(events'), r)
      /\ UNCHANGED projections
  BY DEF AdmitDarkInboundEvent, AppendWorldEvent
<1>2. row.kind = "inbound"
  BY SMT
<1> HIDE DEF row
<1>3. events \in Seq(ScopedEvent) /\ events' \in Seq(ScopedEvent)
  BY DEF WorldInv, EventsKept
<1> DEFINE m == Len(events')
<1>4. PICK n : n = m
  OBVIOUS
<1>5. n \in DOMAIN events' /\ events'[n] = row /\ n \notin DOMAIN events
  BY <1>1, <1>3, <1>4, SMTT(30)
<1>6. n \notin DOMAIN admissions
  BY <1>5 DEF IngressInv, AdmissionGood
<1>7. /\ DOMAIN admissions' = DOMAIN admissions \cup {n} /\ admissions'[n] = r
      /\ \A e \in DOMAIN admissions : admissions'[e] = admissions[e]
  BY <1>1, <1>4, <1>6 DEF Insert
<1>8. \A e \in DOMAIN admissions : AdmissionGood(e)'
  BY <1>7 DEF IngressInv, AdmissionGood, EventsKept, Kept
<1>9. AdmissionGood(n)'
  BY <1>2, <1>5, <1>7 DEF AdmissionGood
<1>10. \A p \in projections' : ProjectionGood(p)'
  BY <1>1 DEF IngressInv, ProjectionGood, EventsKept, Kept
<1> QED
  BY <1>7, <1>8, <1>9, <1>10 DEF IngressInv

-----------------------------------------------------------------------------
(* The pending batch.                                                      *)

\* A list of a set of numbers, in order.
Enumerates(q, n, S) == q \in [1..n -> S] /\ Increasing(q)

\* An enumeration of the rest, with the least element put in front.
LEMMA EnumerateOneMore ==
  ASSUME NEW S, S \subseteq Nat, NEW n \in Nat, NEW m \in S, \A k \in S : m <= k,
         NEW q, Enumerates(q, n, S \ {m})
  PROVE  \E p : Enumerates(p, n + 1, S)
<1> DEFINE p == [i \in 1..(n + 1) |-> IF i = 1 THEN m ELSE q[i - 1]]
<1>1. \A i \in 1..n : q[i] \in S /\ q[i] # m
  BY DEF Enumerates
<1>2. DOMAIN q = 1..n
  BY DEF Enumerates
<1>3. \A i \in 1..(n + 1) : i # 1 => i - 1 \in 1..n
  BY SMT
<1>4. p \in [1..(n + 1) -> S]
  BY <1>1, <1>3
<1>5. ASSUME NEW i \in 1..(n + 1), NEW j \in 1..(n + 1), i < j PROVE p[i] < p[j]
  <2>1. j # 1 /\ p[j] = q[j - 1] /\ j - 1 \in 1..n
    BY <1>5, SMT
  <2>2. CASE i = 1
    <3>1. p[i] = m /\ q[j - 1] \in S /\ q[j - 1] # m
      BY <1>1, <2>1, <2>2
    <3>2. m <= q[j - 1]
      BY <3>1
    <3>3. m < q[j - 1]
      <4>1. m \in Nat /\ q[j - 1] \in Nat
        BY <3>1
      <4> HIDE DEF p
      <4>. QED
        BY <3>1, <3>2, <4>1, SMTT(30)
    <3>. QED
      BY <2>1, <3>1, <3>3
  <2>3. CASE i # 1
    <3>1. p[i] = q[i - 1] /\ i - 1 \in 1..n
      BY <1>3, <2>3
    <3>2. i - 1 < j - 1
      BY <1>5, SMT
    <3>3. q[i - 1] < q[j - 1]
      BY <1>2, <2>1, <3>1, <3>2 DEF Enumerates, Increasing
    <3>. QED
      BY <2>1, <3>1, <3>3
  <2>. QED
    BY <2>2, <2>3
<1>6. DOMAIN p = 1..(n + 1)
  OBVIOUS
<1> HIDE DEF p
<1>. QED
  BY <1>4, <1>5, <1>6 DEF Enumerates, Increasing

\* Every finite set of numbers can be listed in order.
LEMMA EnumerationExists ==
  ASSUME NEW S, S \subseteq Nat, IsFiniteSet(S)
  PROVE  \E q : Enumerates(q, Cardinality(S), S)
<1> DEFINE Sorts(A) == A \subseteq Nat /\ IsFiniteSet(A) => \E q : Enumerates(q, Cardinality(A), A)
           Bad == {n \in Nat : \E A : A \subseteq Nat /\ IsFiniteSet(A) /\ Cardinality(A) = n
                                      /\ ~\E q : Enumerates(q, Cardinality(A), A)}
<1>1. SUFFICES Bad = {}
  <2>1. Cardinality(S) \in Nat
    BY FS_CardinalityType
  <2>. QED
    BY <2>1
<1>2. SUFFICES ASSUME Bad # {} PROVE FALSE
  OBVIOUS
<1>3. PICK n \in Bad : \A k \in Bad : n <= k
  <2>1. Bad \subseteq Nat
    OBVIOUS
  <2> HIDE DEF Bad
  <2>. QED
    BY <1>2, <2>1, HasMin
<1>4. PICK A : /\ A \subseteq Nat /\ IsFiniteSet(A) /\ Cardinality(A) = n
               /\ ~\E q : Enumerates(q, n, A)
  BY <1>3
<1>5. n \in Nat
  BY <1>3
<1>6. CASE A = {}
  <2>1. n = 0
    BY <1>4, <1>6, FS_EmptySet
  <2>2. Enumerates(<<>>, 0, A)
    BY <1>6, SMTT(30) DEF Enumerates, Increasing
  <2>. QED
    BY <1>4, <2>1, <2>2
<1>7. CASE A # {}
  <2>1. PICK m \in A : \A k \in A : m <= k
    BY <1>4, <1>7, HasMin
  <2>2. IsFiniteSet(A \ {m}) /\ Cardinality(A \ {m}) = n - 1
    BY <1>4, FS_RemoveElement
  <2>3. n - 1 \in Nat
    BY <2>2, FS_CardinalityType
  <2>4. n - 1 \notin Bad
    <3>1. ~(n <= n - 1)
      BY <1>5, SMTT(30)
    <3> HIDE DEF Bad
    <3>. QED
      BY <1>3, <3>1
  <2>5. PICK q : Enumerates(q, n - 1, A \ {m})
    BY <1>4, <2>2, <2>3, <2>4
  <2>6. \E p : Enumerates(p, (n - 1) + 1, A)
    BY <1>4, <2>1, <2>3, <2>5, EnumerateOneMore
  <2>7. (n - 1) + 1 = n
    BY <1>5, SMTT(30)
  <2>. QED
    BY <1>4, <2>6, <2>7
<1>. QED
  BY <1>6, <1>7

\* The pending batch lists at most limit admissions, in order.
LEMMA PendingBatchIs ==
  ASSUME WorldInv, IngressInv, NEW limit \in Nat, PendingBatch(limit) # << >>
  PROVE  /\ PendingBatch(limit) \in Seq(DOMAIN admissions)
         /\ Increasing(PendingBatch(limit)) /\ Len(PendingBatch(limit)) \in 1..limit
<1> DEFINE S == BatchEvents(limit)
           es == PendingBatch(limit)
           upTo(e) == {d \in DOMAIN admissions : d <= e}
<1>1. S \subseteq DOMAIN admissions
  BY DEF BatchEvents
<1>2. \A e \in S : Cardinality(upTo(e)) <= limit
  BY DEF BatchEvents
<1>3. Len(events) \in Nat /\ DOMAIN events = 1..Len(events)
  BY SMT DEF WorldInv
<1>4. DOMAIN admissions \subseteq 1..Len(events)
  BY <1>3 DEF IngressInv, AdmissionGood
<1> HIDE DEF S
<1>5. IsFiniteSet(DOMAIN admissions)
  <2>1. IsFiniteSet(1..Len(events))
    <3>1. 1 \in Int /\ Len(events) \in Int
      BY <1>3, SMTT(30)
    <3> QED
      BY <3>1, FS_Interval
  <2> QED
    BY <1>4, <2>1, FS_Subset
<1>6. IsFiniteSet(S) /\ Cardinality(S) \in Nat
  BY <1>1, <1>5, FS_Subset, FS_CardinalityType
<1>7. S \subseteq Nat /\ S \subseteq 0..Len(events)
  BY <1>1, <1>3, <1>4, SMTT(30)
<1>8. \E q : Enumerates(q, Cardinality(S), S)
  BY <1>6, <1>7, EnumerationExists
<1>9. es \in [1..Cardinality(S) -> S] /\ Increasing(es)
  BY <1>8 DEF PendingBatch, Enumerates, S
<1> HIDE DEF es
<1>10. es \in Seq(S) /\ Len(es) = Cardinality(S)
  BY <1>6, <1>9, ListIsSeq
<1>11. es # << >>
  BY SMT DEF es
<1>12. Len(es) # 0
  BY <1>10, <1>11, SMTT(30)
<1>13. Cardinality(S) <= limit
  <2>1. S # {}
    BY <1>10, <1>12, FS_EmptySet
  <2>2. Max(S) \in S /\ \A e \in S : e <= Max(S)
    BY <1>3, <1>7, <2>1, MaxIs
  <2>3. S \subseteq upTo(Max(S))
    BY <1>1, <2>2
  <2>4. IsFiniteSet(upTo(Max(S)))
    <3>1. upTo(Max(S)) \subseteq DOMAIN admissions
      OBVIOUS
    <3> QED
      BY <1>5, <3>1, FS_Subset
  <2>5. Cardinality(upTo(Max(S))) \in Nat /\ Cardinality(S) <= Cardinality(upTo(Max(S)))
    BY <2>3, <2>4, FS_Subset, FS_CardinalityType
  <2>6. Cardinality(upTo(Max(S))) <= limit
    BY <1>2, <2>2
  <2> HIDE DEF upTo
  <2> QED
    BY <1>6, <2>5, <2>6, SMTT(30)
<1>14. Len(es) \in 1..limit
  BY <1>6, <1>10, <1>12, <1>13, SMTT(30)
<1>15. es \in Seq(DOMAIN admissions)
  BY <1>1, <1>10, SeqFacts
<1> QED
  BY <1>9, <1>14, <1>15 DEF es

\* So it is a list of events of one rendered world, from first to last.
LEMMA PendingEvents ==
  ASSUME WorldInv, IngressInv, NEW es \in Seq(DOMAIN admissions), Increasing(es), es # << >>
  PROVE  /\ es \in Seq(1..MaxEvents) /\ \A i \in DOMAIN es : es[i] \in DOMAIN events
         /\ events[es[1]].world \in Worlds /\ admissions[es[1]] \in Renderers
         /\ 1 <= es[1] /\ es[1] <= es[Len(es)]
<1>1. events \in Seq(ScopedEvent) /\ Len(events) <= MaxEvents
  BY DEF WorldInv
<1>2. DOMAIN events \subseteq 1..MaxEvents /\ \A e \in DOMAIN events : events[e].world \in Worlds
  <2>1. DOMAIN events \subseteq 1..MaxEvents
    BY <1>1, GraphAssumption, SMTT(30)
  <2>2. \A e \in DOMAIN events : events[e] \in ScopedEvent
    BY <1>1, SMTT(30)
  <2> QED
    BY <2>1, <2>2, SMTT(30) DEF ScopedEvent
<1>3. DOMAIN admissions \subseteq DOMAIN events
  BY DEF IngressInv, AdmissionGood
<1>4. DOMAIN admissions \subseteq 1..MaxEvents
  BY <1>2, <1>3
<1>5. /\ 1 \in DOMAIN es /\ Len(es) \in DOMAIN es /\ (1 < Len(es) \/ Len(es) = 1)
      /\ \A i \in DOMAIN es : es[i] \in DOMAIN admissions
  BY SeqFacts, DOMAIN admissions \subseteq DOMAIN admissions
<1>6. es \in Seq(1..MaxEvents)
  BY <1>4, SeqFacts
<1>7. es[1] \in 1..MaxEvents /\ es[Len(es)] \in 1..MaxEvents
  BY <1>4, <1>5
<1>8. es[1] < es[Len(es)] \/ es[1] = es[Len(es)]
  BY <1>5 DEF Increasing
<1>9. 1 <= es[1] /\ es[1] <= es[Len(es)]
  BY <1>7, <1>8, GraphAssumption, SMTT(30)
<1>10. events[es[1]].world \in Worlds /\ admissions[es[1]] \in Renderers
  BY <1>2, <1>3, <1>5 DEF IngressInv, AdmissionGood
<1> QED
  BY <1>3, <1>5, <1>6, <1>9, <1>10

-----------------------------------------------------------------------------
(* The assembly of a branch with its manifest, view and binding.           *)

\* The epoch of the assembled branch is a number.
LEMMA NextEpoch ==
  ASSUME LineInv
  PROVE  1 + Max({0} \cup {branches[c].epoch : c \in DOMAIN branches}) \in Nat
<1> DEFINE E == {0} \cup {branches[c].epoch : c \in DOMAIN branches}
<1>1. PICK n \in Nat : \A c \in DOMAIN branches : branches[c].epoch <= n
  BY DEF LineInv
<1>2. \A c \in DOMAIN branches : branches[c].epoch \in Nat
  BY SMTT(30) DEF LineInv, BranchReads, BranchRecord
<1>3. E \subseteq 0..n /\ E # {}
  BY <1>1, <1>2, SMTT(30)
<1> HIDE DEF E
<1>4. Max(E) \in E
  BY <1>3, MaxIs
<1>5. Max(E) \in Nat
  <2>1. Max(E) \in 0..n
    BY <1>3, <1>4
  <2> QED
    BY <2>1, SMTT(30)
<1> QED
  BY <1>5, SMTT(30) DEF E

\* A list in order names nothing twice.
LEMMA IncreasingInjective ==
  ASSUME NEW es \in Seq(Nat), Increasing(es)
  PROVE  IsInjective(es)
<1>1. ASSUME NEW i \in DOMAIN es, NEW j \in DOMAIN es, es[i] = es[j] PROVE i = j
  <2>1. i \in Nat /\ j \in Nat /\ es[i] \in Nat /\ es[j] \in Nat
    BY SMT
  <2>2. i < j \/ j < i \/ i = j
    BY <2>1, SMTT(30)
  <2>3. ~(es[i] < es[j]) /\ ~(es[j] < es[i])
    BY <1>1, <2>1, SMTT(30)
  <2> QED
    BY <2>2, <2>3 DEF Increasing
<1> QED
  BY <1>1 DEF IsInjective

\* What the assembly writes.
Assembled(b, w, es, r) ==
  /\ b \notin DOMAIN starts
  /\ ManifestAdded(b, es, << >>, r, HeadProfile(w).policy)
  /\ ViewAdded(b, ProfileLayers(HeadProfile(w)), HeadProfile(w).renderer, es, r, HeadProfile(w).policy)
  /\ LayersFit(w, HeadProfile(w).renderer, HeadProfile(w).policy, ProfileLayers(HeadProfile(w)))
  /\ MessagesFit(es, r)
  /\ \A i \in DOMAIN es : es[i] \in DOMAIN events /\ events[es[i]].world = w
  /\ \E epoch \in Nat : OpenBranch(b, w, epoch)

\* What assembleDarkLocalBranchRecords() leaves behind.
LEMMA AssembleIs ==
  ASSUME LineInv, WorldInv, ProfileInv, NEW b, NEW w \in Worlds, NEW es \in Seq(1..MaxEvents),
         NEW r \in Renderers, AssembleRecords(b, w, es, r)
  PROVE  Assembled(b, w, es, r)
<1> DEFINE p == HeadProfile(w)
           ls == ProfileLayers(p)
           m == [events |-> es, shares |-> << >>, renderer |-> r, policy |-> p.policy]
<1>1. /\ LayersFit(w, p.renderer, p.policy, ls) /\ InsertManifest(b, es, << >>, r, p.policy)
      /\ InsertView(b, p.renderer, ls, m) /\ MessagesFit(es, r) /\ profileHeads[w] # << >>
      /\ \A i \in DOMAIN es : es[i] \in DOMAIN events /\ events[es[i]].world = w
      /\ OpenBranch(b, w, 1 + Max({0} \cup {branches[c].epoch : c \in DOMAIN branches}))
  BY DEF AssembleRecords
<1>2. \E epoch \in Nat : OpenBranch(b, w, epoch)
  BY <1>1, NextEpoch
<1>3. b \notin DOMAIN starts
  BY <1>2, OpenIs
<1>4. b \notin DOMAIN manifests /\ b \notin DOMAIN views
  BY <1>3 DEF WorldInv, ManifestGood, ViewGood
<1>5. m.events = es /\ m.renderer = r /\ m.policy = p.policy
  BY SMT
<1>6. r \in Nat /\ << >> \in Seq(GrantIds)
  BY ViewAssumption, SMTT(30)
<1>7. ProfileGood(p)
  BY <1>1, HeadProfileIs
<1> HIDE DEF p, m, ls
<1>8. p.policy \in Nat \ {0}
  BY <1>7, SMTT(30) DEF ProfileGood, ProfileReads
<1>9. ManifestAdded(b, es, << >>, r, p.policy)
  BY <1>1, <1>4, <1>6, <1>8, InsertManifestIs
<1>10. ViewAdded(b, ls, p.renderer, m.events, m.renderer, m.policy)
  BY <1>1, <1>4, InsertViewIs
<1>11. ViewAdded(b, ls, p.renderer, es, r, p.policy)
  BY <1>5, <1>10
<1> QED
  BY <1>1, <1>2, <1>3, <1>9, <1>11 DEF p, ls, Assembled

\* The assembly selects events and layers of the world it opens a branch in.
LEMMA AssembleWorlds ==
  ASSUME LineInv, EffectInv, WorldInv, ProfileInv, NEW b, NEW w \in Worlds,
         NEW es \in Seq(1..MaxEvents), NEW r \in Renderers, AssembleRecords(b, w, es, r),
         UNCHANGED <<events, capsules, grants>>
  PROVE  WorldInv' /\ WorldKept
<1>0. Assembled(b, w, es, r)
  BY AssembleIs
<1>1. /\ DOMAIN manifests' = DOMAIN manifests \cup {b} /\ Kept(manifests, manifests')
      /\ manifests'[b] \in ManifestRecord
      /\ manifests'[b].events = es /\ manifests'[b].shares = << >>
  BY <1>0 DEF Assembled, ManifestAdded
<1>2. /\ DOMAIN views' = DOMAIN views \cup {b} /\ Kept(views, views')
      /\ views'[b].layers = ProfileLayers(HeadProfile(w)) /\ views'[b].messages = es
  BY <1>0 DEF Assembled, ViewAdded
<1>a. LayersFit(w, HeadProfile(w).renderer, HeadProfile(w).policy, ProfileLayers(HeadProfile(w)))
  BY <1>0 DEF Assembled
<1>3. /\ MessagesFit(es, r)
      /\ \A i \in DOMAIN es : es[i] \in DOMAIN events /\ events[es[i]].world = w
  BY <1>0 DEF Assembled
<1>4. PICK epoch \in Nat : OpenBranch(b, w, epoch)
  BY <1>0 DEF Assembled
<1>5. /\ BranchesKept /\ \A c \in DOMAIN branches' \ DOMAIN branches : BranchGood(c)'
      /\ \A c \in DOMAIN starts' \ DOMAIN starts : StartGood(c)'
      /\ b \in DOMAIN starts' /\ b \in DOMAIN branches' /\ branches'[b].world = w
  BY <1>4, OpenKeeps
<1>6. EventsKept /\ GrantsKept
  BY EventsStay, GrantsStay
<1>7. CapsuleStep
  BY <1>5, CapsulesStay DEF BranchesKept
<1>8. WorldKept
  BY <1>1, <1>2, <1>5, <1>6, <1>7 DEF WorldKept
<1>9. ManifestGood(b)'
  <2>1. IsInjective(es)
    <3>1. es \in Seq(Nat)
      BY GraphAssumption, SMTT(30)
    <3> QED
      BY <1>3, <3>1, IncreasingInjective DEF MessagesFit
  <2>2. DOMAIN << >> = {} /\ IsInjective(<< >>)
    BY SMT DEF IsInjective
  <2>3. ManifestReads(b)'
    BY <1>1, <1>3, <1>5, <2>1, <2>2 DEF ManifestReads
  <2> QED
    BY <1>1, <1>3, <1>5, <2>2, <2>3 DEF ManifestGood
<1>10. ViewGood(b)'
  <2>1. \A i \in DOMAIN ProfileLayers(HeadProfile(w)) :
          ProfileLayers(HeadProfile(w))[i].world \in {None, w}
    BY <1>a, LayersOfWorld
  <2> QED
    BY <1>1, <1>2, <1>5, <2>1 DEF ViewGood
<1>11. NewGood
  BY <1>1, <1>2, <1>5, <1>9, <1>10 DEF NewGood
<1> QED
  BY <1>8, <1>11, WorldFrame

-----------------------------------------------------------------------------
(* The readers of request views.                                           *)

\* Messages and layers that fit keep fitting.
LEMMA MessagesStay ==
  ASSUME projections \subseteq projections', NEW es, NEW r, MessagesFit(es, r)
  PROVE  MessagesFit(es, r)'
BY DEF MessagesFit, Increasing

\* Layers that fit keep fitting.
LEMMA LayersStay ==
  ASSUME layers \subseteq layers', NEW w, NEW r, NEW p, NEW ls, LayersFit(w, r, p, ls)
  PROVE  LayersFit(w, r, p, ls)'
<1>1. \A i \in DOMAIN ls : ls[i] \in layers'
  BY DEF LayersFit
<1>2. Increasing([i \in DOMAIN ls |-> KindOrder(ls[i].kind)])'
  BY DEF LayersFit, Increasing, KindOrder, Kinds
<1> QED
  BY <1>1, <1>2 DEF LayersFit

\* What no step takes from the rows a view rests on.
ViewsKept ==
  /\ WorldKept /\ RowsGrow /\ projections \subseteq projections'
  /\ \A w \in Worlds : Kept(profileHeads[w], profileHeads'[w])
  /\ Kept(bindings, bindings') /\ Kept(attempts, attempts')
  /\ DOMAIN recoveries \subseteq DOMAIN recoveries'

\* The rows a step inserts read back.
NewReads ==
  /\ \A b \in DOMAIN views' \ DOMAIN views : views'[b].layers \in Seq(layers') /\ ViewReads(b)'
  /\ \A b \in DOMAIN bindings' \ DOMAIN bindings : BindingReads(b)'
  /\ \A b \in DOMAIN attempts' \ DOMAIN attempts : b \in DOMAIN bindings' /\ AttemptReads(b)'
  /\ \A b \in abandoned' \ abandoned : AbandonmentReads(b)'

\* A view that reads back keeps doing so.
LEMMA ViewStays ==
  ASSUME LineInv, WorldInv, WorldInv', ViewsKept, NEW b \in DOMAIN views, ViewReads(b)
  PROVE  ViewReads(b)'
<1>1. /\ b \in DOMAIN manifests /\ b \in DOMAIN starts /\ b \in DOMAIN branches
      /\ manifests[b].shares = << >>
      /\ views[b].messageRenderer = manifests[b].renderer /\ views[b].policy = manifests[b].policy
      /\ views[b].messages = manifests[b].events
      /\ MessagesFit(views[b].messages, views[b].messageRenderer)
      /\ LayersFit(branches[b].world, views[b].renderer, views[b].policy, views[b].layers)
  BY DEF ViewReads, ManifestReads
<1>2. /\ b \in DOMAIN manifests' /\ manifests'[b] = manifests[b] /\ views'[b] = views[b]
      /\ b \in DOMAIN starts' /\ branches'[b].world = branches[b].world
      /\ layers \subseteq layers' /\ projections \subseteq projections'
  BY <1>1 DEF ViewsKept, WorldKept, BranchesKept, Kept, RowsGrow
<1>3. ManifestReads(b)'
  BY <1>2 DEF WorldInv, ManifestGood
<1>4. PICK v, w : v = views[b] /\ w = branches[b].world
  OBVIOUS
<1>5. MessagesFit(v.messages, v.messageRenderer)'
  BY <1>1, <1>2, <1>4, MessagesStay
<1>6. LayersFit(w, v.renderer, v.policy, v.layers)'
  BY <1>1, <1>2, <1>4, LayersStay
<1>7. views'[b] = v /\ branches'[b].world = w
  BY <1>2, <1>4
<1> QED
  BY <1>1, <1>2, <1>3, <1>4, <1>5, <1>6, <1>7 DEF ViewReads

\* So does a binding: the profile it names headed its world at that revision.
LEMMA BindingStays ==
  ASSUME LineInv, WorldInv, WorldInv', ProfileInv', ViewsKept,
         NEW b \in DOMAIN bindings, BindingReads(b)
  PROVE  BindingReads(b)'
<1>1. PICK w, n, p, v : w = branches[b].world /\ n = bindings[b].revision
                        /\ p = bindings[b].profile /\ v = views[b]
  OBVIOUS
<1>2. /\ b \in DOMAIN views /\ ViewReads(b) /\ n \in DOMAIN profileHeads[w]
      /\ profileHeads[w][n] = p /\ BindingFits(p, v)
  BY <1>1 DEF BindingReads
<1>3. b \in DOMAIN starts /\ b \in DOMAIN branches /\ w \in Worlds
  BY <1>1, <1>2 DEF ViewReads, LineInv, WorldInv, StartGood
<1>4. /\ b \in DOMAIN views' /\ views'[b] = v /\ branches'[b].world = w /\ bindings'[b] = bindings[b]
  BY <1>1, <1>2, <1>3 DEF ViewsKept, WorldKept, BranchesKept, Kept
<1>5. n \in DOMAIN profileHeads'[w] /\ profileHeads'[w][n] = p
  BY <1>2, <1>3 DEF ViewsKept, Kept
<1>6. ViewReads(b)'
  BY <1>2, ViewStays
<1>7. HeadReads(w)'
  BY <1>3 DEF ProfileInv
<1>8. bindings'[b].revision = n /\ bindings'[b].profile = p
  BY <1>1, <1>4
<1> QED
  BY <1>2, <1>4, <1>5, <1>6, <1>7, <1>8 DEF BindingReads, BindingFits

\* A step that keeps the rows and inserts readable ones keeps ViewInv.
LEMMA ViewFrame ==
  ASSUME LineInv, WorldInv, WorldInv', ProfileInv', ViewInv, ViewsKept, NewReads
  PROVE  ViewInv'
<1>1. ASSUME NEW b \in DOMAIN views PROVE views'[b].layers \in Seq(layers') /\ ViewReads(b)'
  <2>1. views[b].layers \in Seq(layers) /\ ViewReads(b) /\ layers \subseteq layers' /\ views'[b] = views[b]
    BY DEF ViewInv, ViewsKept, RowsGrow, WorldKept, Kept
  <2>2. views[b].layers \in Seq(layers')
    BY <2>1, SeqFacts
  <2> QED
    BY <2>1, <2>2, ViewStays
<1>2. \A b \in DOMAIN bindings : BindingReads(b)'
  BY BindingStays DEF ViewInv
<1>3. ASSUME NEW b \in DOMAIN attempts PROVE b \in DOMAIN bindings' /\ AttemptReads(b)'
  <2>1. b \in DOMAIN bindings /\ AttemptReads(b) /\ BindingReads(b)
    BY DEF ViewInv
  <2>2. b \in DOMAIN bindings' /\ views'[b] = views[b] /\ attempts'[b] = attempts[b]
    BY <2>1 DEF ViewsKept, WorldKept, Kept, BindingReads
  <2> QED
    BY <2>1, <2>2 DEF AttemptReads
<1>4. \A b \in abandoned : AbandonmentReads(b)'
  BY DEF ViewInv, AbandonmentReads, ViewsKept, Kept
<1> QED
  BY <1>1, <1>2, <1>3, <1>4 DEF ViewInv, NewReads

\* The layers of a profile are rendered ones.
LEMMA ProfileLayersIs == ASSUME NEW p, ProfileLineage(p) PROVE ProfileLayers(p) \in Seq(layers)
<1>1. \A i \in Named(p) : p.approvals[i].layer \in layers
  BY DEF ProfileLineage
<1>2. 1 \in Named(p) /\ 2 \in Named(p)
  BY DEF ProfileLineage
<1>3. 3 \in DOMAIN Roles /\ 4 \in DOMAIN Roles
  BY SMT DEF Roles
<1>4. \A i \in {3, 4} : p.approvals[i] # None => i \in Named(p)
  BY <1>3 DEF Named
<1> DEFINE optional(i) == IF p.approvals[i] = None THEN << >> ELSE <<p.approvals[i].layer>>
           two == <<p.approvals[1].layer, p.approvals[2].layer>>
<1>5. two \in Seq(layers)
  <2>1. p.approvals[1].layer \in layers /\ p.approvals[2].layer \in layers
    BY <1>1, <1>2
  <2> QED
    BY <2>1, SMTT(30)
<1>6. \A i \in {3, 4} : optional(i) \in Seq(layers)
  <2> TAKE i \in {3, 4}
  <2>1. CASE p.approvals[i] = None
    BY <2>1, SMTT(30)
  <2>2. CASE p.approvals[i] # None
    <3>1. p.approvals[i].layer \in layers
      BY <1>1, <1>4, <2>2
    <3> QED
      BY <2>2, <3>1, SMTT(30)
  <2> QED
    BY <2>1, <2>2
<1>7. optional(3) \in Seq(layers) /\ optional(4) \in Seq(layers)
  <2> HIDE DEF optional
  <2> QED
    BY <1>6, SMTT(30)
<1>8. ProfileLayers(p) = two \o optional(3) \o optional(4)
  BY DEF ProfileLayers
<1> HIDE DEF two, optional
<1> QED
  BY <1>5, <1>7, <1>8, SMTT(30)

\* What a fitting layer shows.
LEMMA FittingLayer ==
  ASSUME NEW x, NEW w,
         \/ x.visibility = "global_contract" /\ x.world = None /\ x.kind = "runtime_contract"
         \/ x.visibility = "integrated_self" /\ x.world = None
            /\ x.kind \in {"identity", "integrated_self"}
         \/ x.visibility = "world" /\ x.world = w /\ x.kind = "world_policy"
  PROVE  /\ x.visibility \notin {"legacy_mixed", "integrated_self_candidate", "private_root"}
         /\ x.world = IF x.visibility = "world" THEN w ELSE None
         /\ x.visibility = "global_contract" => x.kind = "runtime_contract"
         /\ x.visibility = "integrated_self" => x.kind \in {"identity", "integrated_self"}
         /\ x.visibility = "world" => x.kind = "world_policy"
BY SMT

\* The checks of the store on the layers of a view imply the separate ones of
\* the materializer.
LEMMA LayersMaterialize ==
  ASSUME ProfileInv, NEW w, NEW r, NEW p, NEW ls \in Seq(layers), LayersFit(w, r, p, ls)
  PROVE  SystemMaterializes(w, r, p, ls)
<1>1. /\ Len(ls) \in Nat /\ DOMAIN ls = 1..Len(ls)
  BY SMT
<1>2. /\ ls[1].kind = "runtime_contract"
      /\ \E i \in DOMAIN ls : ls[i].kind \in {"identity", "integrated_self"}
      /\ \A i \in DOMAIN ls : ls[i] \in layers /\ ls[i].renderer = r /\ ls[i].policy = p
  BY DEF LayersFit
<1>3. \A i, j \in DOMAIN ls : i < j => KindOrder(ls[i].kind) < KindOrder(ls[j].kind)
  <2> DEFINE K == [i \in DOMAIN ls |-> KindOrder(ls[i].kind)]
  <2>1. \A i, j \in DOMAIN K : i < j => K[i] < K[j]
    BY DEF LayersFit, Increasing
  <2> QED
    BY <2>1
<1>4. \A i \in DOMAIN ls : KindOrder(ls[i].kind) \in Nat
  <2> TAKE i \in DOMAIN ls
  <2>1. ls[i].kind \in Range(Kinds)
    BY <1>2 DEF ProfileInv, LayerReads
  <2>2. \E k \in DOMAIN Kinds : Kinds[k] = ls[i].kind
    BY <2>1 DEF Range
  <2>3. KindOrder(ls[i].kind) \in DOMAIN Kinds
    BY <2>2 DEF KindOrder
  <2> QED
    BY <2>3, SMTT(30) DEF Kinds
<1>5. IsInjective(ls)
  <2> SUFFICES ASSUME NEW i \in DOMAIN ls, NEW j \in DOMAIN ls, ls[i] = ls[j] PROVE i = j
    BY DEF IsInjective
  <2>1. i < j \/ j < i \/ i = j
    BY <1>1, SMTT(30)
  <2>2. ~(KindOrder(ls[i].kind) < KindOrder(ls[i].kind))
    BY <1>4, SMT
  <2> QED
    BY <1>3, <2>1, <2>2
<1>6. ASSUME NEW i \in DOMAIN ls
      PROVE  /\ ls[i].visibility \notin {"legacy_mixed", "integrated_self_candidate", "private_root"}
             /\ ls[i].world = IF ls[i].visibility = "world" THEN w ELSE None
             /\ ls[i].visibility = "global_contract" => ls[i].kind = "runtime_contract"
             /\ ls[i].visibility = "integrated_self" => ls[i].kind \in {"identity", "integrated_self"}
             /\ ls[i].visibility = "world" => ls[i].kind = "world_policy"
  <2> PICK x : x = ls[i]
    OBVIOUS
  <2>1. \/ x.visibility = "global_contract" /\ x.world = None /\ x.kind = "runtime_contract"
        \/ x.visibility = "integrated_self" /\ x.world = None
           /\ x.kind \in {"identity", "integrated_self"}
        \/ x.visibility = "world" /\ x.world = w /\ x.kind = "world_policy"
    BY DEF LayersFit
  <2> QED
    BY <2>1, FittingLayer
<1>7. \A i \in DOMAIN ls : i > 1 => KindOrder(ls[i - 1].kind) < KindOrder(ls[i].kind)
  <2> TAKE i \in DOMAIN ls
  <2> HAVE i > 1
  <2>1. i - 1 \in DOMAIN ls /\ i - 1 < i
    BY <1>1, SMT
  <2> QED
    BY <1>3, <2>1
<1> QED
  BY <1>2, <1>5, <1>6, <1>7 DEF SystemMaterializes

\* Every stored view materializes.
LEMMA ViewMaterializes ==
  ASSUME WorldInv, ProfileInv, ViewInv, NEW b \in DOMAIN views
  PROVE  RequestMaterializes(b)
<1>1. views[b].layers \in Seq(layers) /\ ViewReads(b)
  BY DEF ViewInv
<1>2. SystemMaterializes(branches[b].world, views[b].renderer, views[b].policy, views[b].layers)
  BY <1>1, LayersMaterialize DEF ViewReads
<1>3. PICK es, r, w : es = views[b].messages /\ r = views[b].messageRenderer /\ w = branches[b].world
  OBVIOUS
<1>4. /\ MessagesFit(es, r) /\ \A i \in DOMAIN es : events[es[i]].world = w
      /\ manifests[b] \in ManifestRecord /\ es = manifests[b].events
  BY <1>1, <1>3 DEF ViewReads, ManifestReads
<1>5. es \in Seq(1..MaxEvents)
  BY <1>4, SMT DEF ManifestRecord
<1>6. \A i \in DOMAIN es : i > 1 => i - 1 \in DOMAIN es /\ i - 1 < i
  BY <1>5, SMT
<1>7. \A i \in DOMAIN es : i > 1 => es[i - 1] < es[i]
  BY <1>4, <1>6 DEF MessagesFit, Increasing
<1>8. ConversationMaterializes(w, r, es)
  BY <1>4, <1>7 DEF ConversationMaterializes, MessagesFit
<1> QED
  BY <1>1, <1>2, <1>3, <1>8 DEF RequestMaterializes

-----------------------------------------------------------------------------
(* The steps of the store.                                                 *)

\* The inductive invariant.
GraphInv == LineInv /\ EffectInv /\ WorldInv /\ IngressInv /\ ProfileInv /\ ViewInv

\* Tables that stay keep their rows.
LEMMA ViewsStay ==
  ASSUME WorldKept, RowsGrow, projections \subseteq projections',
         UNCHANGED <<profileHeads, bindings, attempts, recoveries>>
  PROVE  ViewsKept
BY TableStays DEF ViewsKept

\* A step of the first half of the store that leaves the attempts alone.
LEMMA GraphEnds ==
  ASSUME GraphInv, LineInv', EffectInv', WorldInv', WorldKept,
         UNCHANGED <<viewVars, attempts, abandoned, recoveries>>
  PROVE  GraphInv'
<1>1. UNCHANGED <<layers, approvals, profiles, profileHeads, projections, admissions, views, bindings>>
  BY DEF viewVars
<1>2. LineInv /\ WorldInv /\ IngressInv /\ ProfileInv /\ ViewInv
  BY DEF GraphInv
<1>3. IngressInv'
  BY <1>1, <1>2, StayIngress DEF WorldKept
<1>4. ProfileInv' /\ RowsGrow
  BY <1>1, <1>2, StayProfiles
<1>5. ViewsKept
  BY <1>1, <1>4, ViewsStay
<1>6. NewReads
  BY <1>1 DEF NewReads
<1>7. ViewInv'
  BY <1>2, <1>4, <1>5, <1>6, ViewFrame
<1> QED
  BY <1>3, <1>4, <1>7 DEF GraphInv

\* A step that leaves the branches and what they leave behind alone.
LEMMA QuietGraph ==
  ASSUME GraphInv, UNCHANGED <<branches, starts, coordinator, head, advances, effects, capsules>>
  PROVE  LineInv' /\ EffectInv'
<1>1. LineInv'
  BY StayLine DEF GraphInv
<1>2. EffectInv'
  BY StayEffects DEF GraphInv
<1> QED
  BY <1>1, <1>2

\* appendWorldEvent().
LEMMA AppendEventInv ==
  ASSUME GraphInv, UNCHANGED viewVars, NEW w \in Worlds, NEW kind \in {"inbound", "other"},
         AppendWorldEvent(w, kind),
         UNCHANGED <<branches, starts, coordinator, head, advances, manifests, capsules, grants,
                     effects, recoveries, imports, attempts, abandoned, mode>>
  PROVE  GraphInv'
<1>1. LineInv' /\ EffectInv'
  BY QuietGraph
<1>2. WorldInv' /\ WorldKept
  BY EventWorlds DEF GraphInv, viewVars
<1> QED
  BY <1>1, <1>2, GraphEnds

\* beginCoordinatedBranch().
LEMMA BeginInv ==
  ASSUME GraphInv, UNCHANGED viewVars, NEW b \in BranchIds, NEW w \in Worlds,
         BeginCoordinatedBranch(b, w, 1, head.revision)
  PROVE  GraphInv'
<1>1. /\ OpenBranch(b, w, 1)
      /\ UNCHANGED <<events, head, advances, manifests, capsules, grants, effects, recoveries,
                     attempts, abandoned>>
  BY DEF BeginCoordinatedBranch
<1>2. 1 \in Nat /\ w \in AllWorlds
  BY SMT DEF AllWorlds
<1>3. LineInv'
  BY <1>1, <1>2, OpenLine DEF GraphInv
<1>4. EffectInv'
  BY <1>1, OpenEffects DEF GraphInv
<1>5. WorldInv' /\ WorldKept
  BY <1>1, OpenWorlds DEF GraphInv, viewVars
<1> QED
  BY <1>1, <1>3, <1>4, <1>5, GraphEnds

\* createManifest().
LEMMA CreateManifestInv ==
  ASSUME GraphInv, UNCHANGED viewVars, NEW b, NEW es \in EventLists, NEW gs \in ShareLists,
         NEW r \in Renderers, NEW p \in Policies, CreateManifest(b, es, gs, r, p)
  PROVE  GraphInv'
<1>1. UNCHANGED <<branches, starts, coordinator, head, advances, effects, capsules, recoveries,
                  attempts, abandoned>>
  BY DEF CreateManifest
<1>2. LineInv' /\ EffectInv'
  BY <1>1, QuietGraph
<1>3. WorldInv' /\ WorldKept
  BY ManifestWorlds DEF GraphInv, viewVars
<1> QED
  BY <1>1, <1>2, <1>3, GraphEnds

\* createCapsule().
LEMMA CreateCapsuleInv ==
  ASSUME GraphInv, UNCHANGED viewVars, NEW b, NEW ps,
         NEW kind \in {"private", "root_receipt", "self_delta", "legacy_opaque"},
         CreateCapsule(b, kind, ps)
  PROVE  GraphInv'
<1>1. UNCHANGED <<branches, starts, coordinator, head, advances, recoveries, attempts, abandoned>>
  BY DEF CreateCapsule
<1>2. LineInv'
  BY <1>1, StayLine DEF GraphInv
<1>3. EffectInv'
  BY CreateCapsuleEffects DEF GraphInv
<1>4. WorldInv' /\ WorldKept
  BY CreateCapsuleWorlds DEF GraphInv, viewVars
<1> QED
  BY <1>1, <1>2, <1>3, <1>4, GraphEnds

\* createShareGrant().
LEMMA CreateGrantInv ==
  ASSUME GraphInv, UNCHANGED viewVars, NEW g \in GrantIds, NEW c, NEW w \in Worlds,
         CreateShareGrant(g, c, w)
  PROVE  GraphInv'
<1>1. UNCHANGED <<branches, starts, coordinator, head, advances, effects, capsules, recoveries,
                  attempts, abandoned>>
  BY DEF CreateShareGrant
<1>2. LineInv' /\ EffectInv'
  BY <1>1, QuietGraph
<1>3. WorldInv' /\ WorldKept
  BY CreateGrantWorlds DEF GraphInv, viewVars
<1> QED
  BY <1>1, <1>2, <1>3, GraphEnds

\* revokeShareGrant().
LEMMA RevokeGrantInv ==
  ASSUME GraphInv, UNCHANGED viewVars, NEW g, RevokeShareGrant(g)
  PROVE  GraphInv'
<1>1. UNCHANGED <<branches, starts, coordinator, head, advances, effects, capsules, recoveries,
                  attempts, abandoned>>
  BY DEF RevokeShareGrant
<1>2. LineInv' /\ EffectInv'
  BY <1>1, QuietGraph
<1>3. WorldInv' /\ WorldKept
  BY RevokeGrantWorlds DEF GraphInv, viewVars
<1> QED
  BY <1>1, <1>2, <1>3, GraphEnds

\* The operations on effects alone.
LEMMA EffectsInv ==
  ASSUME GraphInv, UNCHANGED viewVars, EffectInv',
         UNCHANGED <<events, branches, starts, coordinator, head, advances, manifests, capsules,
                     grants, recoveries, attempts, abandoned>>
  PROVE  GraphInv'
<1>1. LineInv'
  BY StayLine DEF GraphInv
<1>2. WorldInv' /\ WorldKept
  BY StayWorlds DEF GraphInv, viewVars
<1> QED
  BY <1>1, <1>2, GraphEnds

\* prepareEffect(), resolveEffect(), recoverPreparedEffects().
LEMMA EffectOperationsInv ==
  ASSUME GraphInv, UNCHANGED viewVars,
         \/ \E x \in EffectIds, b \in BranchIds : PrepareEffect(x, b)
         \/ \E x \in EffectIds, status \in {"observed", "failed"} : ResolveEffect(x, status)
         \/ RecoverPreparedEffects
  PROVE  GraphInv'
<1>1. LineInv /\ EffectInv
  BY DEF GraphInv
<1>2. EffectInv'
  BY <1>1, PrepareEffects, ResolveEffects, RecoverPreparedKeeps
<1>3. UNCHANGED <<events, branches, starts, coordinator, head, advances, manifests, capsules,
                  grants, recoveries, attempts, abandoned>>
  BY DEF PrepareEffect, ResolveEffect, RecoverPreparedEffects
<1> QED
  BY <1>2, <1>3, EffectsInv

\* advanceContinuationHead().
LEMMA AdvanceInv ==
  ASSUME GraphInv, UNCHANGED viewVars, NEW b, NEW n, AdvanceContinuationHead(b, n)
  PROVE  GraphInv'
<1>1. UNCHANGED <<events, branches, starts, manifests, capsules, grants, effects, recoveries,
                  attempts, abandoned>>
  BY DEF AdvanceContinuationHead
<1>2. LineInv'
  BY AdvanceLine DEF GraphInv
<1>3. EffectInv'
  BY AdvanceEffects DEF GraphInv
<1>4. WorldInv' /\ WorldKept
  BY <1>1, StayWorlds DEF GraphInv, viewVars
<1> QED
  BY <1>1, <1>2, <1>3, <1>4, GraphEnds

\* completeCoordinatedBranch().
LEMMA CompleteInv ==
  ASSUME GraphInv, UNCHANGED viewVars, NEW b, NEW ps, CompleteCoordinatedBranch(b, ps)
  PROVE  GraphInv'
<1>1. UNCHANGED <<recoveries, attempts, abandoned>>
  BY DEF CompleteCoordinatedBranch
<1>2. LineInv'
  BY CompleteLine DEF GraphInv
<1>3. EffectInv'
  BY CompleteEffects DEF GraphInv
<1>4. WorldInv' /\ WorldKept
  BY CompleteWorlds DEF GraphInv, viewVars
<1> QED
  BY <1>1, <1>2, <1>3, <1>4, GraphEnds

\* An abandoned attempt is one of a recovered branch.
LEMMA RecoverInv ==
  ASSUME GraphInv, UNCHANGED viewVars, RecoverCoordinatedBranch
  PROVE  GraphInv'
<1> DEFINE b == coordinator.active
           row == [base |-> starts[b].base, pred |-> starts[b].pred,
                   uncertain |-> Cardinality(Prepared(b))]
<1>1. /\ abandoned' = abandoned \cup ({b} \cap DOMAIN attempts)
      /\ recoveries' = Insert(recoveries, b, row) /\ UNCHANGED attempts
  BY DEF RecoverCoordinatedBranch
<1>2. UNCHANGED <<layers, approvals, profiles, profileHeads, projections, admissions, views, bindings>>
  BY DEF viewVars
<1>3. LineInv'
  BY RecoverLine DEF GraphInv
<1>4. EffectInv'
  BY RecoverEffects DEF GraphInv
<1>5. WorldInv' /\ WorldKept
  BY RecoverWorlds DEF GraphInv, viewVars
<1>6. IngressInv'
  BY <1>2, <1>5, StayIngress DEF WorldKept, GraphInv
<1>7. ProfileInv' /\ RowsGrow
  BY <1>2, StayProfiles DEF GraphInv
<1> HIDE DEF row, b
<1>8. DOMAIN recoveries' = DOMAIN recoveries \cup {b}
  BY <1>1 DEF Insert
<1>9. ViewsKept
  BY <1>1, <1>2, <1>5, <1>7, <1>8, TableStays DEF ViewsKept
<1>10. \A c \in abandoned' \ abandoned : AbandonmentReads(c)'
  BY <1>1, <1>8 DEF AbandonmentReads
<1>11. NewReads
  BY <1>1, <1>2, <1>10 DEF NewReads
<1>12. ViewInv'
  BY <1>5, <1>7, <1>9, <1>11, ViewFrame DEF GraphInv
<1> QED
  BY <1>3, <1>4, <1>5, <1>6, <1>7, <1>12 DEF GraphInv

\* importLegacyArtifact().
LEMMA ImportInv ==
  ASSUME GraphInv, UNCHANGED viewVars, NEW s, NEW b \in BranchIds, ImportLegacyArtifact(s, b)
  PROVE  GraphInv'
<1>1. UNCHANGED <<recoveries, attempts, abandoned>>
  BY DEF ImportLegacyArtifact
<1>2. LineInv'
  BY ImportLine DEF GraphInv
<1>3. EffectInv'
  BY ImportEffects DEF GraphInv
<1>4. WorldInv' /\ WorldKept
  BY ImportWorlds DEF GraphInv, viewVars
<1> QED
  BY <1>1, <1>2, <1>3, <1>4, GraphEnds

\* Nothing the invariant speaks of changes.
LEMMA UntouchedInv ==
  ASSUME GraphInv, UNCHANGED viewVars,
         UNCHANGED <<events, branches, starts, coordinator, head, advances, manifests, capsules,
                     grants, effects, recoveries, attempts, abandoned>>
  PROVE  GraphInv'
<1>1. LineInv' /\ EffectInv'
  BY QuietGraph
<1> QED
  BY <1>1, EffectsInv

\* Every operation of the graph preserves the invariant.
LEMMA GraphStepInv == ASSUME GraphInv, GraphStep, UNCHANGED viewVars PROVE GraphInv'
<1>1. CASE \E w \in Worlds, kind \in {"inbound", "other"} :
             /\ AppendWorldEvent(w, kind)
             /\ UNCHANGED <<branches, starts, coordinator, head, advances, manifests, capsules,
                            grants, effects, recoveries, imports, attempts, abandoned, mode>>
  BY <1>1, AppendEventInv
<1>2. CASE \E b \in BranchIds, w \in Worlds : BeginCoordinatedBranch(b, w, 1, head.revision)
  BY <1>2, BeginInv
<1>3. CASE \E b \in BranchIds, es \in EventLists, gs \in ShareLists, r \in Renderers,
             p \in Policies : CreateManifest(b, es, gs, r, p)
  BY <1>3, CreateManifestInv
<1>4. CASE \E b \in BranchIds, ps \in ParentSets,
             kind \in {"private", "root_receipt", "self_delta", "legacy_opaque"} :
             CreateCapsule(b, kind, ps)
  BY <1>4, CreateCapsuleInv
<1>5. CASE \/ \E g \in GrantIds, c \in DOMAIN capsules, w \in Worlds : CreateShareGrant(g, c, w)
           \/ \E g \in GrantIds : RevokeShareGrant(g)
  BY <1>5, CreateGrantInv, RevokeGrantInv
<1>6. CASE \/ \E x \in EffectIds, b \in BranchIds : PrepareEffect(x, b)
           \/ \E x \in EffectIds, status \in {"observed", "failed"} : ResolveEffect(x, status)
           \/ RecoverPreparedEffects
  BY <1>6, EffectOperationsInv
<1>7. CASE \/ \E b \in BranchIds : AdvanceContinuationHead(b, head.revision)
           \/ \E b \in BranchIds, ps \in ParentSets : CompleteCoordinatedBranch(b, ps)
  BY <1>7, AdvanceInv, CompleteInv
<1>8. CASE RecoverCoordinatedBranch
  BY <1>8, RecoverInv
<1>9. CASE \E s \in Sources, b \in BranchIds : ImportLegacyArtifact(s, b)
  BY <1>9, ImportInv
<1>10. CASE Activate \/ \E s \in Sources, c \in DOMAIN capsules : RecordLegacyImport(s, c)
  <2>1. UNCHANGED <<events, branches, starts, coordinator, head, advances, manifests, capsules,
                    grants, effects, recoveries, attempts, abandoned>>
    BY <1>10 DEF Activate, RecordLegacyImport
  <2> QED
    BY <2>1, UntouchedInv
<1> QED
  BY <1>1, <1>2, <1>3, <1>4, <1>5, <1>6, <1>7, <1>8, <1>9, <1>10 DEF GraphStep

-----------------------------------------------------------------------------
(* The steps on layers, profiles, views and ingress.                       *)

\* The graph does not change.
LEMMA GraphStill ==
  ASSUME GraphInv, UNCHANGED <<graphVars, views>>
  PROVE  LineInv' /\ EffectInv' /\ WorldInv' /\ WorldKept
<1>1. UNCHANGED <<branches, starts, coordinator, head, advances, effects, capsules, events, grants,
                  manifests>>
  BY DEF graphVars
<1>2. LineInv' /\ EffectInv'
  BY <1>1, QuietGraph
<1>3. WorldInv' /\ WorldKept
  BY <1>1, StayWorlds DEF GraphInv
<1> QED
  BY <1>2, <1>3

\* A step that renders or approves something.
LEMMA RenderEnds ==
  ASSUME GraphInv, UNCHANGED <<graphVars, views, bindings>>, IngressInv', ProfileInv', RowsGrow,
         projections \subseteq projections', \A w \in Worlds : Kept(profileHeads[w], profileHeads'[w])
  PROVE  GraphInv'
<1>1. UNCHANGED <<attempts, abandoned, recoveries>>
  BY DEF graphVars
<1>2. LineInv' /\ EffectInv' /\ WorldInv' /\ WorldKept
  BY GraphStill
<1>3. ViewsKept
  BY <1>1, <1>2, TableStays DEF ViewsKept
<1>4. NewReads
  BY <1>1 DEF NewReads
<1>5. ViewInv'
  BY <1>2, <1>3, <1>4, ViewFrame DEF GraphInv
<1> QED
  BY <1>2, <1>5 DEF GraphInv

\* createSystemLayerProjection().
LEMMA LayerInv ==
  ASSUME GraphInv, NEW layer \in Layers, CreateSystemLayerProjection(layer)
  PROVE  GraphInv'
<1>1. UNCHANGED <<graphVars, profileHeads, projections, admissions, views, bindings>>
  BY DEF CreateSystemLayerProjection
<1>2. ProfileInv' /\ RowsGrow
  BY LayerProfiles DEF GraphInv
<1>3. IngressInv'
  BY <1>1, GraphStill, StayIngress DEF WorldKept, GraphInv
<1>4. \A w \in Worlds : Kept(profileHeads[w], profileHeads'[w])
  BY <1>1, TableStays
<1> QED
  BY <1>1, <1>2, <1>3, <1>4, RenderEnds

\* approveSystemLayer().
LEMMA ApproveInv ==
  ASSUME GraphInv, NEW layer, NEW i \in DOMAIN Roles, NEW g \in ApprovalGens,
         ApproveSystemLayer(layer, Roles[i], g)
  PROVE  GraphInv'
<1>1. UNCHANGED <<graphVars, profileHeads, projections, admissions, views, bindings>>
  BY DEF ApproveSystemLayer
<1>2. ProfileInv' /\ RowsGrow
  BY ApproveProfiles DEF GraphInv
<1>3. IngressInv'
  BY <1>1, GraphStill, StayIngress DEF WorldKept, GraphInv
<1>4. \A w \in Worlds : Kept(profileHeads[w], profileHeads'[w])
  BY <1>1, TableStays
<1> QED
  BY <1>1, <1>2, <1>3, <1>4, RenderEnds

\* createSystemProfile().
LEMMA CreateProfileInv ==
  ASSUME GraphInv, NEW w \in Worlds, NEW as, CreateSystemProfile(w, as)
  PROVE  GraphInv'
<1>1. UNCHANGED <<graphVars, profileHeads, projections, admissions, views, bindings>>
  BY DEF CreateSystemProfile
<1>2. ProfileInv' /\ RowsGrow
  BY CreateProfileProfiles DEF GraphInv
<1>3. IngressInv'
  BY <1>1, GraphStill, StayIngress DEF WorldKept, GraphInv
<1>4. \A v \in Worlds : Kept(profileHeads[v], profileHeads'[v])
  BY <1>1, TableStays
<1> QED
  BY <1>1, <1>2, <1>3, <1>4, RenderEnds

\* advanceSystemProfileHead().
LEMMA ProfileHeadInv ==
  ASSUME GraphInv, NEW w \in Worlds, NEW p \in profiles, NEW n, AdvanceSystemProfileHead(w, p, n)
  PROVE  GraphInv'
<1>1. UNCHANGED <<graphVars, projections, admissions, views, bindings>>
  BY DEF AdvanceSystemProfileHead
<1>2. /\ ProfileInv' /\ RowsGrow
      /\ \A v \in Worlds : Kept(profileHeads[v], profileHeads'[v])
  BY HeadProfiles DEF GraphInv
<1>3. IngressInv'
  BY <1>1, GraphStill, StayIngress DEF WorldKept, GraphInv
<1> QED
  BY <1>1, <1>2, <1>3, RenderEnds

\* createEventMessageProjection().
LEMMA ProjectionInv ==
  ASSUME GraphInv, NEW e, NEW r \in Renderers, CreateEventMessageProjection(e, r)
  PROVE  GraphInv'
<1>1. /\ UNCHANGED <<graphVars, layers, approvals, profiles, profileHeads, views, bindings>>
      /\ projections' = projections \cup {<<e, r>>}
  BY DEF CreateEventMessageProjection
<1>2. ProfileInv' /\ RowsGrow
  BY <1>1, StayProfiles DEF GraphInv
<1>3. IngressInv'
  BY RenderIngress DEF GraphInv
<1>4. \A w \in Worlds : Kept(profileHeads[w], profileHeads'[w])
  BY <1>1, TableStays
<1>5. projections \subseteq projections'
  BY <1>1
<1> QED
  BY <1>1, <1>2, <1>3, <1>4, <1>5, RenderEnds

\* createLocalBranchRequestView(): the new view reads back.
LEMMA CreateViewInv ==
  ASSUME GraphInv, NEW b, NEW r, NEW ls \in Lists(layers, 2), CreateLocalBranchRequestView(b, r, ls)
  PROVE  GraphInv'
<1>1. /\ b \in DOMAIN manifests /\ b \notin DOMAIN views /\ manifests[b].shares = << >>
      /\ StartedAtHead(b)
      /\ MessagesFit(manifests[b].events, manifests[b].renderer)
      /\ LayersFit(branches[b].world, r, manifests[b].policy, ls)
      /\ InsertView(b, r, ls, manifests[b])
      /\ UNCHANGED <<graphVars, layers, approvals, profiles, profileHeads, projections, admissions,
                     bindings>>
  BY DEF CreateLocalBranchRequestView
<1>2. UNCHANGED <<branches, starts, coordinator, head, advances, effects, capsules, events, manifests,
                  attempts, abandoned, recoveries>>
  BY <1>1 DEF graphVars
<1>3. LineInv' /\ EffectInv'
  BY <1>2, QuietGraph
<1>4. WorldInv' /\ WorldKept
  BY ViewWorlds DEF GraphInv
<1>5. IngressInv'
  BY <1>1, <1>4, StayIngress DEF WorldKept, GraphInv
<1>6. ProfileInv' /\ RowsGrow
  BY <1>1, StayProfiles DEF GraphInv
<1>7. ViewsKept
  BY <1>1, <1>2, <1>4, <1>6, ViewsStay
<1>8. ls \in Seq(layers)
  <2>1. PICK m \in 0..2 : ls \in [1..m -> layers]
    BY DEF Lists
  <2>2. m \in Nat
    BY SMT
  <2> QED
    BY <2>1, <2>2, ListIsSeq
<1>9. ViewAdded(b, ls, r, manifests[b].events, manifests[b].renderer, manifests[b].policy)
  BY <1>1, InsertViewIs
<1>10. /\ DOMAIN views' = DOMAIN views \cup {b}
       /\ views'[b].layers = ls /\ views'[b].renderer = r /\ views'[b].messages = manifests[b].events
       /\ views'[b].messageRenderer = manifests[b].renderer /\ views'[b].policy = manifests[b].policy
  BY <1>9 DEF ViewAdded
<1>11. ViewReads(b)'
  <2>1. ManifestReads(b)' /\ b \in DOMAIN starts
    BY <1>1, <1>2, <1>4 DEF WorldInv, ManifestGood, StartedAtHead
  <2>2. PICK w, p, es, mr : /\ w = branches[b].world /\ p = manifests[b].policy
                            /\ es = manifests[b].events /\ mr = manifests[b].renderer
    OBVIOUS
  <2>3. MessagesFit(es, mr)'
    BY <1>1, <2>2, MessagesStay
  <2>4. LayersFit(w, r, p, ls)'
    BY <1>1, <2>2, LayersStay
  <2> QED
    BY <1>1, <1>2, <1>10, <2>1, <2>2, <2>3, <2>4 DEF ViewReads
<1>12. NewReads
  BY <1>1, <1>2, <1>8, <1>10, <1>11 DEF NewReads
<1>13. ViewInv'
  BY <1>4, <1>6, <1>7, <1>12, ViewFrame DEF GraphInv
<1> QED
  BY <1>3, <1>4, <1>5, <1>6, <1>13 DEF GraphInv

\* A new binding.
BindingAdded(b, p, n) ==
  /\ DOMAIN bindings' = DOMAIN bindings \cup {b} /\ Kept(bindings, bindings')
  /\ bindings'[b].profile = p /\ bindings'[b].revision = n

\* The binding names the head of the world and its revision.
LEMMA InsertBindingIs ==
  ASSUME NEW b, b \notin DOMAIN bindings, NEW w, InsertBinding(b, w)
  PROVE  BindingAdded(b, HeadProfile(w), Len(profileHeads[w]))
<1> DEFINE row == [profile |-> HeadProfile(w), revision |-> Len(profileHeads[w])]
<1>1. bindings' = Insert(bindings, b, row)
  BY DEF InsertBinding
<1>2. row.profile = HeadProfile(w) /\ row.revision = Len(profileHeads[w])
  BY SMT
<1> HIDE DEF row
<1>3. /\ DOMAIN bindings' = DOMAIN bindings \cup {b} /\ bindings'[b] = row
      /\ \A c \in DOMAIN bindings : bindings'[c] = bindings[c]
  BY <1>1 DEF Insert
<1> QED
  BY <1>2, <1>3 DEF Kept, BindingAdded

\* A binding to the head of the world reads back.
LEMMA NewBindingReads ==
  ASSUME ProfileInv, ProfileInv', UNCHANGED profileHeads, NEW b, NEW w \in Worlds,
         branches'[b].world = w, profileHeads[w] # << >>,
         BindingAdded(b, HeadProfile(w), Len(profileHeads[w])),
         b \in DOMAIN views', ViewReads(b)', NEW v, v = views'[b], BindingFits(HeadProfile(w), v)
  PROVE  BindingReads(b)'
<1>1. PICK p, n : p = HeadProfile(w) /\ n = Len(profileHeads[w])
  OBVIOUS
<1>2. bindings'[b].profile = p /\ bindings'[b].revision = n
  BY <1>1 DEF BindingAdded
<1>3. n \in DOMAIN profileHeads'[w] /\ profileHeads'[w][n] = p
  BY <1>1, HeadProfileIs DEF HeadProfile
<1>4. HeadReads(w)'
  BY DEF ProfileInv
<1>5. BindingFits(p, v)
  BY <1>1
<1> QED
  BY <1>2, <1>3, <1>4, <1>5 DEF BindingReads, BindingFits

\* createSystemProfileRequestViewBinding(): the new binding reads back.
LEMMA CreateBindingInv ==
  ASSUME GraphInv, NEW b, NEW n, CreateSystemProfileRequestViewBinding(b, n)
  PROVE  GraphInv'
<1> PICK w : w = branches[b].world
  OBVIOUS
<1>1. /\ b \in DOMAIN views /\ b \notin DOMAIN bindings /\ profileHeads[w] # << >>
      /\ BindingFits(HeadProfile(w), views[b]) /\ InsertBinding(b, w)
      /\ UNCHANGED <<graphVars, layers, approvals, profiles, profileHeads, projections, admissions, views>>
  BY DEF CreateSystemProfileRequestViewBinding
<1>2. UNCHANGED <<branches, attempts, abandoned, recoveries>>
  BY <1>1 DEF graphVars
<1>3. LineInv' /\ EffectInv' /\ WorldInv' /\ WorldKept
  BY <1>1, GraphStill
<1>4. IngressInv'
  BY <1>1, <1>3, StayIngress DEF WorldKept, GraphInv
<1>5. ProfileInv' /\ RowsGrow
  BY <1>1, StayProfiles DEF GraphInv
<1>6. BindingAdded(b, HeadProfile(w), Len(profileHeads[w]))
  BY <1>1, InsertBindingIs
<1>7. DOMAIN bindings' = DOMAIN bindings \cup {b} /\ Kept(bindings, bindings')
  BY <1>6 DEF BindingAdded
<1>8. ViewsKept
  BY <1>1, <1>2, <1>3, <1>5, <1>7, TableStays DEF ViewsKept
<1>9. ViewReads(b)'
  BY <1>1, <1>3, <1>8, ViewStays DEF GraphInv, ViewInv
<1>10. w \in Worlds
  BY <1>1 DEF GraphInv, ViewInv, ViewReads, WorldInv, StartGood
<1>11. PICK v : v = views[b]
  OBVIOUS
<1>12. v = views'[b] /\ b \in DOMAIN views' /\ branches'[b].world = w /\ BindingFits(HeadProfile(w), v)
  BY <1>1, <1>2, <1>11
<1>13. BindingReads(b)'
  BY <1>1, <1>5, <1>6, <1>9, <1>10, <1>12, NewBindingReads DEF GraphInv
<1>14. NewReads
  BY <1>1, <1>2, <1>7, <1>13 DEF NewReads
<1>15. ViewInv'
  BY <1>3, <1>5, <1>8, <1>14, ViewFrame DEF GraphInv
<1> QED
  BY <1>3, <1>4, <1>5, <1>15 DEF GraphInv

\* admitDarkInboundEvent().
LEMMA AdmitInv ==
  ASSUME GraphInv, NEW w \in Worlds, NEW r \in Renderers, AdmitDarkInboundEvent(w, r)
  PROVE  GraphInv'
<1>1. /\ AppendWorldEvent(w, "inbound")
      /\ UNCHANGED <<branches, starts, coordinator, head, advances, manifests, capsules, grants,
                     effects, recoveries, attempts, abandoned, layers, approvals, profiles,
                     profileHeads, projections, views, bindings>>
  BY DEF AdmitDarkInboundEvent
<1>2. LineInv' /\ EffectInv'
  BY <1>1, QuietGraph
<1>3. "inbound" \in {"inbound", "other"}
  BY SMTT(30)
<1>4. WorldInv' /\ WorldKept
  BY <1>1, <1>3, EventWorlds DEF GraphInv
<1>5. IngressInv'
  BY <1>4, AdmitIngress DEF WorldKept, GraphInv
<1>6. ProfileInv' /\ RowsGrow
  BY <1>1, StayProfiles DEF GraphInv
<1>7. ViewsKept
  BY <1>1, <1>4, <1>6, ViewsStay
<1>8. NewReads
  BY <1>1 DEF NewReads
<1>9. ViewInv'
  BY <1>4, <1>6, <1>7, <1>8, ViewFrame DEF GraphInv
<1> QED
  BY <1>2, <1>4, <1>5, <1>6, <1>9 DEF GraphInv

\* The assembly, with or without an attempt.
LEMMA AssembleInv ==
  ASSUME GraphInv, NEW b \in BranchIds, NEW w \in Worlds, NEW es \in Seq(1..MaxEvents),
         NEW r \in Renderers, AssembleRecords(b, w, es, r),
         UNCHANGED <<events, head, advances, capsules, grants, effects, recoveries, abandoned, layers,
                     approvals, profiles, profileHeads, projections, admissions>>,
         b \notin DOMAIN attempts => Kept(attempts, attempts'),
         \A c \in DOMAIN attempts' \ DOMAIN attempts :
           c = b /\ (views'[b].messages = es => AttemptReads(b)')
  PROVE  GraphInv'
<1>1. LineInv /\ EffectInv /\ WorldInv /\ IngressInv /\ ProfileInv /\ ViewInv
  BY DEF GraphInv
<1>2. Assembled(b, w, es, r)
  BY <1>1, AssembleIs
<1>3. PICK epoch \in Nat : OpenBranch(b, w, epoch)
  BY <1>2 DEF Assembled
<1>4. w \in AllWorlds
  BY DEF AllWorlds
<1>5. LineInv'
  BY <1>1, <1>3, <1>4, OpenLine
<1>6. EffectInv'
  BY <1>1, <1>3, OpenEffects
<1>7. WorldInv' /\ WorldKept
  BY <1>1, AssembleWorlds
<1>8. IngressInv'
  BY <1>1, <1>7, StayIngress DEF WorldKept
<1>9. ProfileInv' /\ RowsGrow
  BY <1>1, StayProfiles
<1>10. b \notin DOMAIN bindings /\ b \notin DOMAIN attempts
  <2>1. b \notin DOMAIN starts
    BY <1>2 DEF Assembled
  <2> QED
    BY <1>1, <2>1 DEF ViewInv, BindingReads, ViewReads
<1>11. InsertBinding(b, w) /\ profileHeads[w] # << >>
  BY DEF AssembleRecords
<1>12. BindingAdded(b, HeadProfile(w), Len(profileHeads[w]))
  BY <1>10, <1>11, InsertBindingIs
<1>13. DOMAIN bindings' = DOMAIN bindings \cup {b} /\ Kept(bindings, bindings')
  BY <1>12 DEF BindingAdded
<1>14. ViewsKept
  BY <1>7, <1>9, <1>10, <1>13, TableStays DEF ViewsKept
<1>15. PICK p : p = HeadProfile(w)
  OBVIOUS
<1>16. PICK ls : ls = ProfileLayers(p)
  OBVIOUS
<1>17. /\ DOMAIN views' = DOMAIN views \cup {b} /\ views'[b].layers = ls
       /\ views'[b].renderer = p.renderer /\ views'[b].messages = es
       /\ views'[b].messageRenderer = r /\ views'[b].policy = p.policy
  BY <1>2, <1>15, <1>16 DEF Assembled, ViewAdded
<1>18. /\ b \in DOMAIN manifests' /\ manifests'[b].events = es /\ manifests'[b].shares = << >>
       /\ manifests'[b].renderer = r /\ manifests'[b].policy = p.policy
  BY <1>2, <1>15 DEF Assembled, ManifestAdded
<1>19. branches'[b].world = w /\ b \in DOMAIN starts'
  BY <1>1, <1>3, OpenKeeps
<1>20. ls \in Seq(layers')
  <2>1. ProfileLineage(p)
    BY <1>1, <1>11, <1>15, HeadProfileIs DEF ProfileGood, ProfileReads
  <2> QED
    BY <1>16, <2>1, ProfileLayersIs
<1>21. ViewReads(b)'
  <2>1. MessagesFit(es, r)'
    BY <1>2, MessagesStay DEF Assembled
  <2>2. LayersFit(w, p.renderer, p.policy, ls)'
    BY <1>2, <1>15, <1>16, LayersStay DEF Assembled
  <2>3. ManifestReads(b)'
    BY <1>7, <1>18 DEF WorldInv, ManifestGood
  <2> QED
    BY <1>17, <1>18, <1>19, <2>1, <2>2, <2>3 DEF ViewReads
<1>22. PICK v : v = views'[b]
  OBVIOUS
<1>23. BindingFits(HeadProfile(w), v) /\ b \in DOMAIN views'
  BY <1>15, <1>16, <1>17, <1>22 DEF BindingFits
<1>24. BindingReads(b)'
  BY <1>1, <1>9, <1>11, <1>12, <1>19, <1>21, <1>22, <1>23, NewBindingReads
<1>25. NewReads
  BY <1>13, <1>17, <1>20, <1>21, <1>24 DEF NewReads
<1>26. ViewInv'
  BY <1>1, <1>7, <1>9, <1>14, <1>25, ViewFrame
<1> QED
  BY <1>5, <1>6, <1>7, <1>8, <1>9, <1>26 DEF GraphInv

\* assembleDarkLocalBranchRecords().
LEMMA AssembleLocalInv ==
  ASSUME GraphInv, NEW b \in BranchIds, NEW w \in Worlds, NEW es \in EventLists, NEW r \in Renderers,
         AssembleDarkLocalBranchRecords(b, w, es, r)
  PROVE  GraphInv'
<1>1. /\ AssembleRecords(b, w, es, r)
      /\ UNCHANGED <<events, head, advances, capsules, grants, effects, recoveries, abandoned, layers,
                     approvals, profiles, profileHeads, projections, admissions, attempts>>
  BY DEF AssembleDarkLocalBranchRecords
<1>2. es \in Seq(1..MaxEvents)
  <2>1. << >> \in ShareLists
    <3>1. << >> \in [1..0 -> DOMAIN grants]
      BY SMTT(30)
    <3>2. 0 \in 0..1
      BY SMTT(30)
    <3> QED
      BY <3>1, <3>2 DEF ShareLists, Lists
  <2> QED
    BY <2>1, ListTypes DEF GraphInv
<1> QED
  BY <1>1, <1>2, TableStays, AssembleInv

\* The attempt covers the batch from its first to its last event.
LEMMA AssembleNextInv ==
  ASSUME GraphInv, NEW b \in BranchIds, NEW limit \in 1..BatchLimit,
         AssembleNextDarkPendingBranchRecords(b, limit)
  PROVE  GraphInv'
<1>1. PICK es : es = PendingBatch(limit)
  OBVIOUS
<1>2. limit \in Nat /\ es # << >>
  BY <1>1, ViewAssumption, SMTT(30) DEF AssembleNextDarkPendingBranchRecords
<1>3. es \in Seq(DOMAIN admissions) /\ Increasing(es) /\ Len(es) \in 1..limit
  BY <1>1, <1>2, PendingBatchIs DEF GraphInv
<1>4. PICK w, r : w = events[es[1]].world /\ r = admissions[es[1]]
  OBVIOUS
<1>5. /\ es \in Seq(1..MaxEvents) /\ w \in Worlds /\ r \in Renderers
      /\ 1 <= es[1] /\ es[1] <= es[Len(es)]
  BY <1>2, <1>3, <1>4, PendingEvents DEF GraphInv
<1> DEFINE row == [first |-> es[1], last |-> es[Len(es)], limit |-> limit]
<1>6. /\ AssembleRecords(b, w, es, r) /\ attempts' = Insert(attempts, b, row)
      /\ UNCHANGED <<events, head, advances, capsules, grants, effects, recoveries, abandoned, layers,
                     approvals, profiles, profileHeads, projections, admissions>>
  BY <1>1, <1>4 DEF AssembleNextDarkPendingBranchRecords
<1>7. row.first = es[1] /\ row.last = es[Len(es)] /\ row.limit = limit
  BY SMTT(30)
<1> HIDE DEF row
<1>8. DOMAIN attempts' = DOMAIN attempts \cup {b} /\ \A c \in DOMAIN attempts : attempts'[c] = attempts[c]
  BY <1>6 DEF Insert
<1>9. Kept(attempts, attempts')
  BY <1>8 DEF Kept
<1>10. ASSUME NEW c \in DOMAIN attempts' \ DOMAIN attempts
       PROVE  c = b /\ (views'[b].messages = es => AttemptReads(b)')
  <2>1. c = b /\ attempts'[b] = row
    BY <1>6, <1>8, <1>10 DEF Insert
  <2> QED
    BY <1>3, <1>5, <1>7, <2>1 DEF AttemptReads
<1> QED
  BY <1>5, <1>6, <1>9, <1>10, AssembleInv

\* Every operation on layers, profiles, views and ingress preserves it.
LEMMA ViewStepInv == ASSUME GraphInv, ViewStep PROVE GraphInv'
<1>1. CASE \E layer \in Layers : CreateSystemLayerProjection(layer)
  BY <1>1, LayerInv
<1>2. CASE \E layer \in layers, i \in DOMAIN Roles, g \in ApprovalGens :
             ApproveSystemLayer(layer, Roles[i], g)
  BY <1>2, ApproveInv
<1>3. CASE \E w \in Worlds, as \in ApprovalLists : CreateSystemProfile(w, as)
  BY <1>3, CreateProfileInv
<1>4. CASE \E w \in Worlds, p \in profiles : AdvanceSystemProfileHead(w, p, Len(profileHeads[w]))
  BY <1>4, ProfileHeadInv
<1>5. CASE \E e \in DOMAIN events, r \in Renderers : CreateEventMessageProjection(e, r)
  BY <1>5, ProjectionInv
<1>6. CASE \E ls \in Lists(layers, 2), r \in {layer.renderer : layer \in layers} :
             \E b \in BranchIds : CreateLocalBranchRequestView(b, r, ls)
  BY <1>6, CreateViewInv
<1>7. CASE \E b \in DOMAIN views :
             CreateSystemProfileRequestViewBinding(b, Len(profileHeads[branches[b].world]))
  BY <1>7, CreateBindingInv
<1>8. CASE \E w \in Worlds, r \in Renderers : AdmitDarkInboundEvent(w, r)
  BY <1>8, AdmitInv
<1>9. CASE \E b \in BranchIds, w \in Worlds, es \in EventLists, r \in Renderers :
             AssembleDarkLocalBranchRecords(b, w, es, r)
  BY <1>9, AssembleLocalInv
<1>10. CASE \E b \in BranchIds, limit \in 1..BatchLimit :
              AssembleNextDarkPendingBranchRecords(b, limit)
  BY <1>10, AssembleNextInv
<1> QED
  BY <1>1, <1>2, <1>3, <1>4, <1>5, <1>6, <1>7, <1>8, <1>9, <1>10 DEF ViewStep

\* Every step preserves it.
LEMMA StepInv == ASSUME GraphInv, [Next]_vars PROVE GraphInv'
<1>1. CASE Next
  BY <1>1, GraphStepInv, ViewStepInv DEF Next
<1>2. CASE UNCHANGED vars
  <2>1. UNCHANGED <<events, branches, starts, coordinator, head, advances, manifests, capsules,
                    grants, effects, recoveries, attempts, abandoned>>
    BY <1>2 DEF vars, graphVars
  <2>2. UNCHANGED viewVars
    BY <1>2 DEF vars
  <2> QED
    BY <2>1, <2>2, UntouchedInv
<1> QED
  BY <1>1, <1>2

\* The empty store satisfies it.
LEMMA InitInv == ASSUME Init PROVE GraphInv
<1> USE GraphAssumption
<1>1. /\ events = << >> /\ branches = << >> /\ starts = << >> /\ advances = << >> /\ manifests = << >>
      /\ capsules = << >> /\ grants = << >> /\ effects = << >> /\ attempts = << >> /\ abandoned = {}
      /\ coordinator = [active |-> None, base |-> 0, pred |-> None]
      /\ head = [branch |-> None, revision |-> 0]
  BY DEF Init, GraphInit
<1>2. /\ layers = {} /\ approvals = {} /\ profiles = {} /\ profileHeads = [w \in Worlds |-> << >>]
      /\ projections = {} /\ admissions = << >> /\ views = << >> /\ bindings = << >>
  BY DEF Init, ViewsInit
<1>3. DOMAIN << >> = {} /\ Len(<< >>) = 0 /\ \A S : << >> \in Seq(S)
  BY SMTT(30)
<1>4. LineInv
  <2>1. Running = {} /\ coordinator.active = None /\ coordinator.base = 0 /\ coordinator.pred = None
    BY <1>1, SMTT(30) DEF Running
  <2>2. head.branch = None /\ head.revision = 0
    BY <1>1, SMTT(30)
  <2>3. Attached
    BY <1>1, <1>3, <2>1, <2>2 DEF Attached, CoordinatorAtHead
  <2>4. coordinator \in CoordinatorState /\ head \in [branch : BranchIds \cup {None}, revision : Nat]
    BY <1>1, SMTT(30) DEF CoordinatorState
  <2>5. 0 \in Nat
    BY SMT
  <2> QED
    BY <1>1, <1>3, <2>3, <2>4, <2>5 DEF LineInv
<1>5. EffectInv
  <2>1. Len(capsules) <= MaxCapsules
    BY <1>1, <1>3, SMTT(30)
  <2> QED
    BY <1>1, <1>3, <2>1 DEF EffectInv
<1>6. WorldInv
  <2>1. Len(events) <= MaxEvents
    BY <1>1, <1>3, SMTT(30)
  <2> QED
    BY <1>1, <1>2, <1>3, <2>1 DEF WorldInv
<1>7. IngressInv /\ ViewInv
  BY <1>1, <1>2, <1>3 DEF IngressInv, ViewInv
<1>8. ProfileInv
  <2>1. \A w \in Worlds : HeadReads(w)
    BY <1>2, <1>3 DEF HeadReads, IsInjective
  <2> QED
    BY <1>2, <1>3, <2>1 DEF ProfileInv
<1> QED
  BY <1>4, <1>5, <1>6, <1>7, <1>8 DEF GraphInv

\* The invariant gives every reader what it checks.
LEMMA AllReadable == ASSUME GraphInv PROVE Readable
<1>1. LineInv /\ EffectInv /\ WorldInv /\ IngressInv /\ ProfileInv /\ ViewInv
  BY DEF GraphInv
<1>2. /\ \A b \in DOMAIN branches : BranchReads(b)
      /\ \A b \in DOMAIN starts : StartReads(b)
      /\ coordinator \in CoordinatorState
  BY <1>1 DEF LineInv
<1>3. /\ \A c \in DOMAIN capsules : CapsuleReads(c)
      /\ \A x \in DOMAIN effects : EffectReads(x)
  BY <1>1 DEF EffectInv
<1>4. /\ \A g \in DOMAIN grants : GrantReads(g)
      /\ \A b \in DOMAIN manifests : ManifestReads(b)
  BY <1>1 DEF WorldInv, ManifestGood
<1>5. \A e \in DOMAIN events : EventReads(e)
  <2>1. \A e \in DOMAIN events : events[e] \in ScopedEvent
    BY <1>1, SMTT(30) DEF WorldInv
  <2> QED
    BY <2>1, SMTT(30) DEF EventReads, ScopedEvent, WorldEvent, AllWorlds
<1>6. /\ \A e \in DOMAIN admissions : AdmissionReads(e)
      /\ \A p \in projections : ProjectionReads(p)
  <2>1. \A r \in Renderers : r >= 1
    BY ViewAssumption, SMTT(30)
  <2> QED
    BY <1>1, <2>1 DEF IngressInv, AdmissionGood, ProjectionGood, AdmissionReads, ProjectionReads
<1>7. /\ \A layer \in layers : LayerReads(layer)
      /\ \A a \in approvals : ApprovalReads(a)
      /\ \A p \in profiles : ProfileReads(p)
      /\ \A w \in Worlds : HeadReads(w)
  BY <1>1 DEF ProfileInv, ProfileGood
<1>8. \A b \in DOMAIN views : RequestMaterializes(b)
  BY <1>1, ViewMaterializes
<1>9. /\ \A b \in DOMAIN bindings : BindingReads(b)
      /\ \A b \in DOMAIN attempts : AttemptReads(b) /\ BindingReads(b)
      /\ \A b \in abandoned : AbandonmentReads(b)
  BY <1>1 DEF ViewInv
<1> QED
  BY <1>2, <1>3, <1>4, <1>5, <1>6, <1>7, <1>8, <1>9 DEF Readable

-----------------------------------------------------------------------------
(* The theorems.                                                           *)

\* Every reachable state of the store satisfies the inductive invariant: rows
\* reference rows, one branch runs and holds the coordinator, and every reader
\* of src/store/context-graph.ts accepts what the writers stored.
THEOREM GraphInvariance == Spec => []GraphInv
<1>1. Init => GraphInv
  BY InitInv, SMTT(30)
<1>2. GraphInv /\ [Next]_vars => GraphInv'
  BY StepInv, SMTT(30)
<1> QED
  BY <1>1, <1>2, PTL DEF Spec

\* The coordinator, the running branch, the continuation head and the line of
\* advances agree at every step, so recoverCoordinatedBranch() finds at boot
\* every check it makes satisfied.
THEOREM GraphAttached == Spec => []Attached
<1>1. GraphInv => Attached
  BY DEF GraphInv, LineInv
<1> QED
  BY <1>1, GraphInvariance, PTL

\* The receipt completeCoordinatedBranch() writes stays true for good: no
\* effect of a branch that ended is prepared, resolved or recovered later.
THEOREM GraphReceiptFinal == Spec => []ReceiptFinal
<1>1. GraphInv => ReceiptFinal
  BY ReceiptsFinal DEF GraphInv
<1> QED
  BY <1>1, GraphInvariance, PTL

\* Manifests, capsule parents, branch parents and request views name nothing
\* of another world, but for the grants to theirs.
THEOREM GraphWorldsApart == Spec => []WorldsApart
<1>1. GraphInv => WorldsApart
  BY WorldsAreApart DEF GraphInv
<1> QED
  BY <1>1, GraphInvariance, PTL

\* A row that was accepted reads back for good, a bound view still agrees with
\* the profile that headed its world, and every stored view materializes by
\* the separate checks of src/context/view.ts.
THEOREM GraphReadable == Spec => []Readable
<1>1. GraphInv => Readable
  BY AllReadable, SMTT(30)
<1> QED
  BY <1>1, GraphInvariance, PTL

=============================================================================

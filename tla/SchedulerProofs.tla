--------------------------- MODULE SchedulerProofs ---------------------------
(***************************************************************************)
(* What the scheduler promises of its tasks, for every number of rows,     *)
(* calls, crashes and failing callbacks: a run wake is delivered at most   *)
(* once, the timer covers every task, a reminder keeps nagging.            *)
(*                                                                         *)
(* None of the three is inductive.  SchedInv adds what they rest on:       *)
(*  - RowInv: the rows form a forest of depth one (a nag's parent is an    *)
(*    earlier reminder), and what poll() holds of a task across its        *)
(*    callbacks is still what the table says;                              *)
(*  - WakeInv: a run wake that fired is not armed, and stays so;           *)
(*  - NagInv: a fired reminder has an open nag, except while poll() stands *)
(*    between marking the old one done and making the next; and a parent   *)
(*    this poll already served has a nag the poll will not visit.          *)
(* DownIdle says that a process which died is in no poll.                  *)
(***************************************************************************)
EXTENDS Scheduler, WellFoundedInduction, TLAPS

\* Nags have reminders for parents, and the Agent's wakes are none of them.
Lineage ==
  \A id \in DOMAIN task :
    /\ task[id].role = "wake" => task[id].kind = "custom"
    /\ task[id].kind # "reminder-nag" => task[id].parent = 0
    /\ task[id].parent < id
    /\ task[id].parent \in DOMAIN task => task[task[id].parent].kind = "reminder"

\* What poll() remembers of the task it is at is what the row says.
Visited ==
  /\ step = "idle" => queue = {} /\ nagged = {}
  /\ step # "idle" => now > 0
  /\ step \in {"settle", "spawn"} =>
       /\ task[current.id].kind = current.row.kind /\ task[current.id].parent = current.row.parent
       /\ current.id \notin queue
  /\ step = "settle" => task[current.id].role = "wake" \/ current.row = task[current.id]
  /\ step = "spawn" => Parent \in DOMAIN task /\ task[Parent].kind = "reminder"

\* The rows, the poll and the pending wake agree.
RowInv ==
  /\ TypeOK /\ Lineage /\ Visited
  /\ pending \in DOMAIN task => task[pending].role = "wake"
  /\ \A id \in Id : id > lastId => fired[id] = 0

\* A run wake that fired is not armed any more.
WakeInv ==
  \A id \in DOMAIN task : task[id].role = "wake" =>
    fired[id] <= 1 /\ (fired[id] > 0 => task[id].payload # "armed")

\* A reminder that has to nag, and one that goes on to.
Owes(p)   == task[p].nag > 0 /\ task[p].kind = "reminder" /\ fired[p] > 0 /\ p \notin acked
NagsOn(p) == \E c \in Children(task, p) : task[c].nag > 0

\* Only an acknowledged reminder is done, a parent this poll has served has a nag
\* the poll will not visit, and a reminder that has to nag does.
NagInv ==
  /\ \A id \in DOMAIN task : task[id].kind = "reminder" /\ task[id].done => id \in acked
  /\ \A p \in nagged : \E c \in Children(task, p) :
       /\ c \notin queue /\ task[c].nag = task[p].nag
       /\ step \in {"settle", "spawn"} => c # current.id
  /\ crashes = 0 => \A p \in DOMAIN task : Owes(p) =>
       \/ NagsOn(p)
       \/ step = "settle" /\ current.id = p
       \/ step = "spawn" /\ Parent = p

-----------------------------------------------------------------------------
(* Minima: the earliest time and the first slot exist.                     *)

\* A set of naturals that is not empty has a least element.
LEMMA HasMin == ASSUME NEW S, S \subseteq Nat, S # {} PROVE \E m \in S : \A n \in S : m <= n
<1>1. PICK x \in S : \A y \in S : ~(<<y, x>> \in OpToRel(<, Nat))
  BY NatLessThanWellFounded, WFMin, Zenon
<1>2. \A y \in S : y \in Nat /\ x \in Nat /\ ~(y < x)
  BY <1>1, Zenon DEF OpToRel
<1>3. \A y \in S : x <= y
  <2> TAKE y \in S
  <2> QED
    BY <1>2
<1> QED
  BY <1>1, <1>3, Zenon

\* rearm() finds a time, not before now, and no later than any task can run.
LEMMA RearmedIs ==
  ASSUME NEW t, \A id \in DOMAIN t : t[id] \in Rows, clock \in Nat \ {0}
  PROVE  /\ Rearmed(t) \in Nat \ {0}
         /\ \A id \in DOMAIN t : ~t[id].done => Rearmed(t) <= Max2(EffectiveAt(t[id]), clock)
<1> DEFINE times == {EffectiveAt(t[id]) : id \in {i \in DOMAIN t : ~t[i].done}} \cup {clock + RetryDelay}
           first == CHOOSE m \in times : \A n \in times : m <= n
<1>1. \A id \in DOMAIN t : EffectiveAt(t[id]) \in Nat
  BY DEF EffectiveAt, Max2, Rows
<1>2. clock + RetryDelay \in Nat
  BY DEF RetryDelay
<1>3. times \subseteq Nat /\ times # {}
  BY <1>1, <1>2, Zenon
<1>4. first \in times /\ \A n \in times : first <= n
  <2> HIDE DEF times
  <2>1. \E m \in times : \A n \in times : m <= n
    BY <1>3, HasMin, Zenon
  <2> QED
    BY <2>1, Zenon
<1>5. \A id \in DOMAIN t : ~t[id].done => EffectiveAt(t[id]) \in times
  BY Zenon
<1>6. Rearmed(t) = Max2(clock, first)
  BY Zenon DEF Rearmed
<1> HIDE DEF times, first
<1>7. first \in Nat
  BY <1>3, <1>4, Zenon
<1>8. \A id \in DOMAIN t : ~t[id].done => first <= EffectiveAt(t[id])
  BY <1>4, <1>5, Zenon
<1> QED
  BY <1>1, <1>6, <1>7, <1>8 DEF Max2

\* A cadence has a slot after any time.
LEMMA NextSlotIs ==
  ASSUME NEW row \in Rows, row.interval > 0, NEW at \in Nat
  PROVE  NextSlot(row, at) \in Nat \ {0} /\ NextSlot(row, at) > at
<1> DEFINE slots == {row.next + k * row.interval : k \in 0..at}
           late == {n \in slots : n > at}
<1>1. row.next \in Nat \ {0} /\ row.interval \in Nat \ {0}
  BY DEF Rows
<1>2. \A k \in 0..at : row.next + k * row.interval \in Nat
  BY <1>1
<1>3. slots \subseteq Nat
  BY <1>2, Zenon
<1>4. row.next + at * row.interval > at
  <2>1. \A i \in Nat \ {0} : at * i >= at
    OBVIOUS
  <2> QED
    BY <1>1, <2>1
<1>5. at \in 0..at
  OBVIOUS
<1>6. late \subseteq Nat /\ late # {}
  BY <1>3, <1>4, <1>5, Zenon
<1>7. \E n \in late : \A m \in late : n <= m
  <2> HIDE DEF late
  <2> QED
    BY <1>6, HasMin, Zenon
<1>8. \E n \in slots : n > at /\ \A m \in slots : m > at => n <= m
  BY <1>7, Zenon
<1>9. NextSlot(row, at) = CHOOSE n \in slots : n > at /\ \A m \in slots : m > at => n <= m
  BY Zenon DEF NextSlot
<1> HIDE DEF slots, late
<1>10. NextSlot(row, at) \in slots /\ NextSlot(row, at) > at
  BY <1>8, <1>9, Zenon
<1>11. NextSlot(row, at) \in Nat
  BY <1>3, <1>10, Zenon
<1> QED
  BY <1>10, <1>11

-----------------------------------------------------------------------------
(* What the operators on rows keep.                                        *)

\* A row keeps its kind, role and parent for life, and is armed only when made.
Succ(r, s) ==
  /\ r \in Rows /\ r.kind = s.kind /\ r.role = s.role /\ r.parent = s.parent
  /\ r.payload = "armed" => s.payload = "armed"

\* Most changes also leave the nag interval and the done flag alone.
Alike(r, s) == Succ(r, s) /\ r.nag = s.nag /\ r.done = s.done

\* A row is like itself.
LEMMA AlikeSelf == ASSUME NEW r \in Rows PROVE Alike(r, r)
BY Zenon DEF Alike, Succ

\* What writing one column of a row keeps.
LEMMA RowWith ==
  ASSUME NEW r \in Rows
  PROVE  /\ Succ([r EXCEPT !.done = TRUE], r) /\ [r EXCEPT !.done = TRUE].nag = r.nag
         /\ [r EXCEPT !.done = TRUE].done
         /\ \A p \in {"none", "preempted", "fired"} : Alike([r EXCEPT !.payload = p], r)
         /\ \A n \in Nat \ {0} : Alike([r EXCEPT !.next = n], r)
         /\ \A n \in Nat : Alike([r EXCEPT !.snooze = n], r)
         /\ \A n \in Nat : Alike([r EXCEPT !.interval = n], r)
         /\ \A n \in Nat : LET q == [r EXCEPT !.nag = n] IN
              Succ(q, r) /\ q.nag = n /\ q.done = r.done
<1>1. LET q == [r EXCEPT !.done = TRUE] IN Succ(q, r) /\ q.nag = r.nag /\ q.done
  BY Zenon DEF Succ, Rows
<1>2. ASSUME NEW p \in {"none", "preempted", "fired"} PROVE Alike([r EXCEPT !.payload = p], r)
  BY DEF Alike, Succ, Rows
<1>3. ASSUME NEW n \in Nat \ {0} PROVE Alike([r EXCEPT !.next = n], r)
  BY DEF Alike, Succ, Rows
<1>4. ASSUME NEW n \in Nat PROVE Alike([r EXCEPT !.snooze = n], r)
  BY DEF Alike, Succ, Rows
<1>5. ASSUME NEW n \in Nat PROVE Alike([r EXCEPT !.interval = n], r)
  BY DEF Alike, Succ, Rows
<1>6. ASSUME NEW n \in Nat
      PROVE  LET q == [r EXCEPT !.nag = n] IN Succ(q, r) /\ q.nag = n /\ q.done = r.done
  BY DEF Succ, Rows
<1> QED
  BY <1>1, <1>2, <1>3, <1>4, <1>5, <1>6, Zenon

\* markDone.
LEMMA MarkDoneIs ==
  ASSUME NEW t, \A id \in DOMAIN t : t[id] \in Rows, NEW ids
  PROVE  /\ DOMAIN MarkDone(t, ids) = DOMAIN t
         /\ \A id \in DOMAIN t :
              /\ Succ(MarkDone(t, ids)[id], t[id]) /\ MarkDone(t, ids)[id].nag = t[id].nag
              /\ MarkDone(t, ids)[id].done <=> t[id].done \/ id \in ids
              /\ id \notin ids => MarkDone(t, ids)[id] = t[id]
<1>1. /\ DOMAIN MarkDone(t, ids) = DOMAIN t
      /\ \A id \in DOMAIN t : MarkDone(t, ids)[id] = IF id \in ids THEN [t[id] EXCEPT !.done = TRUE] ELSE t[id]
  BY Zenon DEF MarkDone
<1>2. \A id \in DOMAIN t : id \in ids =>
         /\ Succ([t[id] EXCEPT !.done = TRUE], t[id]) /\ [t[id] EXCEPT !.done = TRUE].nag = t[id].nag
         /\ [t[id] EXCEPT !.done = TRUE].done
  BY RowWith, Zenon
<1>3. \A id \in DOMAIN t : Alike(t[id], t[id])
  BY AlikeSelf, Zenon
<1> QED
  BY <1>1, <1>2, <1>3, Zenon DEF Alike

\* snooze: the rows keep what they are.
LEMMA SnoozedIs ==
  ASSUME NEW t, \A id \in DOMAIN t : t[id] \in Rows, NEW ids, NEW until \in Nat
  PROVE  /\ DOMAIN Snoozed(t, ids, until) = DOMAIN t
         /\ \A id \in DOMAIN t : Alike(Snoozed(t, ids, until)[id], t[id])
BY AlikeSelf, RowWith, Zenon DEF Snoozed

\* The retry delay.
LEMMA DelayedIs ==
  ASSUME NEW t, \A id \in DOMAIN t : t[id] \in Rows, NEW id \in DOMAIN t, clock \in Nat \ {0}
  PROVE  /\ DOMAIN Delayed(t, id) = DOMAIN t
         /\ \A i \in DOMAIN t : Alike(Delayed(t, id)[i], t[i])
<1> DEFINE at == Max2(t[id].next, clock + RetryDelay)
<1>1. at \in Nat \ {0}
  BY DEF Max2, RetryDelay, Rows
<1>2. Delayed(t, id) = IF t[id].done THEN t ELSE [t EXCEPT ![id].next = at]
  BY Zenon DEF Delayed
<1> HIDE DEF at
<1>3. \A i \in DOMAIN t : Alike(t[i], t[i])
  BY AlikeSelf, Zenon
<1>4. Alike([t[id] EXCEPT !.next = at], t[id])
  BY <1>1, RowWith, Zenon
<1>5. CASE t[id].done
  BY <1>2, <1>3, <1>5, Zenon
<1>6. CASE ~t[id].done
  <2>1. Delayed(t, id) = [t EXCEPT ![id] = [t[id] EXCEPT !.next = at]]
    BY <1>2, <1>6, Zenon
  <2> QED
    BY <1>3, <1>4, <2>1, Zenon
<1> QED
  BY <1>5, <1>6, Zenon

\* preemptRunWake touches no row but a run wake.
LEMMA PreemptedIs ==
  ASSUME RowInv
  PROVE  /\ DOMAIN Preempted(task) = DOMAIN task
         /\ \A id \in DOMAIN task :
              /\ Succ(Preempted(task)[id], task[id]) /\ Preempted(task)[id].nag = task[id].nag
              /\ task[id].role = "user" => Preempted(task)[id] = task[id]
              /\ id # pending => Preempted(task)[id] = task[id]
              /\ task[id].done => Preempted(task)[id].done
<1>1. \A id \in DOMAIN task : task[id] \in Rows
  BY Zenon DEF RowInv, TypeOK
<1>2. \A id \in DOMAIN task : Alike(task[id], task[id])
  BY <1>1, AlikeSelf, Zenon
<1>3. CASE ~(pending \in DOMAIN task /\ ~task[pending].done)
  BY <1>2, <1>3, Zenon DEF Preempted, Alike
<1>4. CASE pending \in DOMAIN task /\ ~task[pending].done
  <2> DEFINE q == [[task[pending] EXCEPT !.payload = "preempted"] EXCEPT !.done = TRUE]
  <2>1. Alike([task[pending] EXCEPT !.payload = "preempted"], task[pending])
    BY <1>1, <1>4, RowWith, Zenon
  <2>2. Succ(q, task[pending]) /\ q.nag = task[pending].nag
    BY <2>1, RowWith, Zenon DEF Alike, Succ
  <2>3. q = [task[pending] EXCEPT !.payload = "preempted", !.done = TRUE]
    BY Zenon
  <2>4. Preempted(task) = [task EXCEPT ![pending] = q]
    BY <1>1, <1>4, <2>3, Zenon DEF Preempted, Rows
  <2>5. task[pending].role = "wake"
    BY <1>4, Zenon DEF RowInv
  <2> HIDE DEF q
  <2> QED
    BY <1>2, <1>4, <2>2, <2>4, <2>5, Zenon DEF Alike
<1> QED
  BY <1>3, <1>4, Zenon

\* update() of a column changes that column only.
FieldType(field, value) ==
  \/ field = "next" /\ value \in Nat \ {0}
  \/ field = "snooze" /\ value \in Nat
  \/ field = "payload" /\ value = "none"
  \/ field = "interval" /\ value \in Nat
  \/ field = "nag" /\ value \in Nat

\* update() of one column keeps kind, role, parent and the done flag, and arms nothing.
LEMMA PatchedIs ==
  ASSUME NEW r \in Rows, NEW field, NEW value, FieldType(field, value)
  PROVE  /\ Succ(Patched(r, field, value), r) /\ Patched(r, field, value).done = r.done
         /\ field # "nag" => Patched(r, field, value).nag = r.nag
<1>1. CASE field = "next" /\ value \in Nat \ {0}
  <2>1. Patched(r, field, value) = [r EXCEPT !.next = value]
    BY <1>1 DEF Patched
  <2>2. Alike([r EXCEPT !.next = value], r)
    BY <1>1, RowWith, Zenon
  <2> QED
    BY <2>1, <2>2, Zenon DEF Alike
<1>2. CASE field = "snooze" /\ value \in Nat
  <2>1. Patched(r, field, value) = [r EXCEPT !.snooze = value]
    BY <1>2 DEF Patched
  <2>2. Alike([r EXCEPT !.snooze = value], r)
    BY <1>2, RowWith, Zenon
  <2> QED
    BY <2>1, <2>2, Zenon DEF Alike
<1>3. CASE field = "payload" /\ value = "none"
  <2>1. Patched(r, field, value) = [r EXCEPT !.payload = value]
    BY <1>3 DEF Patched
  <2>2. Alike([r EXCEPT !.payload = value], r)
    BY <1>3, RowWith, Zenon
  <2> QED
    BY <2>1, <2>2, Zenon DEF Alike
<1>4. CASE field = "interval" /\ value \in Nat
  <2>1. Patched(r, field, value) = [r EXCEPT !.interval = value]
    BY <1>4 DEF Patched
  <2>2. Alike([r EXCEPT !.interval = value], r)
    BY <1>4, RowWith, Zenon
  <2> QED
    BY <2>1, <2>2, Zenon DEF Alike
<1>5. CASE field = "nag" /\ value \in Nat
  <2>1. Patched(r, field, value) = [r EXCEPT !.nag = value]
    BY <1>5 DEF Patched
  <2>2. Succ([r EXCEPT !.nag = value], r) /\ [r EXCEPT !.nag = value].done = r.done
    BY <1>5, RowWith, Zenon
  <2> QED
    BY <1>5, <2>1, <2>2, Zenon
<1> QED
  BY <1>1, <1>2, <1>3, <1>4, <1>5, Zenon DEF FieldType

\* elpis.schedule hands update() values of the columns' types.
LEMMA PatchesTyped ==
  ASSUME clock \in Nat \ {0}, NEW id, NEW p \in Patches(id)
  PROVE  FieldType(p[1], p[2])
BY DEF Patches, FieldType, Soon, Later

-----------------------------------------------------------------------------
(* RowInv over the kinds of steps.                                         *)

\* A step that makes no row.
Edits ==
  /\ lastId' = lastId /\ DOMAIN task' \subseteq DOMAIN task
  /\ \A id \in DOMAIN task' : Succ(task'[id], task[id])

\* The variables that are not about rows or the poll have their types.
Others ==
  /\ clock' \in Nat \ {0} /\ clock' >= clock /\ timer' \in Nat /\ up' \in BOOLEAN
  /\ pending' \in 0..lastId' /\ (pending' \in DOMAIN task' => task'[pending'].role = "wake")
  /\ inbound' \in BOOLEAN /\ parked' \in BOOLEAN
  /\ fired' \in [Id -> 0..2] /\ (\A id \in Id : id > lastId' => fired'[id] = 0)
  /\ acked' \subseteq 0..MaxTask /\ crashes' \in Nat

\* RowInv over a step of a poll that makes no row.
LEMMA EditRow ==
  ASSUME RowInv, Edits, Others, Visited', queue' \subseteq DOMAIN task', nagged' \subseteq DOMAIN task',
         now' \in 0..clock', step' \in {"idle", "next", "settle", "spawn"},
         step' \in {"settle", "spawn"} => current'.id \in DOMAIN task' /\ current'.row \in Rows
  PROVE  RowInv'
<1>1. Lineage'
  <2> SUFFICES ASSUME NEW id \in DOMAIN task'
               PROVE  /\ task'[id].role = "wake" => task'[id].kind = "custom"
                      /\ task'[id].kind # "reminder-nag" => task'[id].parent = 0
                      /\ task'[id].parent < id
                      /\ task'[id].parent \in DOMAIN task' => task'[task'[id].parent].kind = "reminder"
    BY Zenon DEF Lineage
  <2>1. /\ id \in DOMAIN task /\ task'[id].role = task[id].role /\ task'[id].kind = task[id].kind
        /\ task'[id].parent = task[id].parent
    BY Zenon DEF Edits, Succ
  <2>2. task'[id].parent \in DOMAIN task' =>
          task[id].parent \in DOMAIN task /\ task'[task'[id].parent].kind = task[task[id].parent].kind
    BY <2>1, Zenon DEF Edits, Succ
  <2>3. /\ task[id].role = "wake" => task[id].kind = "custom"
        /\ task[id].kind # "reminder-nag" => task[id].parent = 0
        /\ task[id].parent < id
        /\ task[id].parent \in DOMAIN task => task[task[id].parent].kind = "reminder"
    BY <2>1, Zenon DEF RowInv, Lineage
  <2> QED
    BY <2>1, <2>2, <2>3
<1>2. /\ lastId' \in 0..MaxTask /\ DOMAIN task' \subseteq 1..lastId'
      /\ \A id \in DOMAIN task' : task'[id] \in Rows
  BY Zenon DEF Edits, Succ, RowInv, TypeOK
<1>3. TypeOK'
  BY <1>2, Zenon DEF Others, TypeOK
<1> QED
  BY <1>1, <1>3, Zenon DEF RowInv, Others

\* A call between polls.
LEMMA IdleRow ==
  ASSUME RowInv, Edits, Others, step = "idle", UNCHANGED poll
  PROVE  RowInv'
<1>1. /\ step' = "idle" /\ queue' = {} /\ nagged' = {} /\ now' = now
  BY Zenon DEF RowInv, Visited, poll
<1>2. now' \in 0..clock'
  BY <1>1 DEF RowInv, TypeOK, Others
<1>3. Visited'
  BY <1>1, Zenon DEF Visited
<1> QED
  BY <1>1, <1>2, <1>3, EditRow, Zenon

\* A step that makes a row.
LEMMA NewRow ==
  ASSUME RowInv, Others, NEW r \in Rows, NEW t, NEW id, id = lastId + 1, lastId < MaxTask, lastId' = id,
         task' = [i \in DOMAIN t \cup {id} |-> IF i = id THEN r ELSE t[i]],
         DOMAIN t = DOMAIN task, \A i \in DOMAIN t : Succ(t[i], task[i]),
         r.role = "wake" => r.kind = "custom", r.kind # "reminder-nag" => r.parent = 0, r.parent < id,
         r.parent \in DOMAIN task => task[r.parent].kind = "reminder",
         queue' \subseteq DOMAIN task, nagged' \subseteq DOMAIN task, now' \in 0..clock',
         step' \in {"idle", "next"}, step' = "idle" => queue' = {} /\ nagged' = {},
         step' = "next" => now' > 0
  PROVE  RowInv'
<1>1. /\ id \notin DOMAIN task /\ DOMAIN task' = DOMAIN task \cup {id} /\ id \in Nat
      /\ \A i \in DOMAIN task : i # id /\ task'[i] = t[i]
      /\ task'[id] = r
  BY DEF RowInv, TypeOK
<1>2. /\ lastId' \in 0..MaxTask /\ DOMAIN task' \subseteq 1..lastId'
  <2>1. lastId \in 0..MaxTask /\ DOMAIN task \subseteq 1..lastId /\ MaxTask \in Nat
    BY BoundsAssumption, Zenon DEF RowInv, TypeOK
  <2>2. id \in 1..id /\ 1..lastId \subseteq 1..id /\ id \in 0..MaxTask
    BY <2>1
  <2> QED
    BY <1>1, <2>1, <2>2, Zenon
<1>3. \A i \in DOMAIN task' : task'[i] \in Rows
  BY <1>1, Zenon DEF Succ
<1>4. \A i \in DOMAIN task : task[i].parent \in DOMAIN task' => task[i].parent \in DOMAIN task
  BY <1>1 DEF RowInv, TypeOK, Lineage, Rows
<1>5. \A i \in DOMAIN task : task'[i].kind = task[i].kind /\ task'[i].role = task[i].role
                             /\ task'[i].parent = task[i].parent
  BY <1>1, Zenon DEF Succ
<1>6. r.parent # id
  BY <1>1 DEF Rows
<1>7. Lineage'
  <2>1. ASSUME NEW i \in DOMAIN task
        PROVE  /\ task'[i].role = "wake" => task'[i].kind = "custom"
               /\ task'[i].kind # "reminder-nag" => task'[i].parent = 0
               /\ task'[i].parent < i
               /\ task'[i].parent \in DOMAIN task' => task'[task'[i].parent].kind = "reminder"
    <3>1. /\ task[i].role = "wake" => task[i].kind = "custom"
          /\ task[i].kind # "reminder-nag" => task[i].parent = 0
          /\ task[i].parent < i
          /\ task[i].parent \in DOMAIN task => task[task[i].parent].kind = "reminder"
      BY Zenon DEF RowInv, Lineage
    <3> QED
      BY <1>4, <1>5, <3>1
  <2>2. r.parent \in DOMAIN task' => task'[r.parent].kind = "reminder"
    BY <1>1, <1>5, <1>6, Zenon
  <2> QED
    BY <1>1, <2>1, <2>2, ZenonT(30) DEF Lineage
<1>8. TypeOK'
  <2>1. queue' \subseteq DOMAIN task' /\ nagged' \subseteq DOMAIN task'
    BY <1>1, Zenon
  <2>2. step' \in {"idle", "next", "settle", "spawn"} /\ ~(step' \in {"settle", "spawn"})
    BY Zenon
  <2> QED
    BY <1>2, <1>3, <2>1, <2>2, Zenon DEF Others, TypeOK
<1>9. Visited'
  BY Zenon DEF Visited
<1> QED
  BY <1>7, <1>8, <1>9, Zenon DEF RowInv, Others

-----------------------------------------------------------------------------
(* The other parts of the invariant over the kinds of steps.               *)

\* Only notifyRunWake counts the wakes of a run wake.
LEMMA EditWake ==
  ASSUME RowInv, WakeInv, Edits, \A id \in DOMAIN task' : task[id].role = "wake" => fired'[id] = fired[id]
  PROVE  WakeInv'
<1> SUFFICES ASSUME NEW id \in DOMAIN task', task'[id].role = "wake"
             PROVE  fired'[id] <= 1 /\ (fired'[id] > 0 => task'[id].payload # "armed")
  BY Zenon DEF WakeInv
<1>1. id \in DOMAIN task /\ task[id].role = "wake" /\ (task'[id].payload = "armed" => task[id].payload = "armed")
  BY Zenon DEF Edits, Succ
<1>2. fired[id] <= 1 /\ (fired[id] > 0 => task[id].payload # "armed")
  BY <1>1, Zenon DEF WakeInv
<1>3. fired'[id] = fired[id]
  BY <1>1, Zenon
<1> QED
  BY <1>1, <1>2, <1>3, Zenon

\* A new row has fired no wake.
LEMMA NewWake ==
  ASSUME RowInv, WakeInv, NEW r, NEW t, NEW id, id = lastId + 1, lastId < MaxTask,
         task' = [i \in DOMAIN t \cup {id} |-> IF i = id THEN r ELSE t[i]],
         DOMAIN t = DOMAIN task, \A i \in DOMAIN t : Succ(t[i], task[i]), fired' = fired
  PROVE  WakeInv'
<1>1. id \in Id /\ fired[id] = 0
  BY BoundsAssumption DEF RowInv, TypeOK, Id
<1>2. /\ fired[id] <= 1 /\ ~(fired[id] > 0)
  BY <1>1
<1> SUFFICES ASSUME NEW i \in DOMAIN task', task'[i].role = "wake"
             PROVE  fired[i] <= 1 /\ (fired[i] > 0 => task'[i].payload # "armed")
  BY Zenon DEF WakeInv
<1>3. CASE i = id
  BY <1>2, <1>3, Zenon
<1>4. CASE i # id
  <2>1. i \in DOMAIN task /\ task'[i] = t[i]
    BY <1>4, Zenon
  <2>2. task[i].role = "wake" /\ (task'[i].payload = "armed" => task[i].payload = "armed")
    BY <2>1, Zenon DEF Succ
  <2> QED
    BY <2>1, <2>2, Zenon DEF WakeInv
<1> QED
  BY <1>3, <1>4, Zenon

\* rearm() covers every task.
LEMMA Rearms ==
  ASSUME RowInv, RowInv', clock' = clock, timer' = Rearmed(task')
  PROVE  TimerCovers'
<1>1. (\A id \in DOMAIN task' : task'[id] \in Rows) /\ clock \in Nat \ {0}
  BY Zenon DEF RowInv, TypeOK
<1>2. /\ Rearmed(task') \in Nat \ {0}
      /\ \A id \in DOMAIN task' : ~task'[id].done => Rearmed(task') <= Max2(EffectiveAt(task'[id]), clock)
  BY <1>1, RearmedIs, Zenon
<1> QED
  BY <1>2, Zenon DEF TimerCovers, EffectiveAt, Max2

\* A call between polls ends no nag but of a reminder that is acknowledged.
LEMMA IdleNag ==
  ASSUME RowInv, NagInv, step = "idle", UNCHANGED <<poll, crashes>>,
         \A id \in DOMAIN task' : task'[id].kind = "reminder" /\ task'[id].done => id \in acked',
         \A p \in DOMAIN task' : Owes(p)' => p \in DOMAIN task /\ Owes(p),
         \A p \in DOMAIN task : \A c \in Children(task, p) :
           p \in acked' \/ (c \in Children(task', p) /\ task'[c].nag = task[c].nag)
  PROVE  NagInv'
<1>1. step' = "idle" /\ nagged' = {}
  BY Zenon DEF RowInv, Visited, poll
<1>2. ASSUME crashes' = 0, NEW p \in DOMAIN task', Owes(p)' PROVE NagsOn(p)'
  <2>1. p \in DOMAIN task /\ Owes(p) /\ p \notin acked'
    BY <1>2, Zenon DEF Owes
  <2>2. NagsOn(p)
    BY <1>2, <2>1, Zenon DEF NagInv
  <2>3. PICK c \in Children(task, p) : task[c].nag > 0
    BY <2>2, Zenon DEF NagsOn
  <2>4. c \in Children(task', p) /\ task'[c].nag > 0
    BY <2>1, <2>3, Zenon
  <2> QED
    BY <2>4, Zenon DEF NagsOn
<1> QED
  BY <1>1, <1>2, Zenon DEF NagInv

-----------------------------------------------------------------------------
(* The actions between polls.                                              *)

\* The inductive invariant.
SchedInv == RowInv /\ WakeInv /\ TimerCovers /\ NagInv

\* What a step that starts no process leaves of the other variables.
LEMMA OthersSame ==
  ASSUME RowInv, Edits, clock' = clock, timer' \in Nat, up' = up, pending' \in {0, pending},
         inbound' \in BOOLEAN, parked' \in BOOLEAN, fired' \in [Id -> 0..2],
         \A id \in Id : id > lastId => fired'[id] = 0, acked' \subseteq 0..MaxTask, crashes' = crashes
  PROVE  Others
<1>1. /\ clock \in Nat \ {0} /\ clock >= clock /\ up \in BOOLEAN /\ pending' \in 0..lastId' /\ crashes \in Nat
  BY BoundsAssumption DEF RowInv, TypeOK, Edits
<1>2. 0 \notin DOMAIN task'
  BY BoundsAssumption DEF RowInv, TypeOK, Edits
<1>3. pending' \in DOMAIN task' => task'[pending'].role = "wake"
  BY <1>2, Zenon DEF RowInv, Edits, Succ
<1> QED
  BY <1>1, <1>3, Zenon DEF Others, Edits

\* A step that leaves the rows alone is an edit.
LEMMA SameEdits == ASSUME RowInv, UNCHANGED <<task, lastId>> PROVE Edits
<1>1. \A id \in DOMAIN task : Alike(task[id], task[id])
  BY AlikeSelf, Zenon DEF RowInv, TypeOK
<1> QED
  BY <1>1, Zenon DEF Edits, Alike

\* The clock and the Agent's loop.
LEMMA LoopInv ==
  ASSUME SchedInv, step = "idle", UNCHANGED <<task, lastId, timer, up, poll, pending, fired, acked, crashes>>,
         clock' \in {clock, clock + 1}, inbound' \in BOOLEAN, parked' \in BOOLEAN
  PROVE  SchedInv'
<1>1. RowInv /\ WakeInv /\ TimerCovers /\ NagInv
  BY Zenon DEF SchedInv
<1>2. Edits
  BY <1>1, SameEdits, Zenon
<1>3. clock' \in Nat \ {0} /\ clock' >= clock /\ clock \in Nat
  BY <1>1 DEF RowInv, TypeOK
<1>4. Others
  BY <1>1, <1>3, Zenon DEF Others, RowInv, TypeOK
<1>5. RowInv'
  BY <1>1, <1>2, <1>4, IdleRow, Zenon
<1>6. WakeInv'
  BY <1>1, Zenon DEF WakeInv
<1>7. TimerCovers'
  <2>1. \A id \in DOMAIN task : EffectiveAt(task[id]) \in Nat
    BY <1>1 DEF RowInv, TypeOK, EffectiveAt, Max2, Rows
  <2>2. ASSUME NEW e \in Nat, timer <= Max2(e, clock) PROVE timer <= Max2(e, clock')
    BY <1>1, <1>3, <2>2 DEF Max2, RowInv, TypeOK
  <2>3. step' = step
    BY Zenon DEF poll
  <2> QED
    BY <1>1, <2>1, <2>2, <2>3, Zenon DEF TimerCovers, EffectiveAt
<1>8. NagInv'
  <2>1. \A p \in DOMAIN task' : Owes(p)' => p \in DOMAIN task /\ Owes(p)
    BY Zenon DEF Owes
  <2>2. \A id \in DOMAIN task' : task'[id].kind = "reminder" /\ task'[id].done => id \in acked'
    BY <1>1, Zenon DEF NagInv
  <2>3. UNCHANGED <<poll, crashes>>
    BY Zenon
  <2>4. \A p \in DOMAIN task : \A c \in Children(task, p) :
           p \in acked' \/ (c \in Children(task', p) /\ task'[c].nag = task[c].nag)
    BY Zenon
  <2> QED
    BY <1>1, <2>1, <2>2, <2>3, <2>4, IdleNag, Zenon
<1> QED
  BY <1>5, <1>6, <1>7, <1>8, Zenon DEF SchedInv

\* The clock moves on.
LEMMA TickInv == ASSUME SchedInv, Tick PROVE SchedInv'
<1>1. /\ step = "idle" /\ UNCHANGED <<task, lastId, timer, up, poll, pending, fired, acked, crashes>>
      /\ clock' \in {clock, clock + 1} /\ inbound' = inbound /\ parked' = parked
  BY Zenon DEF Tick, store, agent, ghost
<1>2. inbound' \in BOOLEAN /\ parked' \in BOOLEAN
  BY <1>1, Zenon DEF SchedInv, RowInv, TypeOK
<1> QED
  BY <1>1, <1>2, LoopInv, Zenon

\* The loop takes its input, or parks.
LEMMA DrainInv == ASSUME SchedInv, Drain \/ Park PROVE SchedInv'
<1>1. /\ step = "idle" /\ UNCHANGED <<task, lastId, timer, up, poll, pending, fired, acked, crashes>>
      /\ clock' \in {clock, clock + 1} /\ inbound' \in {inbound, FALSE} /\ parked' \in {parked, TRUE}
  BY Zenon DEF Drain, Park, store, ghost
<1>2. inbound' \in BOOLEAN /\ parked' \in BOOLEAN
  BY <1>1, Zenon DEF SchedInv, RowInv, TypeOK
<1> QED
  BY <1>1, <1>2, LoopInv, Zenon

\* A timer that is not armed again still covers tasks that moved to later times.
LEMMA TimerStays ==
  ASSUME RowInv, RowInv', TimerCovers, clock' = clock, timer' = timer, up' = up, step' = step, Edits,
         \A id \in DOMAIN task' : ~task'[id].done =>
           ~task[id].done /\ EffectiveAt(task[id]) <= EffectiveAt(task'[id])
  PROVE  TimerCovers'
<1>1. \A id \in DOMAIN task : EffectiveAt(task[id]) \in Nat
  BY DEF RowInv, TypeOK, EffectiveAt, Max2, Rows
<1>2. \A id \in DOMAIN task' : EffectiveAt(task'[id]) \in Nat
  BY DEF RowInv, TypeOK, EffectiveAt, Max2, Rows
<1>3. clock \in Nat /\ timer \in Nat
  BY DEF RowInv, TypeOK
<1>4. ASSUME NEW d \in Nat, NEW e \in Nat, d <= e, timer <= Max2(d, clock) PROVE timer <= Max2(e, clock)
  BY <1>3, <1>4 DEF Max2
<1>5. ASSUME up', step' = "idle", NEW id \in DOMAIN task', ~task'[id].done
      PROVE  timer' <= Max2(EffectiveAt(task'[id]), clock')
  <2>1. id \in DOMAIN task /\ ~task[id].done /\ EffectiveAt(task[id]) <= EffectiveAt(task'[id])
    BY <1>5, Zenon DEF Edits
  <2>2. timer <= Max2(EffectiveAt(task[id]), clock)
    BY <1>5, <2>1, Zenon DEF TimerCovers
  <2> QED
    BY <1>1, <1>2, <1>4, <1>5, <2>1, <2>2, Zenon
<1>6. up' /\ step' = "idle" => timer' # 0
  BY Zenon DEF TimerCovers
<1> QED
  BY <1>5, <1>6, Zenon DEF TimerCovers, EffectiveAt

\* Any call between polls that makes no row.
LEMMA CallInv ==
  ASSUME SchedInv, step = "idle", UNCHANGED <<clock, up, poll, crashes>>, Edits,
         pending' \in {0, pending}, inbound' \in BOOLEAN, parked' \in BOOLEAN,
         \/ timer' = Rearmed(task')
         \/ /\ timer' = timer
            /\ \A id \in DOMAIN task' : ~task'[id].done =>
                 ~task[id].done /\ EffectiveAt(task[id]) <= EffectiveAt(task'[id]),
         fired' \in [Id -> 0..2], \A id \in Id : fired'[id] \in {0, fired[id]},
         \A id \in DOMAIN task' : task[id].role = "wake" => fired'[id] = fired[id],
         acked \subseteq acked', acked' \subseteq 0..MaxTask,
         \A id \in DOMAIN task' : task[id].kind = "reminder" /\ task'[id].done => task[id].done \/ id \in acked',
         \A id \in DOMAIN task' : task'[id].nag = task[id].nag \/ fired'[id] = 0 \/ task[id].kind # "reminder",
         \A p \in DOMAIN task : \A c \in Children(task, p) :
           p \in acked' \/ (c \in Children(task', p) /\ task'[c].nag = task[c].nag)
  PROVE  SchedInv'
<1>1. RowInv /\ WakeInv /\ TimerCovers /\ NagInv
  BY Zenon DEF SchedInv
<1>2. \A id \in Id : id > lastId => fired'[id] = 0
  BY <1>1, Zenon DEF RowInv
<1>3. /\ \A id \in DOMAIN task' : task'[id] \in Rows
      /\ clock \in Nat \ {0} /\ timer \in Nat
  BY <1>1, Zenon DEF Edits, Succ, RowInv, TypeOK
<1>4. timer' \in Nat
  BY <1>3, RearmedIs, Zenon
<1>5. clock' = clock /\ up' = up /\ crashes' = crashes /\ UNCHANGED poll /\ UNCHANGED <<poll, crashes>>
      /\ step' = step
  BY Zenon DEF poll
<1>6. Others
  BY <1>1, <1>2, <1>4, <1>5, OthersSame, Zenon
<1>7. RowInv'
  BY <1>1, <1>5, <1>6, IdleRow, Zenon
<1>8. WakeInv'
  BY <1>1, EditWake, Zenon
<1>9. TimerCovers'
  BY <1>1, <1>5, <1>7, Rearms, TimerStays, Zenon
<1>10. NagInv'
  <2>1. \A id \in DOMAIN task' : task'[id].kind = "reminder" /\ task'[id].done => id \in acked'
    <3> TAKE id \in DOMAIN task'
    <3>1. id \in DOMAIN task /\ task'[id].kind = task[id].kind
      BY Zenon DEF Edits, Succ
    <3>2. task[id].kind = "reminder" /\ task[id].done => id \in acked
      BY <1>1, <3>1, Zenon DEF NagInv
    <3> QED
      BY <3>1, <3>2, Zenon
  <2>2. \A p \in DOMAIN task' : Owes(p)' => p \in DOMAIN task /\ Owes(p)
    <3> SUFFICES ASSUME NEW p \in DOMAIN task', Owes(p)' PROVE p \in DOMAIN task /\ Owes(p)
      BY Zenon
    <3>1. task'[p].nag > 0 /\ task'[p].kind = "reminder" /\ fired'[p] > 0 /\ p \notin acked'
      BY Zenon DEF Owes
    <3>2. p \in DOMAIN task /\ task[p].kind = "reminder"
      BY <3>1, Zenon DEF Edits, Succ
    <3>3. p \in Id /\ fired'[p] # 0
      BY <1>1, <3>1, <3>2, BoundsAssumption DEF RowInv, TypeOK, Id
    <3>4. task'[p].nag = task[p].nag /\ fired'[p] = fired[p]
      BY <3>2, <3>3, Zenon
    <3> QED
      BY <3>1, <3>2, <3>4, Zenon DEF Owes
  <2> QED
    BY <1>1, <1>5, <2>1, <2>2, IdleNag, Zenon
<1> QED
  BY <1>7, <1>8, <1>9, <1>10, Zenon DEF SchedInv

\* Reminders and nags are not run wakes.
LEMMA NotWakes ==
  ASSUME RowInv
  PROVE  /\ \A id \in DOMAIN task : task[id].kind = "reminder" => task[id].role = "user"
         /\ \A p \in DOMAIN task : \A c \in Children(task, p) :
              c \in DOMAIN task /\ task[c].role = "user" /\ task[c].kind = "reminder-nag"
<1>1. \A id \in DOMAIN task : task[id].role \in {"user", "wake"}
  BY DEF RowInv, TypeOK, Rows
<1>2. 0 \notin DOMAIN task
  BY DEF RowInv, TypeOK
<1>3. \A id \in DOMAIN task : /\ task[id].role = "wake" => task[id].kind = "custom"
                              /\ task[id].kind # "reminder-nag" => task[id].parent = 0
  BY Zenon DEF RowInv, Lineage
<1>4. \A p \in DOMAIN task : \A c \in Children(task, p) : c \in DOMAIN task /\ task[c].parent = p
  BY Zenon DEF Children
<1> QED
  BY <1>1, <1>2, <1>3, <1>4

\* A child that stays as it is stays a child.
LEMMA ChildStays ==
  ASSUME NEW p, NEW c \in Children(task, p), NEW t, c \in DOMAIN t, Alike(t[c], task[c])
  PROVE  c \in Children(t, p) /\ t[c].nag = task[c].nag
<1>1. task[c].parent = p /\ ~task[c].done
  BY Zenon DEF Children
<1>2. t[c].parent = p /\ ~t[c].done /\ t[c].nag = task[c].nag
  BY <1>1 DEF Alike, Succ
<1> QED
  BY <1>2, Zenon DEF Children

\* enqueue() of a waking message.
LEMMA ExternalInputInv == ASSUME SchedInv, ExternalInput PROVE SchedInv'
<1>1. /\ step = "idle" /\ task' = Preempted(task) /\ inbound' = TRUE
      /\ IF PreemptThrows(task) THEN UNCHANGED <<pending, parked>> ELSE pending' = 0 /\ parked' = FALSE
      /\ timer' = IF pending # 0 /\ ~PreemptThrows(task) THEN Rearmed(task') ELSE timer
      /\ UNCHANGED <<clock, lastId, up, poll, fired, acked, crashes>>
  BY Zenon DEF ExternalInput, Enqueue, ghost
<1>2. RowInv
  BY Zenon DEF SchedInv
<1>3. /\ DOMAIN task' = DOMAIN task
      /\ \A id \in DOMAIN task :
           /\ Succ(task'[id], task[id]) /\ task'[id].nag = task[id].nag
           /\ task[id].role = "user" => task'[id] = task[id]
  BY <1>1, <1>2, PreemptedIs, Zenon
<1>4. Edits
  BY <1>1, <1>3, Zenon DEF Edits
<1>5. pending' \in {0, pending} /\ inbound' \in BOOLEAN /\ parked' \in BOOLEAN
  BY <1>1, <1>2, Zenon DEF RowInv, TypeOK
<1>6. \A id \in DOMAIN task : task[id] \in Rows /\ EffectiveAt(task[id]) <= EffectiveAt(task[id])
  BY <1>2 DEF RowInv, TypeOK, EffectiveAt, Max2, Rows
<1>7. \/ timer' = Rearmed(task')
      \/ /\ timer' = timer
         /\ \A id \in DOMAIN task' : ~task'[id].done =>
              ~task[id].done /\ EffectiveAt(task[id]) <= EffectiveAt(task'[id])
  <2>1. 0 \notin DOMAIN task
    BY <1>2 DEF RowInv, TypeOK
  <2>2. ~(pending # 0 /\ ~PreemptThrows(task)) => task' = task
    BY <1>1, <2>1, Zenon DEF Preempted, PreemptThrows
  <2> QED
    BY <1>1, <1>6, <2>2, Zenon
<1>8. /\ fired' \in [Id -> 0..2] /\ \A id \in Id : fired'[id] \in {0, fired[id]}
      /\ \A id \in DOMAIN task' : fired'[id] = fired[id]
      /\ acked \subseteq acked' /\ acked' \subseteq 0..MaxTask
  BY <1>1, <1>2, Zenon DEF RowInv, TypeOK
<1>9. /\ \A id \in DOMAIN task' : task[id].kind = "reminder" /\ task'[id].done => task[id].done \/ id \in acked'
      /\ \A id \in DOMAIN task' : task'[id].nag = task[id].nag \/ fired'[id] = 0 \/ task[id].kind # "reminder"
  BY <1>2, <1>3, NotWakes, Zenon
<1>10. \A p \in DOMAIN task : \A c \in Children(task, p) :
         p \in acked' \/ (c \in Children(task', p) /\ task'[c].nag = task[c].nag)
  <2> TAKE p \in DOMAIN task
  <2> TAKE c \in Children(task, p)
  <2>1. c \in DOMAIN task' /\ task'[c] = task[c] /\ task[c] \in Rows
    BY <1>2, <1>3, <1>6, NotWakes, Zenon
  <2>2. Alike(task'[c], task[c])
    BY <2>1, AlikeSelf, Zenon
  <2> QED
    BY <2>1, <2>2, ChildStays, Zenon
<1> QED
  BY <1>1, <1>4, <1>5, <1>7, <1>8, <1>9, <1>10, CallInv, Zenon

\* A call that leaves the nag intervals and the done flags alone.
LEMMA AlikeCallInv ==
  ASSUME SchedInv, step = "idle", timer' = Rearmed(task'), DOMAIN task' = DOMAIN task,
         \A i \in DOMAIN task : Alike(task'[i], task[i]),
         UNCHANGED <<clock, lastId, up, poll, fired, acked, crashes, pending, inbound, parked>>
  PROVE  SchedInv'
<1>1. RowInv
  BY Zenon DEF SchedInv
<1>2. Edits
  BY Zenon DEF Edits, Alike
<1>3. pending' \in {0, pending} /\ inbound' \in BOOLEAN /\ parked' \in BOOLEAN
  BY <1>1, Zenon DEF RowInv, TypeOK
<1>4. /\ fired' \in [Id -> 0..2] /\ \A id \in Id : fired'[id] \in {0, fired[id]}
      /\ \A id \in DOMAIN task' : fired'[id] = fired[id]
      /\ acked \subseteq acked' /\ acked' \subseteq 0..MaxTask
  BY <1>1, Zenon DEF RowInv, TypeOK
<1>5. \A i \in DOMAIN task' : task'[i].nag = task[i].nag /\ (task'[i].done => task[i].done)
  BY Zenon DEF Alike
<1>6. \A p \in DOMAIN task : \A c \in Children(task, p) :
         p \in acked' \/ (c \in Children(task', p) /\ task'[c].nag = task[c].nag)
  <2>1. \A p : \A c \in Children(task, p) : c \in DOMAIN task
    BY Zenon DEF Children
  <2> QED
    BY <2>1, ChildStays, Zenon
<1>7. UNCHANGED <<clock, up, poll, crashes>>
  BY Zenon
<1> QED
  BY <1>2, <1>3, <1>4, <1>5, <1>6, <1>7, CallInv, Zenon

\* snoozeByName().
LEMMA SnoozeInv == ASSUME SchedInv, NEW id, NEW until \in Nat, snoozeByName(id, until) PROVE SchedInv'
<1>1. /\ step = "idle" /\ task' = Snoozed(task, {id} \cup Children(task, id), until)
      /\ timer' = Rearmed(task')
      /\ UNCHANGED <<clock, lastId, up, poll, fired, acked, crashes, pending, inbound, parked>>
  BY Zenon DEF snoozeByName, Calls, ghost, agent
<1>2. RowInv
  BY Zenon DEF SchedInv
<1>3. \A i \in DOMAIN task : task[i] \in Rows
  BY <1>2, Zenon DEF RowInv, TypeOK
<1>4. DOMAIN task' = DOMAIN task /\ \A i \in DOMAIN task : Alike(task'[i], task[i])
  BY <1>1, <1>3, SnoozedIs, Zenon
<1> QED
  BY <1>1, <1>4, AlikeCallInv, Zenon

\* Ids and parents stay within the bound.
LEMMA IdsBounded ==
  ASSUME RowInv
  PROVE  \A id \in DOMAIN task : id \in Id /\ id \in 0..MaxTask /\ id <= lastId /\ task[id].parent \in 0..MaxTask
BY SMTT(30), BoundsAssumption DEF RowInv, TypeOK, Lineage, Rows, Id

\* delete(): the nags of what is deleted stay, and the parent of a nag is acknowledged.
LEMMA DeleteInv == ASSUME SchedInv, NEW id, delete(id) PROVE SchedInv'
<1>1. /\ step = "idle" /\ id \in DOMAIN task /\ task' = [i \in DOMAIN task \ {id} |-> task[i]]
      /\ timer' = Rearmed(task') /\ acked' = acked \cup {task[id].parent}
      /\ UNCHANGED <<clock, lastId, up, poll, fired, crashes, pending, inbound, parked>>
  BY Zenon DEF delete, Calls, agent
<1>2. RowInv
  BY Zenon DEF SchedInv
<1>3. \A i \in DOMAIN task : Alike(task[i], task[i])
  BY <1>2, AlikeSelf, Zenon DEF RowInv, TypeOK
<1>4. DOMAIN task' = DOMAIN task \ {id} /\ \A i \in DOMAIN task' : task'[i] = task[i]
  BY <1>1, Zenon
<1>5. Edits
  BY <1>1, <1>3, <1>4, Zenon DEF Edits, Alike
<1>6. pending' \in {0, pending} /\ inbound' \in BOOLEAN /\ parked' \in BOOLEAN
  BY <1>1, <1>2, Zenon DEF RowInv, TypeOK
<1>7. /\ fired' \in [Id -> 0..2] /\ \A i \in Id : fired'[i] \in {0, fired[i]}
      /\ \A i \in DOMAIN task' : fired'[i] = fired[i]
      /\ acked \subseteq acked' /\ acked' \subseteq 0..MaxTask
  BY <1>1, <1>2, IdsBounded, Zenon DEF RowInv, TypeOK
<1>8. \A i \in DOMAIN task' : task'[i].nag = task[i].nag /\ (task'[i].done => task[i].done)
  BY <1>4, Zenon
<1>9. \A p \in DOMAIN task : \A c \in Children(task, p) :
         p \in acked' \/ (c \in Children(task', p) /\ task'[c].nag = task[c].nag)
  <2> TAKE p \in DOMAIN task
  <2> TAKE c \in Children(task, p)
  <2>1. c \in DOMAIN task /\ task[c].parent = p
    BY Zenon DEF Children
  <2>2. CASE c = id
    BY <1>1, <2>1, <2>2, Zenon
  <2>3. CASE c # id
    <3>1. c \in DOMAIN task' /\ Alike(task'[c], task[c])
      BY <1>3, <1>4, <2>1, <2>3, Zenon
    <3> QED
      BY <3>1, ChildStays, Zenon
  <2> QED
    BY <2>2, <2>3, Zenon
<1>10. UNCHANGED <<clock, up, poll, crashes>>
  BY <1>1, Zenon
<1> QED
  BY <1>1, <1>5, <1>6, <1>7, <1>8, <1>9, <1>10, CallInv, Zenon

\* update(): who changes the intervals of a reminder starts a new round.
LEMMA UpdateInv ==
  ASSUME SchedInv, NEW id, NEW field, NEW value, FieldType(field, value), update(id, field, value)
  PROVE  SchedInv'
<1> DEFINE t == IF field = "snooze" /\ value # 0 THEN Snoozed(task, Children(task, id), value) ELSE task
<1>1. /\ step = "idle" /\ id \in DOMAIN task /\ task' = [t EXCEPT ![id] = Patched(t[id], field, value)]
      /\ timer' = Rearmed(task')
      /\ fired' = IF field \in {"interval", "nag"} /\ task[id].role = "user"
                  THEN [fired EXCEPT ![id] = 0] ELSE fired
      /\ acked' = IF field = "nag" THEN acked \cup {task[id].parent} ELSE acked
      /\ UNCHANGED <<clock, lastId, up, poll, crashes, pending, inbound, parked>>
  BY Zenon DEF update, Calls, agent
<1>2. RowInv
  BY Zenon DEF SchedInv
<1>3. \A i \in DOMAIN task : task[i] \in Rows
  BY <1>2, Zenon DEF RowInv, TypeOK
<1>4. \A i \in DOMAIN task : Alike(task[i], task[i])
  BY <1>3, AlikeSelf, Zenon
<1>5. DOMAIN t = DOMAIN task /\ \A i \in DOMAIN task : Alike(t[i], task[i])
  <2>1. CASE field = "snooze" /\ value # 0
    <3>1. value \in Nat /\ t = Snoozed(task, Children(task, id), value)
      BY <2>1 DEF FieldType
    <3> QED
      BY <1>3, <3>1, SnoozedIs, Zenon
  <2>2. CASE ~(field = "snooze" /\ value # 0)
    BY <1>4, <2>2, Zenon
  <2> QED
    BY <2>1, <2>2, Zenon
<1> HIDE DEF t
<1> DEFINE q == Patched(t[id], field, value)
<1>6. /\ Succ(q, t[id]) /\ q.done = t[id].done /\ (field # "nag" => q.nag = t[id].nag)
  <2>1. t[id] \in Rows
    BY <1>1, <1>5, Zenon DEF Alike, Succ
  <2> QED
    BY <2>1, PatchedIs
<1>7. task' = [t EXCEPT ![id] = q]
  BY <1>1, Zenon
<1> HIDE DEF q
<1>8. Succ(q, task[id]) /\ q.done = task[id].done /\ (field # "nag" => Alike(q, task[id]))
  BY <1>1, <1>5, <1>6, Zenon DEF Alike, Succ
<1>9. /\ DOMAIN task' = DOMAIN task /\ task'[id] = q
      /\ \A i \in DOMAIN task : i # id => task'[i] = t[i]
  BY <1>1, <1>5, <1>7, Zenon
<1>10. \A i \in DOMAIN task : /\ Succ(task'[i], task[i]) /\ task'[i].done = task[i].done
                              /\ i # id \/ field # "nag" => Alike(task'[i], task[i])
  BY <1>5, <1>8, <1>9, Zenon DEF Alike
<1>11. Edits
  BY <1>1, <1>9, <1>10, Zenon DEF Edits
<1>12. pending' \in {0, pending} /\ inbound' \in BOOLEAN /\ parked' \in BOOLEAN
  BY <1>1, <1>2, Zenon DEF RowInv, TypeOK
<1>13. /\ fired' \in [Id -> 0..2] /\ \A i \in Id : fired'[i] \in {0, fired[i]}
       /\ \A i \in DOMAIN task' : task[i].role = "wake" => fired'[i] = fired[i]
       /\ field = "nag" /\ task[id].role = "user" => fired'[id] = 0
  <2>1. fired \in [Id -> 0..2] /\ 0 \in 0..2 /\ id \in Id
    BY <1>1, <1>2, IdsBounded DEF RowInv, TypeOK
  <2>2. CASE field \in {"interval", "nag"} /\ task[id].role = "user"
    <3>1. fired' = [fired EXCEPT ![id] = 0]
      BY <1>1, <2>2, Zenon
    <3>2. fired'[id] = 0 /\ \A i \in Id : i # id => fired'[i] = fired[i]
      BY <2>1, <3>1, Zenon
    <3>3. \A i \in DOMAIN task' : task[i].role = "wake" => i # id /\ i \in Id
      BY <1>2, <1>9, <2>2, IdsBounded
    <3> QED
      BY <2>1, <3>1, <3>2, <3>3, Zenon
  <2>3. CASE ~(field \in {"interval", "nag"} /\ task[id].role = "user")
    <3>1. fired' = fired
      BY <1>1, <2>3, Zenon
    <3> QED
      BY <2>1, <2>3, <3>1, Zenon
  <2> QED
    BY <2>2, <2>3, Zenon
<1>14. acked \subseteq acked' /\ acked' \subseteq 0..MaxTask
  BY <1>1, <1>2, IdsBounded, Zenon DEF RowInv, TypeOK
<1>15. \A i \in DOMAIN task' : task'[i].nag = task[i].nag \/ fired'[i] = 0 \/ task[i].kind # "reminder"
  <2>1. task[id].kind = "reminder" => task[id].role = "user"
    BY <1>1, <1>2, NotWakes, Zenon
  <2>2. \A i \in DOMAIN task : i # id \/ field # "nag" => task'[i].nag = task[i].nag
    BY <1>10, Zenon DEF Alike
  <2>3. field = "nag" => fired'[id] = 0 \/ task[id].kind # "reminder"
    BY <1>13, <2>1, Zenon
  <2>4. CASE field # "nag"
    BY <1>9, <2>2, <2>4, Zenon
  <2>5. CASE field = "nag"
    <3> TAKE i \in DOMAIN task'
    <3>1. CASE i = id
      BY <2>3, <2>5, <3>1, Zenon
    <3>2. CASE i # id
      BY <1>9, <2>2, <3>2, Zenon
    <3> QED
      BY <3>1, <3>2, Zenon
  <2> QED
    BY <2>4, <2>5, Zenon
<1>16. \A p \in DOMAIN task : \A c \in Children(task, p) :
         p \in acked' \/ (c \in Children(task', p) /\ task'[c].nag = task[c].nag)
  <2> TAKE p \in DOMAIN task
  <2> TAKE c \in Children(task, p)
  <2>1. c \in DOMAIN task /\ task[c].parent = p
    BY Zenon DEF Children
  <2>2. CASE c = id /\ field = "nag"
    BY <1>1, <2>1, <2>2, Zenon
  <2>3. CASE c # id \/ field # "nag"
    <3>1. c \in DOMAIN task' /\ Alike(task'[c], task[c])
      BY <1>9, <1>10, <2>1, <2>3, Zenon
    <3> QED
      BY <3>1, ChildStays, Zenon
  <2> QED
    BY <2>2, <2>3, Zenon
<1>17. UNCHANGED <<clock, up, poll, crashes>>
  BY <1>1, Zenon
<1>18. \A i \in DOMAIN task' : task[i].kind = "reminder" /\ task'[i].done => task[i].done \/ i \in acked'
  BY <1>9, <1>10, Zenon
<1> QED
  BY <1>1, <1>11, <1>12, <1>13, <1>14, <1>15, <1>16, <1>17, <1>18, CallInv, Zenon

\* A task moved to its next slot is later than it was.
LEMMA MovedIs ==
  ASSUME RowInv, NEW id \in DOMAIN task, task[id].interval > 0, task[id].next <= clock,
         NEW t, t = [task EXCEPT ![id].next = NextSlot(task[id], clock)]
  PROVE  /\ DOMAIN t = DOMAIN task /\ \A i \in DOMAIN task : Alike(t[i], task[i])
         /\ \A i \in DOMAIN task : EffectiveAt(task[i]) <= EffectiveAt(t[i])
<1> DEFINE slot == NextSlot(task[id], clock)
<1>1. /\ \A i \in DOMAIN task : task[i] \in Rows
      /\ clock \in Nat
  BY DEF RowInv, TypeOK
<1>2. slot \in Nat \ {0} /\ slot > clock
  BY <1>1, NextSlotIs, Zenon
<1>3. t = [task EXCEPT ![id] = [task[id] EXCEPT !.next = slot]]
  BY Zenon
<1> HIDE DEF slot
<1>4. DOMAIN t = DOMAIN task /\ t[id] = [task[id] EXCEPT !.next = slot] /\ \A i \in DOMAIN task : i # id => t[i] = task[i]
  BY <1>3, Zenon
<1>5. Alike([task[id] EXCEPT !.next = slot], task[id])
  BY <1>1, <1>2, RowWith, Zenon
<1>6. \A i \in DOMAIN task : Alike(t[i], task[i])
  BY <1>1, <1>4, <1>5, AlikeSelf, Zenon
<1>7. EffectiveAt(task[id]) <= EffectiveAt([task[id] EXCEPT !.next = slot])
  BY <1>1, <1>2 DEF EffectiveAt, Max2, Rows
<1>8. \A i \in DOMAIN task : EffectiveAt(task[i]) <= EffectiveAt(task[i])
  BY <1>1 DEF EffectiveAt, Max2, Rows
<1>9. \A i \in DOMAIN task : EffectiveAt(task[i]) <= EffectiveAt(t[i])
  BY <1>4, <1>7, <1>8, Zenon
<1> QED
  BY <1>4, <1>6, <1>9, Zenon

\* markDoneByName().
LEMMA MarkDoneInv == ASSUME SchedInv, NEW id, markDoneByName(id) PROVE SchedInv'
<1> DEFINE recurs == task[id].interval > 0 /\ ~task[id].done
           ended == Children(task, id) \cup IF recurs THEN {} ELSE {id}
           t == IF recurs /\ task[id].next <= clock
                THEN [task EXCEPT ![id].next = NextSlot(task[id], clock)] ELSE task
<1>1. /\ step = "idle" /\ id \in DOMAIN task /\ task' = MarkDone(t, ended)
      /\ timer' = IF ended = {} THEN timer ELSE Rearmed(task')
      /\ acked' = acked \cup {id, task[id].parent}
      /\ UNCHANGED <<clock, lastId, up, poll, fired, crashes, pending, inbound, parked>>
  BY Zenon DEF markDoneByName, Calls, agent
<1>2. RowInv
  BY Zenon DEF SchedInv
<1>3. \A i \in DOMAIN task : task[i] \in Rows /\ EffectiveAt(task[i]) <= EffectiveAt(task[i])
  BY <1>2 DEF RowInv, TypeOK, EffectiveAt, Max2, Rows
<1>4. /\ DOMAIN t = DOMAIN task /\ \A i \in DOMAIN task : Alike(t[i], task[i])
      /\ \A i \in DOMAIN task : EffectiveAt(task[i]) <= EffectiveAt(t[i])
  <2>1. CASE recurs /\ task[id].next <= clock
    <3>1. t = [task EXCEPT ![id].next = NextSlot(task[id], clock)] /\ task[id].interval > 0
      BY <2>1, Zenon
    <3> QED
      BY <1>1, <1>2, <2>1, <3>1, MovedIs, Zenon
  <2>2. CASE ~(recurs /\ task[id].next <= clock)
    BY <1>3, <2>2, AlikeSelf, Zenon
  <2> QED
    BY <2>1, <2>2, Zenon
<1>5. ended \subseteq Children(task, id) \cup {id}
  BY Zenon
<1> HIDE DEF t, ended, recurs
<1>6. /\ DOMAIN task' = DOMAIN task
      /\ \A i \in DOMAIN task :
           /\ Succ(task'[i], t[i]) /\ task'[i].nag = t[i].nag
           /\ task'[i].done <=> t[i].done \/ i \in ended
           /\ i \notin ended => task'[i] = t[i]
  <2>1. \A i \in DOMAIN t : t[i] \in Rows
    BY <1>4, Zenon DEF Alike, Succ
  <2>2. /\ DOMAIN MarkDone(t, ended) = DOMAIN t
        /\ \A i \in DOMAIN t :
             /\ Succ(MarkDone(t, ended)[i], t[i]) /\ MarkDone(t, ended)[i].nag = t[i].nag
             /\ MarkDone(t, ended)[i].done <=> t[i].done \/ i \in ended
             /\ i \notin ended => MarkDone(t, ended)[i] = t[i]
    BY <2>1, MarkDoneIs
  <2> QED
    BY <1>1, <1>4, <2>2, Zenon
<1>7. \A i \in DOMAIN task :
           /\ Succ(task'[i], task[i]) /\ task'[i].nag = task[i].nag
           /\ task'[i].done => task[i].done \/ i \in ended
           /\ i \notin ended => Alike(task'[i], task[i]) /\ task'[i] = t[i]
  <2> TAKE i \in DOMAIN task
  <2>1. Succ(t[i], task[i]) /\ t[i].nag = task[i].nag /\ t[i].done = task[i].done
    BY <1>4, Zenon DEF Alike
  <2>2. Succ(task'[i], task[i])
    BY <1>6, <2>1 DEF Succ
  <2>3. i \notin ended => task'[i] = t[i] /\ Alike(task'[i], task[i])
    BY <1>4, <1>6, Zenon
  <2> QED
    BY <1>6, <2>1, <2>2, <2>3, Zenon
<1>8. Edits
  BY <1>1, <1>6, <1>7, Zenon DEF Edits
<1>9. pending' \in {0, pending} /\ inbound' \in BOOLEAN /\ parked' \in BOOLEAN
  BY <1>1, <1>2, Zenon DEF RowInv, TypeOK
<1>10. /\ fired' \in [Id -> 0..2] /\ \A i \in Id : fired'[i] \in {0, fired[i]}
       /\ \A i \in DOMAIN task' : fired'[i] = fired[i]
       /\ acked \subseteq acked' /\ acked' \subseteq 0..MaxTask
  BY <1>1, <1>2, IdsBounded, Zenon DEF RowInv, TypeOK
<1>11. \A i \in DOMAIN task' : task[i].kind = "reminder" /\ task'[i].done => task[i].done \/ i \in acked'
  <2>1. \A i \in ended : i = id \/ task[i].kind = "reminder-nag"
    BY <1>1, <1>2, <1>5, NotWakes, Zenon
  <2> QED
    BY <1>1, <1>6, <1>7, <2>1
<1>12. \A p \in DOMAIN task : \A c \in Children(task, p) :
         p \in acked' \/ (c \in Children(task', p) /\ task'[c].nag = task[c].nag)
  <2> TAKE p \in DOMAIN task
  <2> TAKE c \in Children(task, p)
  <2>1. c \in DOMAIN task /\ task[c].parent = p
    BY Zenon DEF Children
  <2>2. CASE c \in ended
    <3>1. p = id \/ c = id
      BY <1>5, <2>1, <2>2, Zenon DEF Children
    <3> QED
      BY <1>1, <2>1, <3>1, Zenon
  <2>3. CASE c \notin ended
    <3>1. c \in DOMAIN task' /\ Alike(task'[c], task[c])
      BY <1>6, <1>7, <2>1, <2>3, Zenon
    <3> QED
      BY <3>1, ChildStays, Zenon
  <2> QED
    BY <2>2, <2>3, Zenon
<1>13. \/ timer' = Rearmed(task')
       \/ /\ timer' = timer
          /\ \A i \in DOMAIN task' : ~task'[i].done =>
               ~task[i].done /\ EffectiveAt(task[i]) <= EffectiveAt(task'[i])
  <2>1. CASE ended = {}
    <3>1. \A i \in DOMAIN task : task'[i] = t[i] /\ task'[i].done = task[i].done
      BY <1>7, <2>1, Zenon DEF Alike
    <3> QED
      BY <1>1, <1>4, <1>6, <2>1, <3>1, Zenon
  <2> QED
    BY <1>1, <2>1, Zenon
<1>14. UNCHANGED <<clock, up, poll, crashes>>
  BY <1>1, Zenon
<1>15. \A i \in DOMAIN task' : task'[i].nag = task[i].nag
  BY <1>6, <1>7, Zenon
<1> QED
  BY <1>1, <1>8, <1>9, <1>10, <1>11, <1>12, <1>13, <1>14, <1>15, CallInv, Zenon

\* A call that makes a row, over rows of which only run wakes changed.
LEMMA MadeInv ==
  ASSUME SchedInv, step = "idle", NEW r \in Rows, NEW t, NEW id, id = lastId + 1, lastId < MaxTask, lastId' = id,
         task' = [i \in DOMAIN t \cup {id} |-> IF i = id THEN r ELSE t[i]],
         DOMAIN t = DOMAIN task, \A i \in DOMAIN t : Succ(t[i], task[i]),
         \A i \in DOMAIN t : task[i].role = "user" => t[i] = task[i],
         r.role = "wake" => r.kind = "custom", r.kind # "reminder-nag", r.parent = 0, ~r.done,
         timer' = Rearmed(task'), pending' = pending \/ (pending' = id /\ r.role = "wake"),
         UNCHANGED <<clock, up, poll, inbound, parked, fired, acked, crashes>>
  PROVE  SchedInv'
<1>1. RowInv /\ WakeInv /\ TimerCovers /\ NagInv
  BY Zenon DEF SchedInv
<1>2. /\ id \in Id /\ id \notin DOMAIN task /\ fired[id] = 0 /\ DOMAIN task' = DOMAIN task \cup {id}
      /\ task'[id] = r /\ \A i \in DOMAIN task : task'[i] = t[i]
  BY <1>1, BoundsAssumption DEF RowInv, TypeOK, Id
<1>3. \A i \in DOMAIN task' : task'[i] \in Rows
  BY <1>2, Zenon DEF Succ
<1>4. /\ clock \in Nat \ {0} /\ clock >= clock /\ lastId \in 0..MaxTask
      /\ pending' \in 0..lastId' /\ r.parent < id /\ r.parent \notin DOMAIN task
  BY <1>1, BoundsAssumption DEF RowInv, TypeOK
<1>5. timer' \in Nat
  BY <1>3, <1>4, RearmedIs, Zenon
<1>6. pending' \in DOMAIN task' => task'[pending'].role = "wake"
  <2>1. CASE pending' = id /\ r.role = "wake"
    BY <1>2, <2>1, Zenon
  <2>2. CASE pending' = pending /\ pending # id
    BY <1>1, <1>2, <2>2, Zenon DEF RowInv, Succ
  <2>3. pending # id
    BY <1>1 DEF RowInv, TypeOK
  <2> QED
    BY <2>1, <2>2, <2>3, Zenon
<1>7. \A i \in Id : i > lastId' => fired'[i] = 0
  BY <1>1, <1>4 DEF RowInv, Id
<1>8. Others
  BY <1>1, <1>4, <1>5, <1>6, <1>7, Zenon DEF Others, RowInv, TypeOK
<1>9. /\ queue' \subseteq DOMAIN task /\ nagged' \subseteq DOMAIN task /\ now' \in 0..clock'
      /\ step' \in {"idle", "next"} /\ (step' = "idle" => queue' = {} /\ nagged' = {})
      /\ (step' = "next" => now' > 0) /\ (r.kind # "reminder-nag" => r.parent = 0)
      /\ (r.parent \in DOMAIN task => task[r.parent].kind = "reminder")
  BY <1>1, <1>4, Zenon DEF RowInv, TypeOK, Visited, poll
<1>10. RowInv'
  BY <1>1, <1>4, <1>8, <1>9, NewRow, Zenon
<1>11. WakeInv'
  <2>1. fired' = fired
    BY Zenon
  <2> QED
    BY <1>1, <2>1, NewWake
<1>12. TimerCovers'
  BY <1>1, <1>10, Rearms, Zenon
<1>13. NagInv'
  <2>1. \A i \in DOMAIN task' : task'[i].kind = "reminder" /\ task'[i].done => i \in acked'
    <3> SUFFICES ASSUME NEW i \in DOMAIN task', task'[i].kind = "reminder", task'[i].done PROVE i \in acked
      BY Zenon
    <3>1. i # id /\ i \in DOMAIN task
      BY <1>2, Zenon
    <3>2. task[i].kind = "reminder"
      BY <1>2, <3>1 DEF Succ
    <3>3. task'[i] = task[i]
      BY <1>1, <1>2, <3>1, <3>2, NotWakes, Zenon
    <3> QED
      BY <1>1, <3>1, <3>2, <3>3, Zenon DEF NagInv
  <2>2. \A p \in DOMAIN task' : Owes(p)' => p \in DOMAIN task /\ Owes(p)
    <3> SUFFICES ASSUME NEW p \in DOMAIN task', Owes(p)' PROVE p \in DOMAIN task /\ Owes(p)
      BY Zenon
    <3>1. task'[p].nag > 0 /\ task'[p].kind = "reminder" /\ fired[p] > 0 /\ p \notin acked
      BY Zenon DEF Owes
    <3>2. p # id /\ p \in DOMAIN task
      BY SMTT(30), <1>2, <3>1
    <3>3. task[p].kind = "reminder"
      BY <1>2, <3>1, <3>2 DEF Succ
    <3>4. task'[p] = task[p]
      BY <1>1, <1>2, <3>2, <3>3, NotWakes, Zenon
    <3> QED
      BY <3>1, <3>2, <3>4, Zenon DEF Owes
  <2>3. \A p \in DOMAIN task : \A c \in Children(task, p) :
         p \in acked' \/ (c \in Children(task', p) /\ task'[c].nag = task[c].nag)
    <3> TAKE p \in DOMAIN task
    <3> TAKE c \in Children(task, p)
    <3>1. c \in DOMAIN task /\ task[c].role = "user"
      BY <1>1, NotWakes, Zenon
    <3>2. c \in DOMAIN task' /\ task'[c] = task[c] /\ task'[c] \in Rows
      BY <1>2, <1>3, <3>1, Zenon
    <3>3. Alike(task'[c], task[c])
      BY <3>2, AlikeSelf, Zenon
    <3> QED
      BY <3>2, <3>3, ChildStays, Zenon
  <2>4. UNCHANGED <<poll, crashes>>
    BY Zenon
  <2> QED
    BY <1>1, <2>1, <2>2, <2>3, <2>4, IdleNag, Zenon
<1> QED
  BY <1>10, <1>11, <1>12, <1>13, Zenon DEF SchedInv

\* create().
LEMMA CreateInv ==
  ASSUME SchedInv, NEW shape \in Shape, NEW at \in Nat \ {0}, create(shape, at)
  PROVE  SchedInv'
<1> DEFINE r == Row(shape.kind, "user", "none", at, shape.interval, shape.nag, 0)
<1>1. PICK id : id = lastId + 1
  OBVIOUS
<1>2. /\ step = "idle" /\ lastId < MaxTask /\ lastId' = id
      /\ task' = [i \in DOMAIN task \cup {id} |-> IF i = id THEN r ELSE task[i]]
      /\ timer' = Rearmed(task') /\ pending' = pending
      /\ UNCHANGED <<clock, up, poll, inbound, parked, fired, acked, crashes>>
  BY <1>1, Zenon DEF create, Calls, agent, ghost
<1>3. r \in Rows /\ r.role = "user" /\ r.kind # "reminder-nag" /\ r.parent = 0 /\ ~r.done
  BY BoundsAssumption DEF Row, Rows, Kind
<1> HIDE DEF r
<1>4. \A i \in DOMAIN task : Succ(task[i], task[i])
  BY AlikeSelf, Zenon DEF SchedInv, RowInv, TypeOK, Alike
<1> QED
  BY <1>1, <1>2, <1>3, <1>4, MadeInv, Zenon

\* armRunWake().
LEMMA ArmInv == ASSUME SchedInv, NEW at \in Nat \ {0}, armRunWake(at) PROVE SchedInv'
<1> DEFINE r == Row("custom", "wake", "armed", at, 0, 0, 0)
           t == Preempted(task)
<1>1. PICK id : id = lastId + 1
  OBVIOUS
<1>2. /\ step = "idle" /\ lastId < MaxTask /\ lastId' = id
      /\ task' = [i \in DOMAIN t \cup {id} |-> IF i = id THEN r ELSE t[i]]
      /\ timer' = Rearmed(task') /\ pending' = id
      /\ UNCHANGED <<clock, up, poll, inbound, parked, fired, acked, crashes>>
  BY <1>1, Zenon DEF armRunWake, ghost
<1>3. r \in Rows /\ r.role = "wake" /\ r.kind = "custom" /\ r.kind # "reminder-nag" /\ r.parent = 0 /\ ~r.done
  BY DEF Row, Rows, Kind
<1>4. /\ DOMAIN t = DOMAIN task
      /\ \A i \in DOMAIN task : Succ(t[i], task[i]) /\ (task[i].role = "user" => t[i] = task[i])
  BY PreemptedIs, Zenon DEF SchedInv
<1> HIDE DEF r, t
<1>5. /\ \A i \in DOMAIN t : Succ(t[i], task[i])
      /\ \A i \in DOMAIN t : task[i].role = "user" => t[i] = task[i]
      /\ (pending' = pending \/ (pending' = id /\ r.role = "wake")) /\ (r.role = "wake" => r.kind = "custom")
  BY <1>2, <1>3, <1>4, Zenon
<1> QED
  BY SMTT(30), <1>1, <1>2, <1>3, <1>4, <1>5, MadeInv


-----------------------------------------------------------------------------
(* poll().                                                                 *)

\* A visit of poll() to a due task ends no nag and no reminder.
LEMMA VisitNag ==
  ASSUME RowInv, NagInv, step = "next", DOMAIN task' = DOMAIN task,
         \A i \in DOMAIN task : task[i].role = "user" => Alike(task'[i], task[i]), Edits,
         queue' \subseteq queue, nagged' = nagged, crashes' = crashes, step' \in {"next", "settle"},
         step' = "settle" => current'.id \in queue,
         \A i \in DOMAIN task : task[i].done /\ i \in acked => i \in acked',
         \A p \in DOMAIN task : Owes(p)' => Owes(p) \/ (step' = "settle" /\ current'.id = p)
  PROVE  NagInv'
<1>1. \A i \in DOMAIN task : task'[i].kind = "reminder" => task[i].kind = "reminder" /\ Alike(task'[i], task[i])
  <2> TAKE i \in DOMAIN task
  <2>1. task'[i].kind = task[i].kind
    BY Zenon DEF Edits, Succ
  <2>2. task[i].kind = "reminder" => task[i].role = "user"
    BY NotWakes, Zenon
  <2> QED
    BY <2>1, <2>2, Zenon
<1>2. \A i \in DOMAIN task' : task'[i].kind = "reminder" /\ task'[i].done => i \in acked'
  <2> SUFFICES ASSUME NEW i \in DOMAIN task, task'[i].kind = "reminder", task'[i].done PROVE i \in acked'
    BY Zenon
  <2>1. task[i].kind = "reminder" /\ task[i].done
    BY <1>1, Zenon DEF Alike
  <2> QED
    BY <2>1, Zenon DEF NagInv
<1>3. \A p \in DOMAIN task : \A c \in Children(task, p) : c \in Children(task', p) /\ task'[c].nag = task[c].nag
  <2> TAKE p \in DOMAIN task
  <2> TAKE c \in Children(task, p)
  <2>1. c \in DOMAIN task /\ task[c].role = "user"
    BY NotWakes, Zenon
  <2> QED
    BY <2>1, ChildStays, Zenon
<1>4. ASSUME NEW p \in nagged'
      PROVE  \E c \in Children(task', p) : /\ c \notin queue' /\ task'[c].nag = task'[p].nag
                                           /\ step' \in {"settle", "spawn"} => c # current'.id
  <2>1. PICK c \in Children(task, p) : c \notin queue /\ task[c].nag = task[p].nag
    BY <1>4, Zenon DEF NagInv
  <2>2. p \in DOMAIN task /\ c \in DOMAIN task /\ task[c].parent = p
    BY <1>4, Zenon DEF RowInv, TypeOK, Children
  <2>3. task[p].kind = "reminder"
    BY <2>2, Zenon DEF RowInv, Lineage
  <2>4. task'[p].nag = task[p].nag
    BY <2>2, <2>3, NotWakes, Zenon DEF Alike
  <2>5. c \notin queue' /\ (step' \in {"settle", "spawn"} => c # current'.id)
    BY <2>1, Zenon
  <2> QED
    BY <1>3, <2>1, <2>2, <2>4, <2>5, Zenon
<1>5. ASSUME crashes' = 0, NEW p \in DOMAIN task', Owes(p)'
      PROVE  NagsOn(p)' \/ (step' = "settle" /\ current'.id = p)
  <2>1. CASE Owes(p)
    <3>1. NagsOn(p)
      BY <1>5, <2>1, Zenon DEF NagInv
    <3>2. PICK c \in Children(task, p) : task[c].nag > 0
      BY <3>1, Zenon DEF NagsOn
    <3>3. c \in Children(task', p) /\ task'[c].nag > 0
      BY <1>3, <3>2, Zenon
    <3> QED
      BY <3>3, Zenon DEF NagsOn
  <2> QED
    BY <1>5, <2>1, Zenon
<1> QED
  BY <1>2, <1>4, <1>5, Zenon DEF NagInv

\* What a visit to the task of the queue leaves of RowInv, WakeInv and TimerCovers.
LEMMA VisitRow ==
  ASSUME SchedInv, step = "next", Edits, DOMAIN task' = DOMAIN task, Visited', queue' \subseteq queue,
         UNCHANGED <<clock, timer, up, now, nagged, crashes>>, step' \in {"next", "settle"},
         step' = "settle" => current'.id \in DOMAIN task' /\ current'.row \in Rows,
         pending' \in {0, pending}, inbound' \in BOOLEAN, parked' \in BOOLEAN, fired' \in [Id -> 0..2],
         \A i \in Id : i > lastId => fired'[i] = 0, acked' \subseteq 0..MaxTask
  PROVE  RowInv' /\ TimerCovers'
<1>1. RowInv
  BY Zenon DEF SchedInv
<1>2. timer' \in Nat /\ clock' = clock /\ up' = up /\ crashes' = crashes
  BY <1>1, Zenon DEF RowInv, TypeOK
<1>3. Others
  BY <1>1, <1>2, OthersSame, Zenon
<1>4. /\ queue' \subseteq DOMAIN task' /\ nagged' \subseteq DOMAIN task' /\ now' \in 0..clock'
      /\ step' \in {"idle", "next", "settle", "spawn"} /\ step' # "spawn"
  BY <1>1, Zenon DEF RowInv, TypeOK
<1>5. step' \in {"settle", "spawn"} => current'.id \in DOMAIN task' /\ current'.row \in Rows
  BY <1>4, Zenon
<1>6. RowInv'
  BY <1>1, <1>3, <1>4, <1>5, EditRow, Zenon
<1>7. TimerCovers'
  BY Zenon DEF TimerCovers
<1> QED
  BY <1>6, <1>7, Zenon

\* A task that is left alone, or delayed because a callback threw.
LEMMA PassedInv ==
  ASSUME SchedInv, NEW id, Visit(id), step' = "next", task' = task \/ task' = Delayed(task, id), lastId' = lastId,
         inbound' \in BOOLEAN, UNCHANGED <<pending, parked, fired, acked, crashes>>
  PROVE  SchedInv'
<1>1. RowInv /\ WakeInv /\ NagInv
  BY Zenon DEF SchedInv
<1>2. step = "next" /\ id \in queue /\ queue' \subseteq queue /\ UNCHANGED <<clock, timer, up, now, nagged>>
  BY Zenon DEF Visit
<1>3. \A i \in DOMAIN task : task[i] \in Rows
  BY <1>1, Zenon DEF RowInv, TypeOK
<1>4. id \in DOMAIN task /\ clock \in Nat \ {0}
  BY <1>1, <1>2, Zenon DEF RowInv, TypeOK
<1>5. DOMAIN task' = DOMAIN task /\ \A i \in DOMAIN task : Alike(task'[i], task[i])
  <2>1. CASE task' = task
    BY <1>3, <2>1, AlikeSelf, Zenon
  <2>2. CASE task' = Delayed(task, id)
    BY <1>3, <1>4, <2>2, DelayedIs, Zenon
  <2> QED
    BY <2>1, <2>2, Zenon
<1>6. Edits
  BY <1>5, Zenon DEF Edits, Alike
<1>7. Visited'
  BY <1>1, <1>2, Zenon DEF RowInv, Visited
<1>8. /\ pending' \in {0, pending} /\ parked' \in BOOLEAN /\ fired' \in [Id -> 0..2]
      /\ (\A i \in Id : i > lastId => fired'[i] = 0) /\ acked' \subseteq 0..MaxTask
      /\ UNCHANGED <<clock, timer, up, now, nagged, crashes>> /\ step' \in {"next", "settle"} /\ step' # "settle"
      /\ nagged' = nagged /\ crashes' = crashes
  BY <1>1, <1>2, Zenon DEF RowInv, TypeOK
<1>9. RowInv' /\ TimerCovers'
  BY <1>2, <1>5, <1>6, <1>7, <1>8, VisitRow, Zenon
<1>10. WakeInv'
  BY <1>1, <1>6, EditWake, Zenon
<1>11. \A p \in DOMAIN task : Owes(p)' => Owes(p) \/ (step' = "settle" /\ current'.id = p)
  BY <1>5, Zenon DEF Owes, Alike, Succ
<1>12. \A i \in DOMAIN task : task[i].done /\ i \in acked => i \in acked'
  BY Zenon
<1>13. NagInv'
  BY <1>1, <1>2, <1>5, <1>6, <1>8, <1>11, <1>12, VisitNag, Zenon
<1> QED
  BY <1>9, <1>10, <1>13, Zenon DEF SchedInv

\* The ghost counter of an id that exists.
LEMMA OnceMoreIs ==
  ASSUME RowInv, NEW id \in DOMAIN task
  PROVE  /\ OnceMore(id) \in [Id -> 0..2] /\ \A i \in Id : i # id => OnceMore(id)[i] = fired[i]
         /\ fired[id] = 0 => OnceMore(id)[id] = 1
         /\ \A i \in Id : i > lastId => OnceMore(id)[i] = 0
<1>1. fired \in [Id -> 0..2] /\ id \in Id /\ id <= lastId /\ lastId \in Nat
  BY IdsBounded DEF RowInv, TypeOK
<1>2. \A i \in Id : i > lastId => i # id /\ fired[i] = 0
  BY <1>1 DEF RowInv, Id
<1>3. /\ OnceMore(id) \in [Id -> 0..2] /\ \A i \in Id : i # id => OnceMore(id)[i] = fired[i]
      /\ fired[id] = 0 => OnceMore(id)[id] = 1
  BY <1>1 DEF OnceMore
<1> QED
  BY <1>2, <1>3, Zenon

\* A scheduled task reaches the Agent; nothing of its row changes.
LEMMA WakeTaskInv == ASSUME SchedInv, NEW id, WakeTask(id) PROVE SchedInv'
<1>1. /\ step = "next" /\ id \in queue /\ queue' = queue \ {id} /\ UNCHANGED <<clock, timer, up, now, nagged>>
      /\ task[id].role = "user" /\ Due(task[id], now) /\ task' = Preempted(task) /\ inbound' = TRUE
      /\ pending' = 0 /\ parked' = FALSE
      /\ current' = [id |-> id, row |-> task[id]] /\ step' = "settle" /\ fired' = OnceMore(id)
      /\ acked' = IF task[id].kind = "reminder" THEN acked \ {id} ELSE acked
      /\ lastId' = lastId /\ crashes' = crashes
  BY Zenon DEF WakeTask, Visit, Enqueue
<1>2. RowInv /\ WakeInv /\ NagInv
  BY Zenon DEF SchedInv
<1>3. \A i \in DOMAIN task : task[i] \in Rows
  BY <1>2, Zenon DEF RowInv, TypeOK
<1>4. id \in DOMAIN task /\ id \in Id
  BY <1>1, <1>2, IdsBounded, Zenon DEF RowInv, TypeOK
<1>5. /\ DOMAIN task' = DOMAIN task
      /\ \A i \in DOMAIN task : Succ(task'[i], task[i]) /\ (task[i].role = "user" => task'[i] = task[i])
  BY <1>1, <1>2, PreemptedIs, Zenon
<1>6. Edits
  BY <1>1, <1>5, Zenon DEF Edits
<1>7. current'.id = id /\ current'.row = task[id]
  BY <1>1
<1>8. task'[id] = task[id] /\ task'[id] \in Rows
  BY <1>1, <1>3, <1>4, <1>5, Zenon
<1>9. Visited'
  <2>1. id \notin queue' /\ now' > 0
    BY <1>1, <1>2, Zenon DEF RowInv, Visited
  <2> QED
    BY <1>1, <1>7, <1>8, <2>1, Zenon DEF Visited
<1>10. /\ fired' \in [Id -> 0..2] /\ (\A i \in Id : i > lastId => fired'[i] = 0)
       /\ \A i \in Id : i # id => fired'[i] = fired[i]
  BY <1>1, <1>2, <1>4, OnceMoreIs, Zenon
<1>11. /\ pending' \in {0, pending} /\ inbound' \in BOOLEAN /\ parked' \in BOOLEAN /\ acked' \subseteq 0..MaxTask
       /\ UNCHANGED <<clock, timer, up, now, nagged, crashes>> /\ step' \in {"next", "settle"}
       /\ queue' \subseteq queue /\ nagged' = nagged
  BY <1>1, <1>2, Zenon DEF RowInv, TypeOK
<1>12. RowInv' /\ TimerCovers'
  BY <1>1, <1>4, <1>5, <1>6, <1>7, <1>8, <1>9, <1>10, <1>11, VisitRow, Zenon
<1>13. WakeInv'
  <2>1. \A i \in DOMAIN task' : task[i].role = "wake" => fired'[i] = fired[i]
    BY SMTT(30), <1>1, <1>2, <1>5, <1>10, IdsBounded
  <2> QED
    BY <1>2, <1>6, <2>1, EditWake, Zenon
<1>14. NagInv'
  <2>1. \A i \in DOMAIN task : task[i].role = "user" => Alike(task'[i], task[i])
    BY <1>3, <1>5, AlikeSelf, Zenon
  <2>2. \A i \in DOMAIN task : task[i].done /\ i \in acked => i \in acked'
    BY <1>1, Zenon DEF Due
  <2>3. \A p \in DOMAIN task : Owes(p)' => Owes(p) \/ (step' = "settle" /\ current'.id = p)
    <3> SUFFICES ASSUME NEW p \in DOMAIN task, Owes(p)', p # id PROVE Owes(p)
      BY <1>1, <1>7, Zenon
    <3>1. task'[p].nag > 0 /\ task'[p].kind = "reminder" /\ fired'[p] > 0 /\ p \notin acked'
      BY Zenon DEF Owes
    <3>2. task[p].kind = "reminder"
      BY <1>5, <3>1 DEF Succ
    <3>3. task'[p] = task[p] /\ p \in Id
      BY <1>2, <1>5, <3>2, NotWakes, IdsBounded, Zenon
    <3>4. fired'[p] = fired[p] /\ p \notin acked
      BY <1>1, <1>10, <3>1, <3>3, ZenonT(30)
    <3> QED
      BY <3>1, <3>3, <3>4, Zenon DEF Owes
  <2> QED
    BY <1>1, <1>2, <1>5, <1>6, <1>7, <1>11, <2>1, <2>2, <2>3, VisitNag, ZenonT(30)
<1> QED
  BY <1>12, <1>13, <1>14, Zenon DEF SchedInv

\* notifyRunWake: the wake that fires was armed, so it had not fired.
LEMMA NotifyInv == ASSUME SchedInv, NEW id, notifyRunWake(id) PROVE SchedInv'
<1>1. /\ step = "next" /\ id \in queue /\ queue' = queue \ {id} /\ UNCHANGED <<clock, timer, up, now, nagged>>
      /\ task[id].role = "wake"
      /\ IF Fires(id) THEN /\ task' = [task EXCEPT ![id].payload = "fired"]
                           /\ pending' = 0 /\ inbound' = TRUE /\ parked' = FALSE /\ fired' = OnceMore(id)
                      ELSE UNCHANGED <<task, pending, inbound, parked, fired>>
      /\ current' = [id |-> id, row |-> task[id]] /\ step' = "settle"
      /\ lastId' = lastId /\ crashes' = crashes /\ acked' = acked
  BY Zenon DEF notifyRunWake, Visit, agent
<1>2. RowInv /\ WakeInv /\ NagInv
  BY Zenon DEF SchedInv
<1>3. \A i \in DOMAIN task : task[i] \in Rows
  BY <1>2, Zenon DEF RowInv, TypeOK
<1>4. id \in DOMAIN task /\ id \in Id
  BY <1>1, <1>2, IdsBounded, Zenon DEF RowInv, TypeOK
<1>5. /\ DOMAIN task' = DOMAIN task /\ (\A i \in DOMAIN task : Alike(task'[i], task[i]))
      /\ Fires(id) => task'[id].payload = "fired"
  <2>1. CASE Fires(id)
    <3>1. task' = [task EXCEPT ![id] = [task[id] EXCEPT !.payload = "fired"]]
      BY <1>1, <2>1, Zenon
    <3>2. Alike([task[id] EXCEPT !.payload = "fired"], task[id])
      BY <1>3, <1>4, RowWith, Zenon
    <3>3. [task[id] EXCEPT !.payload = "fired"].payload = "fired"
      BY <1>3, <1>4 DEF Rows
    <3> QED
      BY <1>3, <1>4, <3>1, <3>2, <3>3, AlikeSelf, Zenon
  <2>2. CASE ~Fires(id)
    BY <1>1, <1>3, <2>2, AlikeSelf, Zenon
  <2> QED
    BY <2>1, <2>2, Zenon
<1>6. Edits
  BY <1>1, <1>5, Zenon DEF Edits, Alike
<1>7. current'.id = id /\ current'.row = task[id]
  BY <1>1
<1>8. Succ(task'[id], task[id])
  BY <1>4, <1>5, Zenon DEF Alike
<1>9. Visited'
  <2>1. id \notin queue' /\ now' > 0
    BY <1>1, <1>2, Zenon DEF RowInv, Visited
  <2>2. task'[id].role = "wake" /\ task'[id].kind = task[id].kind /\ task'[id].parent = task[id].parent
    BY <1>1, <1>8, Zenon DEF Succ
  <2> QED
    BY <1>1, <1>7, <2>1, <2>2, Zenon DEF Visited
<1>10. /\ fired' \in [Id -> 0..2] /\ (\A i \in Id : i > lastId => fired'[i] = 0)
       /\ \A i \in Id : i # id => fired'[i] = fired[i]
  <2>1. CASE Fires(id)
    <3>1. fired' = OnceMore(id)
      BY <1>1, <2>1, Zenon
    <3> QED
      BY <1>2, <1>4, <3>1, OnceMoreIs, Zenon
  <2>2. CASE ~Fires(id)
    <3>1. fired' = fired
      BY <1>1, <2>2, Zenon
    <3> QED
      BY <1>2, <3>1, Zenon DEF RowInv, TypeOK
  <2> QED
    BY <2>1, <2>2, Zenon
<1>11. /\ pending' \in {0, pending} /\ inbound' \in BOOLEAN /\ parked' \in BOOLEAN /\ acked' \subseteq 0..MaxTask
       /\ UNCHANGED <<clock, timer, up, now, nagged, crashes>> /\ step' \in {"next", "settle"}
       /\ queue' \subseteq queue /\ nagged' = nagged
  BY <1>1, <1>2, Zenon DEF RowInv, TypeOK
<1>12. current'.id \in DOMAIN task' /\ current'.row \in Rows
  BY <1>3, <1>4, <1>5, <1>7, Zenon
<1>13. RowInv' /\ TimerCovers'
  BY <1>1, <1>5, <1>6, <1>9, <1>10, <1>11, <1>12, VisitRow, Zenon
<1>14. WakeInv'
  <2>1. CASE ~Fires(id)
    <3>1. fired' = fired
      BY <1>1, <2>1, Zenon
    <3> QED
      BY <1>2, <1>6, <3>1, EditWake, Zenon
  <2>2. CASE Fires(id)
    <3>1. fired[id] = 0
      <4>1. ~(fired[id] > 0) /\ fired[id] \in 0..2
        BY <1>1, <1>2, <1>4, <2>2, Zenon DEF WakeInv, Fires, RowInv, TypeOK
      <4> QED
        BY <4>1
    <3>2. fired'[id] = 1
      BY <1>1, <1>2, <1>4, <2>2, <3>1, OnceMoreIs, Zenon
    <3>3. fired'[id] <= 1 /\ task'[id].payload # "armed"
      BY <1>5, <2>2, <3>2
    <3>4. ASSUME NEW i \in DOMAIN task', i # id, task'[i].role = "wake"
          PROVE  fired'[i] <= 1 /\ (fired'[i] > 0 => task'[i].payload # "armed")
      <4>1. i \in DOMAIN task /\ i \in Id /\ task[i].role = "wake" /\ (task'[i].payload = "armed" => task[i].payload = "armed")
        BY SMTT(30), <1>2, <1>5, <3>4, IdsBounded DEF Alike, Succ
      <4>2. fired'[i] = fired[i]
        BY <1>10, <3>4, <4>1, Zenon
      <4> QED
        BY <1>2, <4>1, <4>2, Zenon DEF WakeInv
    <3> QED
      BY <3>3, <3>4, Zenon DEF WakeInv
  <2> QED
    BY <2>1, <2>2, Zenon
<1>15. NagInv'
  <2>1. \A p \in DOMAIN task : Owes(p)' => Owes(p) \/ (step' = "settle" /\ current'.id = p)
    <3> SUFFICES ASSUME NEW p \in DOMAIN task, Owes(p)', p # id PROVE Owes(p)
      BY <1>1, <1>7, Zenon
    <3>1. p \in Id /\ fired'[p] = fired[p]
      BY <1>2, <1>10, IdsBounded, Zenon
    <3>2. task'[p].nag = task[p].nag /\ task'[p].kind = task[p].kind
      BY <1>5, Zenon DEF Alike, Succ
    <3> QED
      BY <1>1, <3>1, <3>2, Zenon DEF Owes
  <2>2. /\ \A i \in DOMAIN task : task[i].done /\ i \in acked => i \in acked'
        /\ current'.id \in queue /\ crashes' = crashes
    BY <1>1, <1>7, Zenon
  <2> QED
    BY <1>1, <1>2, <1>5, <1>6, <1>11, <2>1, <2>2, VisitNag, Zenon
<1> QED
  BY <1>13, <1>14, <1>15, Zenon DEF SchedInv

\* The rows after a settled task: only the task itself can become done, and a
\* reminder does not.
LEMMA SettledIs ==
  ASSUME RowInv, step = "settle", NEW id, id = current.id, NEW row, row = current.row,
         NEW t, t = task \/ t = Settled(id, row)
  PROVE  /\ DOMAIN t = DOMAIN task
         /\ \A i \in DOMAIN task : Succ(t[i], task[i]) /\ t[i].nag = task[i].nag
         /\ \A i \in DOMAIN task : i # id \/ task[i].kind = "reminder" => Alike(t[i], task[i])
<1>1. \A i \in DOMAIN task : task[i] \in Rows /\ Alike(task[i], task[i])
  BY AlikeSelf, Zenon DEF RowInv, TypeOK
<1>2. id \in DOMAIN task /\ row \in Rows /\ task[id].kind = row.kind
  BY Zenon DEF RowInv, TypeOK, Visited
<1>3. CASE t = task
  BY <1>1, <1>3, Zenon DEF Alike
<1>4. CASE t = Settled(id, row)
  <2> DEFINE at == Max2(now, row.next + row.interval)
  <2>1. at \in Nat \ {0}
    BY <1>2 DEF Max2, Rows, RowInv, TypeOK
  <2>2. CASE row.kind = "reminder" \/ (row.kind = "custom" /\ row.interval > 0)
    <3>1. t = [task EXCEPT ![id].next = at]
      BY <1>4, <2>2, Zenon DEF Settled
    <3>2. t = [task EXCEPT ![id] = [task[id] EXCEPT !.next = at]]
      BY <3>1, Zenon
    <3> HIDE DEF at
    <3>3. Alike([task[id] EXCEPT !.next = at], task[id])
      BY <1>1, <1>2, <2>1, RowWith, Zenon
    <3>4. DOMAIN t = DOMAIN task /\ \A i \in DOMAIN task : Alike(t[i], task[i])
      BY <1>1, <1>2, <3>2, <3>3, Zenon
    <3> QED
      BY <3>4, Zenon DEF Alike
  <2>3. CASE ~(row.kind = "reminder" \/ (row.kind = "custom" /\ row.interval > 0))
    <3>1. t = MarkDone(task, {id})
      BY <1>4, <2>3, Zenon DEF Settled
    <3>2. DOMAIN t = DOMAIN task /\ \A i \in DOMAIN task : /\ Succ(t[i], task[i]) /\ t[i].nag = task[i].nag
                                                           /\ i \notin {id} => t[i] = task[i]
      <4>1. /\ DOMAIN MarkDone(task, {id}) = DOMAIN task
            /\ \A i \in DOMAIN task :
                 /\ Succ(MarkDone(task, {id})[i], task[i]) /\ MarkDone(task, {id})[i].nag = task[i].nag
                 /\ i \notin {id} => MarkDone(task, {id})[i] = task[i]
        BY <1>1, MarkDoneIs
      <4> QED
        BY <3>1, <4>1, Zenon
    <3>3. task[id].kind # "reminder"
      BY <1>2, <2>3, Zenon
    <3> QED
      BY <1>1, <3>2, <3>3, Zenon
  <2> QED
    BY <2>2, <2>3, Zenon
<1> QED
  BY <1>3, <1>4, Zenon

\* handleDue after the callback: the reminder or the nag that was delivered goes on
\* to spawn the next nag.
LEMMA SettlesInv == ASSUME SchedInv, PollSettles PROVE SchedInv'
<1>1. PICK id, row : id = current.id /\ row = current.row
  BY Zenon
<1>2. /\ step = "settle" /\ task' \in {task, Settled(id, row)} /\ step' \in {"next", "spawn"}
      /\ step' = "spawn" => Nags(row)
      /\ ~Rescheduled(task[id], row) /\ Nags(row) => step' = "spawn"
      /\ UNCHANGED <<clock, lastId, timer, up, queue, now, current, nagged, pending, inbound, parked, fired, acked, crashes>>
  BY <1>1, Zenon DEF PollSettles, agent, ghost
<1>3. RowInv /\ WakeInv /\ NagInv
  BY ZenonT(30) DEF SchedInv
<1>4. /\ DOMAIN task' = DOMAIN task
      /\ \A i \in DOMAIN task : Succ(task'[i], task[i]) /\ task'[i].nag = task[i].nag
      /\ \A i \in DOMAIN task : i # id \/ task[i].kind = "reminder" => Alike(task'[i], task[i])
  <2>1. task' = task \/ task' = Settled(id, row)
    BY <1>2, Zenon
  <2> QED
    BY SMTT(30), <1>1, <1>2, <1>3, <2>1, SettledIs
<1>5. Edits
  BY <1>2, <1>4, Zenon DEF Edits
<1>6. /\ id \in DOMAIN task /\ row \in Rows /\ task[id].kind = row.kind /\ task[id].parent = row.parent
      /\ id \notin queue /\ now > 0 /\ (task[id].role = "user" => row = task[id])
  <2>1. task[id].role \in {"user", "wake"} /\ id \in DOMAIN task
    BY <1>1, <1>2, <1>3 DEF RowInv, TypeOK, Rows
  <2>2. task[id].role = "wake" \/ row = task[id]
    BY <1>1, <1>2, <1>3, Zenon DEF RowInv, Visited
  <2>3. task[id].role = "user" => row = task[id]
    BY <2>2, Zenon
  <2> QED
    BY <1>1, <1>2, <1>3, <2>3, ZenonT(30) DEF RowInv, TypeOK, Visited
<1>7. Parent' = Parent /\ Parent = IF row.kind = "reminder" THEN id ELSE row.parent
  BY <1>1, <1>2, Zenon DEF Parent
<1>8. step' = "spawn" => Parent \in DOMAIN task' /\ task'[Parent].kind = "reminder"
  <2> HAVE step' = "spawn"
  <2>1. Parent \in DOMAIN task /\ task[Parent].kind = "reminder"
    <3>1. CASE row.kind = "reminder"
      BY <1>6, <1>7, <3>1, Zenon
    <3>2. CASE row.kind # "reminder"
      <4>1. row.kind = "reminder-nag"
        BY <1>2, <1>6, <3>2 DEF Nags, Rows, Kind
      <4>2. row.parent \in DOMAIN task
        BY <1>2, <4>1, Zenon DEF Nags
      <4>3. task[id].parent \in DOMAIN task => task[task[id].parent].kind = "reminder"
        BY <1>3, <1>6, Zenon DEF RowInv, Lineage
      <4> QED
        BY <1>6, <1>7, <3>2, <4>2, <4>3, ZenonT(30)
    <3> QED
      BY <3>1, <3>2, Zenon
  <2> QED
    BY <1>4, <2>1, Zenon DEF Succ
<1>9. Visited'
  <2>1. step' # "idle" /\ step' # "settle" /\ now' > 0 /\ current'.id = id /\ current'.row = row /\ id \notin queue'
    BY <1>1, <1>2, <1>6, Zenon
  <2>2. task'[id].kind = row.kind /\ task'[id].parent = row.parent
    BY <1>4, <1>6, Zenon DEF Succ
  <2> QED
    BY <1>7, <1>8, <2>1, <2>2, Zenon DEF Visited
<1>10. /\ timer' \in Nat /\ clock' = clock /\ up' = up /\ crashes' = crashes /\ pending' \in {0, pending}
       /\ inbound' \in BOOLEAN /\ parked' \in BOOLEAN /\ fired' \in [Id -> 0..2]
       /\ (\A i \in Id : i > lastId => fired'[i] = 0) /\ acked' \subseteq 0..MaxTask
       /\ queue' \subseteq DOMAIN task' /\ nagged' \subseteq DOMAIN task' /\ now' \in 0..clock'
       /\ step' \in {"idle", "next", "settle", "spawn"}
       /\ (step' \in {"settle", "spawn"} => current'.id \in DOMAIN task' /\ current'.row \in Rows)
  BY <1>1, <1>2, <1>3, <1>4, <1>6, Zenon DEF RowInv, TypeOK
<1>11. Others
  BY <1>3, <1>5, <1>10, OthersSame, Zenon
<1>12. RowInv'
  BY <1>3, <1>5, <1>9, <1>10, <1>11, EditRow, Zenon
<1>13. WakeInv'
  BY <1>2, <1>3, <1>5, EditWake, Zenon
<1>14. TimerCovers'
  BY <1>2, Zenon DEF TimerCovers
<1>15. \A p \in DOMAIN task : Owes(p)' => Owes(p)
  BY <1>2, <1>4, Zenon DEF Owes, Succ
<1>16. \A i \in DOMAIN task' : task'[i].kind = "reminder" /\ task'[i].done => i \in acked'
  <2> SUFFICES ASSUME NEW i \in DOMAIN task, task'[i].kind = "reminder", task'[i].done PROVE i \in acked
    BY <1>2, <1>4, Zenon
  <2>1. task[i].kind = "reminder"
    BY <1>4, Zenon DEF Succ
  <2>2. task[i].done
    BY <1>4, <2>1, Zenon DEF Alike
  <2> QED
    BY <1>3, <2>1, <2>2, Zenon DEF NagInv
<1>17. \A p \in DOMAIN task : \A c \in Children(task, p) :
         c # id => c \in Children(task', p) /\ task'[c].nag = task[c].nag
  <2>1. \A p \in DOMAIN task : \A c \in Children(task, p) : c \in DOMAIN task
    BY Zenon DEF Children
  <2> QED
    BY <1>4, <2>1, ChildStays, Zenon
<1>18. ASSUME NEW p \in nagged'
       PROVE  \E c \in Children(task', p) : /\ c \notin queue' /\ task'[c].nag = task'[p].nag
                                            /\ step' \in {"settle", "spawn"} => c # current'.id
  <2>1. PICK c \in Children(task, p) : c \notin queue /\ task[c].nag = task[p].nag /\ c # id
    BY <1>1, <1>2, <1>3, <1>18, Zenon DEF NagInv
  <2>2. p \in DOMAIN task
    BY <1>2, <1>3, <1>18, Zenon DEF RowInv, TypeOK
  <2>3. task'[p].nag = task[p].nag
    BY <1>4, <2>2, Zenon
  <2> QED
    BY <1>1, <1>2, <1>17, <2>1, <2>2, <2>3, Zenon
<1>19. ASSUME crashes' = 0, NEW p \in DOMAIN task', Owes(p)' PROVE NagsOn(p)' \/ (step' = "spawn" /\ Parent' = p)
  <2>1. p \in DOMAIN task /\ Owes(p) /\ task[p].kind = "reminder" /\ task[p].nag > 0 /\ p \notin acked
    BY <1>4, <1>15, <1>19, Zenon DEF Owes
  <2>2. ~task[p].done
    BY <1>3, <2>1, Zenon DEF NagInv
  <2>3. NagsOn(p) \/ id = p
    BY <1>1, <1>2, <1>3, <1>19, <2>1, Zenon DEF NagInv
  <2>4. CASE id = p
    <3>1. row = task[p]
      BY <1>3, <1>6, <2>1, <2>4, NotWakes, ZenonT(30)
    <3>2. Nags(row) /\ ~Rescheduled(task[id], row) /\ row.kind = "reminder"
      BY SMTT(30), <2>1, <2>2, <2>4, <3>1 DEF Nags, Rescheduled
    <3> QED
      BY <1>2, <1>7, <2>4, <3>2, Zenon
  <2>5. ASSUME NEW c \in Children(task, p), task[c].nag > 0 PROVE NagsOn(p)' \/ (step' = "spawn" /\ Parent' = p)
    <3>1. CASE c # id
      BY <1>17, <2>1, <2>5, <3>1, Zenon DEF NagsOn
    <3>2. CASE c = id
      <4>1. task[c].role = "user" /\ task[c].kind = "reminder-nag" /\ task[c].parent = p /\ ~task[c].done
        BY <1>3, <2>1, NotWakes, Zenon DEF Children
      <4>2. row = task[c]
        BY <1>6, <3>2, <4>1, Zenon
      <4>3. Nags(row) /\ ~Rescheduled(task[id], row) /\ row.kind # "reminder"
        BY SMTT(30), <2>1, <2>2, <2>5, <3>2, <4>1, <4>2 DEF Nags, Rescheduled
      <4> QED
        BY <1>2, <1>7, <4>1, <4>2, <4>3, Zenon
    <3> QED
      BY <3>1, <3>2, Zenon
  <2> QED
    BY <2>3, <2>4, <2>5, Zenon DEF NagsOn
<1>20. NagInv'
  BY <1>16, <1>18, <1>19, Zenon DEF NagInv
<1> QED
  BY <1>12, <1>13, <1>14, <1>20, Zenon DEF SchedInv

\* spawnNag inserts the next nag.
LEMMA SpawnedInv ==
  ASSUME SchedInv, step = "spawn", step' = "next", lastId < MaxTask, NEW id, id = lastId + 1, lastId' = id,
         NEW r, r = Row("reminder-nag", "user", "none", now + current.row.nag, 0, task[Parent].nag, Parent),
         task' = [i \in DOMAIN task \cup {id} |-> IF i = id THEN r ELSE task[i]],
         nagged' = nagged \cup {Parent},
         UNCHANGED <<clock, timer, up, queue, now, current, pending, inbound, parked, fired, acked, crashes>>
  PROVE  SchedInv'
<1>1. RowInv /\ WakeInv /\ NagInv
  BY Zenon DEF SchedInv
<1>2. \A i \in DOMAIN task : task[i] \in Rows /\ Alike(task[i], task[i]) /\ Succ(task[i], task[i])
  BY <1>1, AlikeSelf, Zenon DEF RowInv, TypeOK, Alike
<1>3. /\ Parent \in DOMAIN task /\ task[Parent].kind = "reminder" /\ now > 0 /\ current.row \in Rows
  BY <1>1, Zenon DEF RowInv, TypeOK, Visited
<1>4. /\ id \in Id /\ id \notin DOMAIN task /\ DOMAIN task' = DOMAIN task \cup {id} /\ id \notin queue
      /\ task'[id] = r /\ (\A i \in DOMAIN task : task'[i] = task[i]) /\ pending # id /\ lastId \in Nat /\ clock >= clock
  BY SMTT(30), <1>1, BoundsAssumption DEF RowInv, TypeOK, Id
<1>5. Parent \in Nat /\ Parent < id
  BY SMTT(30), <1>1, <1>3 DEF RowInv, TypeOK
<1>6. now + current.row.nag \in Nat \ {0} /\ task[Parent].nag \in Nat
  BY <1>1, <1>2, <1>3 DEF Rows, RowInv, TypeOK
<1>7. /\ r \in Rows /\ r.role = "user" /\ r.kind = "reminder-nag" /\ r.parent = Parent /\ ~r.done
      /\ r.nag = task[Parent].nag
  <2> DEFINE p == Parent
             n == task[Parent].nag
             at == now + current.row.nag
  <2>1. p \in Nat /\ n \in Nat /\ at \in Nat \ {0}
    BY <1>5, <1>6, Zenon
  <2>2. r = Row("reminder-nag", "user", "none", at, 0, n, p)
    BY Zenon
  <2> HIDE DEF p, n, at
  <2>3. /\ r \in Rows /\ r.role = "user" /\ r.kind = "reminder-nag" /\ r.parent = p /\ ~r.done /\ r.nag = n
    BY SMTT(30), <2>1, <2>2 DEF Row, Rows, Kind
  <2> QED
    BY <2>3, Zenon DEF p, n
<1>8. /\ pending' \in 0..lastId' /\ \A i \in Id : i > lastId' => fired'[i] = 0
  BY <1>1, <1>4 DEF RowInv, TypeOK, Id
<1>9. pending' \in DOMAIN task' => task'[pending'].role = "wake"
  BY <1>1, <1>4, Zenon DEF RowInv
<1>10. Others
  BY <1>1, <1>4, <1>8, <1>9, Zenon DEF Others, RowInv, TypeOK
<1>11. /\ queue' \subseteq DOMAIN task /\ nagged' \subseteq DOMAIN task /\ now' \in 0..clock'
       /\ step' \in {"idle", "next"} /\ (step' = "idle" => queue' = {} /\ nagged' = {})
       /\ (step' = "next" => now' > 0) /\ (r.kind # "reminder-nag" => r.parent = 0)
       /\ (r.parent \in DOMAIN task => task[r.parent].kind = "reminder") /\ r.parent < id
       /\ (r.role = "wake" => r.kind = "custom")
  BY <1>1, <1>3, <1>5, <1>7, Zenon DEF RowInv, TypeOK
<1>12. RowInv'
  <2>1. \A i \in DOMAIN task : Succ(task[i], task[i])
    BY <1>2, ZenonT(30)
  <2> QED
    BY <1>1, <1>7, <1>10, <1>11, <2>1, NewRow, Zenon
<1>13. WakeInv'
  <2>1. fired' = fired /\ \A i \in DOMAIN task : Succ(task[i], task[i])
    BY <1>2, Zenon
  <2> QED
    BY <1>1, <2>1, NewWake
<1>14. TimerCovers'
  BY Zenon DEF TimerCovers
<1>15. \A i \in DOMAIN task' : task'[i].kind = "reminder" => i \in DOMAIN task /\ task'[i] = task[i]
  BY <1>4, <1>7, Zenon
<1>16. \A i \in DOMAIN task' : task'[i].kind = "reminder" /\ task'[i].done => i \in acked'
  <2> SUFFICES ASSUME NEW i \in DOMAIN task', task'[i].kind = "reminder", task'[i].done PROVE i \in acked
    BY Zenon
  <2>1. i \in DOMAIN task /\ task'[i] = task[i]
    BY <1>15, Zenon
  <2> QED
    BY <1>1, <2>1, Zenon DEF NagInv
<1>17. \A p \in DOMAIN task : \A c \in Children(task, p) : c \in Children(task', p) /\ task'[c] = task[c]
  <2> TAKE p \in DOMAIN task
  <2> TAKE c \in Children(task, p)
  <2>1. c \in DOMAIN task /\ c \in DOMAIN task' /\ task'[c] = task[c]
    BY <1>4, Zenon DEF Children
  <2>2. Alike(task'[c], task[c])
    BY <1>2, <2>1, Zenon
  <2> QED
    BY <2>1, <2>2, ChildStays, Zenon
<1>18. id \in Children(task', Parent) /\ task'[id].nag = task'[Parent].nag
  BY <1>3, <1>4, <1>7, Zenon DEF Children
<1>19. ASSUME NEW p \in nagged'
       PROVE  \E c \in Children(task', p) : /\ c \notin queue' /\ task'[c].nag = task'[p].nag
                                            /\ step' \in {"settle", "spawn"} => c # current'.id
  <2>1. CASE p = Parent
    BY <1>4, <1>18, <2>1, Zenon
  <2>2. CASE p \in nagged
    <3>1. p \in DOMAIN task /\ task'[p] = task[p]
      BY <1>1, <1>4, <2>2, Zenon DEF RowInv, TypeOK
    <3>2. PICK c \in Children(task, p) : c \notin queue /\ task[c].nag = task[p].nag
      BY <1>1, <2>2, Zenon DEF NagInv
    <3> QED
      BY <1>17, <3>1, <3>2, Zenon
  <2> QED
    BY <1>19, <2>1, <2>2, Zenon
<1>20. ASSUME crashes' = 0, NEW p \in DOMAIN task', Owes(p)' PROVE NagsOn(p)'
  <2>1. task'[p].kind = "reminder" /\ task'[p].nag > 0 /\ fired[p] > 0 /\ p \notin acked
    BY <1>20, Zenon DEF Owes
  <2>2. p \in DOMAIN task /\ task'[p] = task[p]
    BY <1>15, <2>1, Zenon
  <2>3. NagsOn(p) \/ Parent = p
    BY <1>1, <1>20, <2>1, <2>2, Zenon DEF NagInv, Owes
  <2>4. CASE Parent = p
    BY <1>18, <2>1, <2>4, Zenon DEF NagsOn
  <2>5. CASE NagsOn(p)
    BY <1>17, <2>2, <2>5, Zenon DEF NagsOn
  <2> QED
    BY <2>3, <2>4, <2>5, Zenon
<1>21. NagInv'
  BY <1>16, <1>19, <1>20, Zenon DEF NagInv
<1> QED
  BY <1>12, <1>13, <1>14, <1>21, Zenon DEF SchedInv

\* Steps of poll() that change no row but to delay one.
LEMMA PollStepInv ==
  ASSUME SchedInv, Edits, Others, Visited', UNCHANGED <<fired, acked, crashes>>,
         DOMAIN task' = DOMAIN task, \A i \in DOMAIN task : Alike(task'[i], task[i]),
         queue' \subseteq DOMAIN task, now' \in 0..clock', step' \in {"idle", "next"}, TimerCovers',
         nagged' = {} \/ (nagged' = nagged /\ queue' = queue),
         step = "spawn" => Parent \in nagged, step # "settle"
  PROVE  SchedInv'
<1>1. RowInv /\ WakeInv /\ NagInv
  BY Zenon DEF SchedInv
<1>2. /\ queue' \subseteq DOMAIN task' /\ nagged' \subseteq DOMAIN task' /\ ~(step' \in {"settle", "spawn"})
      /\ step' \in {"idle", "next", "settle", "spawn"}
  BY <1>1, Zenon DEF RowInv, TypeOK
<1>3. RowInv'
  BY <1>1, <1>2, EditRow, Zenon
<1>4. WakeInv'
  BY <1>1, EditWake, Zenon
<1>5. \A i \in DOMAIN task : /\ task'[i].kind = task[i].kind /\ task'[i].nag = task[i].nag
                             /\ task'[i].done => task[i].done
  BY Zenon DEF Alike, Succ
<1>6. \A p \in DOMAIN task : \A c \in Children(task, p) : c \in Children(task', p) /\ task'[c].nag = task[c].nag
  <2>1. \A p \in DOMAIN task : \A c \in Children(task, p) : c \in DOMAIN task
    BY Zenon DEF Children
  <2> QED
    BY <2>1, ChildStays, Zenon
<1>7. \A i \in DOMAIN task' : task'[i].kind = "reminder" /\ task'[i].done => i \in acked'
  BY <1>1, <1>5, Zenon DEF NagInv
<1>8. ASSUME NEW p \in nagged
      PROVE  p \in DOMAIN task /\ \E c \in Children(task, p) : c \notin queue /\ task[c].nag = task[p].nag
  BY <1>1, <1>8, Zenon DEF NagInv, RowInv, TypeOK
<1>9. ASSUME NEW p \in nagged'
      PROVE  \E c \in Children(task', p) : /\ c \notin queue' /\ task'[c].nag = task'[p].nag
                                           /\ step' \in {"settle", "spawn"} => c # current'.id
  <2>1. p \in nagged /\ queue' = queue
    BY <1>9, Zenon
  <2>2. PICK c \in Children(task, p) : c \notin queue /\ task[c].nag = task[p].nag
    BY <1>8, <2>1, Zenon
  <2>3. p \in DOMAIN task
    BY <1>8, <2>1, Zenon
  <2> QED
    BY <1>2, <1>5, <1>6, <2>1, <2>2, <2>3, Zenon
<1>10. ASSUME crashes' = 0, NEW p \in DOMAIN task', Owes(p)' PROVE NagsOn(p)'
  <2>1. Owes(p) /\ p \in DOMAIN task /\ task[p].nag > 0
    BY <1>5, <1>10, Zenon DEF Owes
  <2>2. NagsOn(p) \/ (step = "spawn" /\ Parent = p)
    BY <1>1, <1>10, <2>1, Zenon DEF NagInv
  <2>3. NagsOn(p)
    BY <1>8, <2>1, <2>2, Zenon DEF NagsOn
  <2> QED
    BY <1>6, <2>1, <2>3, Zenon DEF NagsOn
<1>11. NagInv'
  BY <1>7, <1>9, <1>10, Zenon DEF NagInv
<1> QED
  BY <1>3, <1>4, <1>11, Zenon DEF SchedInv

\* spawnNag: a nag is created, or its name exists and the task is delayed.
LEMMA SpawnInv == ASSUME SchedInv, spawnNag PROVE SchedInv'
<1>1. PICK id : id = lastId + 1
  OBVIOUS
<1>2. PICK r : r = Row("reminder-nag", "user", "none", now + current.row.nag, 0, task[Parent].nag, Parent)
  BY Zenon
<1>3. /\ step = "spawn" /\ lastId < MaxTask /\ step' = "next"
      /\ \/ /\ lastId' = id /\ nagged' = nagged \cup {Parent}
            /\ task' = [i \in DOMAIN task \cup {id} |-> IF i = id THEN r ELSE task[i]]
         \/ Parent \in nagged /\ task' = Delayed(task, current.id) /\ UNCHANGED <<lastId, nagged>>
      /\ UNCHANGED <<clock, timer, up, queue, now, current, pending, inbound, parked, fired, acked, crashes>>
  <2>1. [i \in DOMAIN task \cup {id} |-> IF i # id THEN task[i] ELSE r]
          = [i \in DOMAIN task \cup {id} |-> IF i = id THEN r ELSE task[i]]
    BY Zenon
  <2> QED
    BY <1>1, <1>2, <2>1, Zenon DEF spawnNag, agent, ghost
<1>4. CASE lastId' = id /\ nagged' = nagged \cup {Parent}
           /\ task' = [i \in DOMAIN task \cup {id} |-> IF i = id THEN r ELSE task[i]]
  BY <1>1, <1>2, <1>3, <1>4, SpawnedInv, ZenonT(30)
<1>5. CASE Parent \in nagged /\ task' = Delayed(task, current.id) /\ UNCHANGED <<lastId, nagged>>
  <2>1. RowInv
    BY Zenon DEF SchedInv
  <2>2. (\A i \in DOMAIN task : task[i] \in Rows) /\ current.id \in DOMAIN task /\ clock \in Nat \ {0}
    BY <1>3, <2>1, Zenon DEF RowInv, TypeOK
  <2>3. DOMAIN task' = DOMAIN task /\ \A i \in DOMAIN task : Alike(task'[i], task[i])
    BY <1>5, <2>2, DelayedIs, Zenon
  <2>4. Edits
    BY <1>5, <2>3, Zenon DEF Edits, Alike
  <2>5. /\ timer' \in Nat /\ clock' = clock /\ up' = up /\ crashes' = crashes /\ pending' \in {0, pending}
        /\ inbound' \in BOOLEAN /\ parked' \in BOOLEAN /\ fired' \in [Id -> 0..2]
        /\ (\A i \in Id : i > lastId => fired'[i] = 0) /\ acked' \subseteq 0..MaxTask
        /\ queue' \subseteq DOMAIN task /\ now' \in 0..clock' /\ step' \in {"idle", "next"} /\ step # "settle"
        /\ nagged' = nagged /\ queue' = queue /\ UNCHANGED <<fired, acked, crashes>>
    BY <1>3, <1>5, <2>1, Zenon DEF RowInv, TypeOK
  <2>6. Others
    BY <2>1, <2>4, <2>5, OthersSame, Zenon
  <2>7. Visited'
    BY <1>3, <2>1, Zenon DEF RowInv, Visited
  <2>8. TimerCovers'
    BY <1>3, Zenon DEF TimerCovers
  <2> QED
    BY <1>5, <2>3, <2>4, <2>5, <2>6, <2>7, <2>8, PollStepInv, Zenon
<1> QED
  BY <1>3, <1>4, <1>5, Zenon

\* poll() takes the rows that are due and disarms the timer.
LEMMA BeginPollInv == ASSUME SchedInv, BeginPoll PROVE SchedInv'
<1>1. /\ step = "idle" /\ now' = clock /\ timer' = 0 /\ step' = "next"
      /\ queue' = {id \in DOMAIN task : Due(task[id], clock)}
      /\ UNCHANGED <<clock, task, lastId, up, current, nagged, pending, inbound, parked, fired, acked, crashes>>
  BY Zenon DEF BeginPoll, store, agent, ghost
<1>2. RowInv
  BY Zenon DEF SchedInv
<1>3. Edits
  BY <1>1, <1>2, SameEdits, Zenon
<1>4. /\ timer' \in Nat /\ now' \in 0..clock' /\ now' > 0
  BY <1>1, <1>2 DEF RowInv, TypeOK
<1>5. /\ clock' = clock /\ up' = up /\ crashes' = crashes /\ pending' \in {0, pending}
      /\ inbound' \in BOOLEAN /\ parked' \in BOOLEAN /\ fired' \in [Id -> 0..2]
      /\ (\A i \in Id : i > lastId => fired'[i] = 0) /\ acked' \subseteq 0..MaxTask
      /\ queue' \subseteq DOMAIN task /\ step' \in {"idle", "next"} /\ step # "settle" /\ step # "spawn"
      /\ nagged' = {} /\ UNCHANGED <<fired, acked, crashes>>
  BY <1>1, <1>2, Zenon DEF RowInv, TypeOK, Visited
<1>6. Others
  BY <1>2, <1>3, <1>4, <1>5, OthersSame, Zenon
<1>7. Visited' /\ TimerCovers'
  BY <1>1, <1>4, Zenon DEF Visited, TimerCovers
<1>8. DOMAIN task' = DOMAIN task /\ \A i \in DOMAIN task : Alike(task'[i], task[i])
  BY <1>1, <1>2, AlikeSelf, Zenon DEF RowInv, TypeOK
<1> QED
  BY <1>3, <1>4, <1>5, <1>6, <1>7, <1>8, PollStepInv, Zenon

\* poll() ends: rearm() in its finally block.
LEMMA EndPollInv == ASSUME SchedInv, EndPoll PROVE SchedInv'
<1>1. /\ step = "next" /\ queue = {} /\ step' = "idle" /\ now' = 0 /\ nagged' = {} /\ timer' = Rearmed(task)
      /\ UNCHANGED <<clock, task, lastId, up, queue, pending, inbound, parked, fired, acked, crashes>>
  BY Zenon DEF EndPoll, store, agent, ghost
<1>2. RowInv
  BY Zenon DEF SchedInv
<1>3. Edits
  BY <1>1, <1>2, SameEdits, Zenon
<1>4. (\A i \in DOMAIN task : task[i] \in Rows) /\ clock \in Nat \ {0}
  BY <1>2, Zenon DEF RowInv, TypeOK
<1>5. timer' \in Nat
  BY <1>1, <1>4, RearmedIs, Zenon
<1>6. now' \in 0..clock'
  BY <1>1, <1>4
<1>7. /\ clock' = clock /\ up' = up /\ crashes' = crashes /\ pending' \in {0, pending}
      /\ inbound' \in BOOLEAN /\ parked' \in BOOLEAN /\ fired' \in [Id -> 0..2]
      /\ (\A i \in Id : i > lastId => fired'[i] = 0) /\ acked' \subseteq 0..MaxTask
      /\ queue' \subseteq DOMAIN task /\ step' \in {"idle", "next"} /\ step # "settle" /\ step # "spawn"
      /\ UNCHANGED <<fired, acked, crashes>> /\ timer' = Rearmed(task')
      /\ queue' \subseteq DOMAIN task' /\ nagged' \subseteq DOMAIN task'
      /\ step' \in {"idle", "next", "settle", "spawn"} /\ ~(step' \in {"settle", "spawn"})
  BY <1>1, <1>2, Zenon DEF RowInv, TypeOK
<1>8. Others
  BY <1>2, <1>3, <1>5, <1>7, OthersSame, Zenon
<1>9. Visited'
  BY <1>1, Zenon DEF Visited
<1>10. RowInv'
  BY <1>2, <1>3, <1>6, <1>7, <1>8, <1>9, EditRow, Zenon
<1>11. TimerCovers'
  BY <1>2, <1>7, <1>10, Rearms, Zenon
<1>12. DOMAIN task' = DOMAIN task /\ \A i \in DOMAIN task : Alike(task'[i], task[i])
  BY <1>1, <1>4, AlikeSelf, Zenon
<1> QED
  BY <1>1, <1>3, <1>6, <1>7, <1>8, <1>9, <1>11, <1>12, PollStepInv, Zenon

\* The steps of poll().
LEMMA PollsInv == ASSUME SchedInv, Polls PROVE SchedInv'
<1>1. ASSUME NEW id, PollSkips(id) PROVE SchedInv'
  <2>1. /\ Visit(id) /\ task' = task /\ lastId' = lastId /\ step' = step /\ inbound' = inbound
        /\ UNCHANGED <<pending, parked, fired, acked, crashes>>
    BY <1>1, Zenon DEF PollSkips, store, agent, ghost
  <2>2. step' = "next" /\ inbound' \in BOOLEAN
    BY <2>1, Zenon DEF Visit, SchedInv, RowInv, TypeOK
  <2> QED
    BY <2>1, <2>2, PassedInv, Zenon
<1>2. ASSUME NEW id, WakeFails(id) PROVE SchedInv'
  <2>1. /\ Visit(id) /\ task' = Delayed(task, id) /\ lastId' = lastId /\ step' = step /\ inbound' = inbound
        /\ UNCHANGED <<pending, parked, fired, acked, crashes>>
    BY <1>2, Zenon DEF WakeFails, agent, ghost
  <2>2. step' = "next" /\ inbound' \in BOOLEAN
    BY <2>1, Zenon DEF Visit, SchedInv, RowInv, TypeOK
  <2> QED
    BY <2>1, <2>2, PassedInv, Zenon
<1>3. ASSUME NEW id, WakeThrows(id) PROVE SchedInv'
  <2>1. /\ Visit(id) /\ task' = Delayed(task, id) /\ lastId' = lastId /\ step' = step /\ inbound' = TRUE
        /\ UNCHANGED <<pending, parked, fired, acked, crashes>>
    BY <1>3, Zenon DEF WakeThrows, ghost
  <2>2. step' = "next" /\ inbound' \in BOOLEAN
    BY <2>1, Zenon DEF Visit
  <2> QED
    BY <2>1, <2>2, PassedInv, Zenon
<1> QED
  BY <1>1, <1>2, <1>3, BeginPollInv, SettlesInv, SpawnInv, EndPollInv, WakeTaskInv, NotifyInv, Zenon DEF Polls

-----------------------------------------------------------------------------
(* The process dies and starts again.                                      *)

\* A process that is down is in no poll.
DownIdle == up \/ step = "idle"

\* A crash, at most with the payload of the pending wake written.
LEMMA CrashInv == ASSUME SchedInv, Crash PROVE SchedInv'
<1>1. /\ crashes' = crashes + 1 /\ up' = FALSE /\ timer' = 0 /\ step' = "idle" /\ queue' = {} /\ now' = 0
      /\ nagged' = {} /\ pending' = 0 /\ inbound' = FALSE /\ parked' = TRUE
      /\ UNCHANGED <<clock, lastId, fired, acked>>
      /\ \/ task' = task
         \/ pending \in DOMAIN task /\ task' = [task EXCEPT ![pending].payload = "preempted"]
  BY Zenon DEF Crash, ghost
<1>2. RowInv /\ WakeInv /\ NagInv
  BY Zenon DEF SchedInv
<1>3. \A i \in DOMAIN task : task[i] \in Rows
  BY <1>2, Zenon DEF RowInv, TypeOK
<1>4. DOMAIN task' = DOMAIN task /\ \A i \in DOMAIN task : Alike(task'[i], task[i])
  <2>1. CASE task' = task
    BY <1>3, <2>1, AlikeSelf, Zenon
  <2>2. CASE pending \in DOMAIN task /\ task' = [task EXCEPT ![pending].payload = "preempted"]
    <3>1. DOMAIN task' = DOMAIN task
      BY <2>2, Zenon
    <3>2. Alike([task[pending] EXCEPT !.payload = "preempted"], task[pending])
      BY <1>3, <2>2, RowWith, Zenon
    <3>3. task'[pending] = [task[pending] EXCEPT !.payload = "preempted"]
      BY <2>2
    <3>4. \A i \in DOMAIN task : i # pending => task'[i] = task[i]
      BY <2>2, Zenon
    <3>5. \A i \in DOMAIN task : i # pending => Alike(task'[i], task[i])
      BY <1>3, <3>4, AlikeSelf, Zenon
    <3>6. Alike(task'[pending], task[pending])
      BY <3>2, <3>3, Zenon
    <3> QED
      BY <3>1, <3>5, <3>6, Zenon
  <2> QED
    BY <1>1, <2>1, <2>2, Zenon
<1>5. Edits
  BY <1>1, <1>4, Zenon DEF Edits, Alike
<1>6. /\ crashes' \in Nat /\ crashes' # 0 /\ now' \in 0..clock' /\ timer' \in Nat
      /\ clock' \in Nat \ {0} /\ clock' >= clock /\ pending' \in 0..lastId' /\ 0 \notin DOMAIN task
  BY SMTT(30), <1>1, <1>2, BoundsAssumption DEF RowInv, TypeOK
<1>7. Others
  BY <1>1, <1>2, <1>4, <1>6, Zenon DEF Others, RowInv, TypeOK
<1>8. Visited' /\ TimerCovers'
  BY <1>1, Zenon DEF Visited, TimerCovers
<1>9. RowInv'
  <2>1. /\ queue' \subseteq DOMAIN task' /\ nagged' \subseteq DOMAIN task'
        /\ step' \in {"idle", "next", "settle", "spawn"} /\ ~(step' \in {"settle", "spawn"})
    BY <1>1, Zenon
  <2> QED
    BY <1>2, <1>5, <1>6, <1>7, <1>8, <2>1, EditRow, ZenonT(30)
<1>10. WakeInv'
  BY <1>1, <1>2, <1>5, EditWake, Zenon
<1>11. NagInv'
  <2>1. \A id \in DOMAIN task' : task'[id].kind = "reminder" /\ task'[id].done => id \in acked'
    BY <1>1, <1>2, <1>4, Zenon DEF NagInv, Alike, Succ
  <2> QED
    BY <1>1, <1>6, <2>1, Zenon DEF NagInv
<1> QED
  BY <1>8, <1>9, <1>10, <1>11, Zenon DEF SchedInv

\* A set of numbers with an upper bound that is not empty has a greatest element.
LEMMA HasMax ==
  ASSUME NEW b \in Nat, NEW S, S \subseteq 0..b, S # {}
  PROVE  \E m \in S : \A n \in S : n <= m
<1> DEFINE gaps == {b - n : n \in S}
<1>0. \A n \in S : n \in 0..b /\ b - n \in Nat
  <2> TAKE n \in S
  <2> QED
    OBVIOUS
<1>1. gaps \subseteq Nat /\ gaps # {}
  BY <1>0, Zenon
<1>2. PICK g \in gaps : \A h \in gaps : g <= h
  <2> HIDE DEF gaps
  <2> QED
    BY <1>1, HasMin, Zenon
<1>3. PICK m \in S : g = b - m
  BY Zenon
<1>4. \A n \in S : b - m <= b - n
  BY <1>2, <1>3
<1>5. \A n \in S : n <= m
  <2> TAKE n \in S
  <2>1. n \in 0..b /\ m \in 0..b /\ b - m <= b - n
    BY <1>0, <1>4, Zenon
  <2> QED
    BY <2>1
<1> QED
  BY <1>5, Zenon

\* The wake recoverRunWake keeps is a run wake, or there is none.
LEMMA NewestIs == ASSUME RowInv PROVE Newest = 0 \/ Newest \in Armed
<1>1. lastId \in Nat /\ Armed \subseteq 0..lastId
  <2>1. Armed \subseteq DOMAIN task
    BY Zenon DEF Armed, WakeRows
  <2> QED
    BY <2>1, BoundsAssumption DEF RowInv, TypeOK
<1>2. Armed # {} => \E m \in Armed : \A n \in Armed : n <= m
  BY <1>1, HasMax, Zenon
<1> QED
  BY <1>2, Zenon DEF Newest

\* A start ends every run wake but the newest armed one.
LEMMA BootIs ==
  ASSUME RowInv, Boot
  PROVE  /\ DOMAIN task' = DOMAIN task
         /\ \A id \in DOMAIN task :
              /\ Succ(task'[id], task[id]) /\ task'[id].nag = task[id].nag
              /\ task[id].role = "user" => task'[id] = task[id]
<1>1. /\ DOMAIN task' = DOMAIN task
      /\ \A id \in DOMAIN task :
           task'[id] = IF id \notin WakeRows \ {Newest} THEN task[id]
                       ELSE [task[id] EXCEPT !.done = TRUE,
                                             !.payload = IF id \in Armed THEN "preempted" ELSE @]
  BY Zenon DEF Boot
<1> SUFFICES ASSUME NEW id \in DOMAIN task
             PROVE  /\ Succ(task'[id], task[id]) /\ task'[id].nag = task[id].nag
                    /\ task[id].role = "user" => task'[id] = task[id]
  BY <1>1, Zenon
<1>2. task[id] \in Rows
  BY Zenon DEF RowInv, TypeOK
<1>3. CASE id \notin WakeRows \ {Newest}
  <2>1. task'[id] = task[id]
    BY <1>1, <1>3, Zenon
  <2> QED
    BY <1>2, <2>1, Zenon DEF Succ
<1>4. CASE id \in WakeRows \ {Newest}
  <2> DEFINE r == [task[id] EXCEPT !.done = TRUE, !.payload = IF id \in Armed THEN "preempted" ELSE @]
  <2>1. task'[id] = r /\ task[id].role = "wake"
    BY <1>1, <1>4, Zenon DEF WakeRows
  <2>2. Succ(r, task[id]) /\ r.nag = task[id].nag
    <3>1. CASE id \in Armed
      BY <1>2, <3>1, Zenon DEF Succ, Rows
    <3>2. CASE id \notin Armed
      BY <1>2, <3>2, Zenon DEF Succ, Rows
    <3> QED
      BY <3>1, <3>2, Zenon
  <2> QED
    BY <2>1, <2>2
<1> QED
  BY <1>3, <1>4, Zenon

\* recoverRunWake and start().
LEMMA BootInv == ASSUME SchedInv, DownIdle, Boot PROVE SchedInv'
<1>1. /\ step = "idle" /\ up' = TRUE /\ pending' = Newest /\ timer' = Rearmed(task')
      /\ UNCHANGED <<clock, lastId, poll, inbound, parked, fired, acked, crashes>>
  BY Zenon DEF Boot, DownIdle, ghost
<1>2. RowInv /\ WakeInv /\ NagInv
  BY Zenon DEF SchedInv
<1>3. /\ DOMAIN task' = DOMAIN task
      /\ \A id \in DOMAIN task :
           /\ Succ(task'[id], task[id]) /\ task'[id].nag = task[id].nag
           /\ task[id].role = "user" => task'[id] = task[id]
  BY <1>2, BootIs, Zenon
<1>4. Edits
  BY <1>1, <1>3, Zenon DEF Edits
<1>5. clock \in Nat \ {0} /\ clock >= clock /\ DOMAIN task \subseteq 0..lastId /\ 0 \in 0..lastId /\ 0 \notin DOMAIN task
  BY <1>2, BoundsAssumption DEF RowInv, TypeOK
<1>6. pending' \in 0..lastId /\ (pending' \in DOMAIN task' => task'[pending'].role = "wake")
  <2>1. Newest = 0 \/ (Newest \in DOMAIN task /\ task[Newest].role = "wake")
    BY <1>2, NewestIs, Zenon DEF Armed, WakeRows
  <2>2. Newest \in 0..lastId
    BY <1>5, <2>1, Zenon
  <2>3. Newest \in DOMAIN task => task'[Newest].role = "wake"
    BY <1>3, <1>5, <2>1, Zenon DEF Succ
  <2> QED
    BY <1>1, <1>3, <2>2, <2>3, Zenon
<1>7. \A i \in DOMAIN task' : task'[i] \in Rows
  BY <1>3, Zenon DEF Succ
<1>8. timer' \in Nat
  <2>1. Rearmed(task') \in Nat
    BY <1>5, <1>7, RearmedIs, Zenon
  <2> QED
    BY <1>1, <2>1, Zenon
<1>9. Others
  BY <1>1, <1>2, <1>5, <1>6, <1>8, Zenon DEF Others, RowInv, TypeOK
<1>10. RowInv'
  BY <1>1, <1>2, <1>4, <1>9, IdleRow, ZenonT(30)
<1>11. WakeInv'
  BY <1>1, <1>2, <1>4, EditWake, ZenonT(30)
<1>12. TimerCovers'
  BY <1>1, <1>2, <1>10, Rearms, Zenon
<1>13. NagInv'
  <2>1. \A id \in DOMAIN task' : task'[id].kind = "reminder" /\ task'[id].done => id \in acked'
    <3> SUFFICES ASSUME NEW id \in DOMAIN task', task'[id].kind = "reminder", task'[id].done
                 PROVE  id \in acked'
      BY Zenon
    <3>1. id \in DOMAIN task /\ task[id].kind = "reminder"
      BY <1>3 DEF Succ
    <3>2. task'[id] = task[id]
      BY <1>2, <1>3, <3>1, NotWakes, Zenon
    <3>3. task[id].done
      BY <3>2, Zenon
    <3> QED
      BY <1>1, <1>2, <3>1, <3>3, Zenon DEF NagInv
  <2>2. \A p \in DOMAIN task' : Owes(p)' => p \in DOMAIN task /\ Owes(p)
    BY <1>1, <1>3, Zenon DEF Owes, Succ
  <2>3. \A p \in DOMAIN task : \A c \in Children(task, p) :
          p \in acked' \/ (c \in Children(task', p) /\ task'[c].nag = task[c].nag)
    <3> TAKE p \in DOMAIN task
    <3> TAKE c \in Children(task, p)
    <3>1. c \in DOMAIN task' /\ task'[c] = task[c] /\ task'[c] \in Rows
      BY <1>2, <1>3, <1>7, NotWakes, Zenon
    <3>2. Alike(task'[c], task[c])
      BY <3>1, AlikeSelf, Zenon
    <3> QED
      BY <3>1, <3>2, ChildStays, Zenon
  <2>4. UNCHANGED <<poll, crashes>>
    BY <1>1, Zenon
  <2> QED
    BY <1>1, <1>2, <2>1, <2>2, <2>3, <2>4, IdleNag, Zenon
<1> QED
  BY <1>10, <1>11, <1>12, <1>13, Zenon DEF SchedInv

-----------------------------------------------------------------------------
(* The invariant, and the properties it implies.                           *)

\* Polls are begun by a process that is up, and end with it.
LEMMA PollsDown == ASSUME DownIdle, Polls PROVE DownIdle'
<1>1. ASSUME NEW id, PollSkips(id) \/ WakeFails(id) \/ WakeThrows(id) \/ WakeTask(id) \/ notifyRunWake(id)
      PROVE  step # "idle" /\ up' = up
  <2>1. Visit(id)
    BY <1>1, Zenon DEF PollSkips, WakeFails, WakeThrows, WakeTask, notifyRunWake
  <2> QED
    BY <2>1 DEF Visit
<1>2. ASSUME PollSettles PROVE step # "idle" /\ up' = up
  BY <1>2 DEF PollSettles
<1>3. ASSUME spawnNag PROVE step # "idle" /\ up' = up
  BY <1>3 DEF spawnNag
<1>4. ASSUME EndPoll PROVE step' = "idle"
  BY <1>4, Zenon DEF EndPoll
<1>5. ASSUME BeginPoll PROVE up'
  BY <1>5, Zenon DEF BeginPoll
<1> QED
  BY <1>1, <1>2, <1>3, <1>4, <1>5, Zenon DEF Polls, DownIdle

\* Calls of elpis.schedule and the Agent's steps fall between polls.
LEMMA CallsDown == ASSUME Tick \/ Schedules \/ Runs PROVE step = "idle" /\ step' = "idle"
<1>1. ASSUME Tick \/ ExternalInput \/ Drain \/ Park PROVE step = "idle" /\ UNCHANGED poll
  BY <1>1, Zenon DEF Tick, ExternalInput, Drain, Park
<1>2. ASSUME NEW at, armRunWake(at) PROVE step = "idle" /\ UNCHANGED poll
  BY <1>2, Zenon DEF armRunWake
<1>3. ASSUME NEW shape, NEW at, create(shape, at) PROVE step = "idle" /\ UNCHANGED poll
  BY <1>3, Zenon DEF create, Calls
<1>4. ASSUME NEW id, markDoneByName(id) \/ delete(id) PROVE step = "idle" /\ UNCHANGED poll
  BY <1>4, Zenon DEF markDoneByName, delete, Calls
<1>5. ASSUME NEW id, NEW until, snoozeByName(id, until) PROVE step = "idle" /\ UNCHANGED poll
  BY <1>5, Zenon DEF snoozeByName, Calls
<1>6. ASSUME NEW id, NEW field, NEW value, update(id, field, value) PROVE step = "idle" /\ UNCHANGED poll
  BY <1>6, Zenon DEF update, Calls
<1>7. step = "idle" /\ UNCHANGED poll
  BY <1>1, <1>2, <1>3, <1>4, <1>5, <1>6, Zenon DEF Schedules, Runs
<1> QED
  BY <1>7, Zenon DEF poll

\* The calls of elpis.schedule.
LEMMA SchedulesInv == ASSUME SchedInv, Schedules PROVE SchedInv'
<1>1. clock \in Nat \ {0}
  BY Zenon DEF SchedInv, RowInv, TypeOK
<1>2. Soon \subseteq Nat \ {0} /\ Later \subseteq Nat
  BY <1>1 DEF Soon, Later
<1>3. ASSUME NEW shape \in Shape, NEW at \in Soon, create(shape, at) PROVE SchedInv'
  BY <1>2, <1>3, CreateInv, Zenon
<1>4. ASSUME NEW id, NEW until \in Later, snoozeByName(id, until) PROVE SchedInv'
  BY <1>2, <1>4, SnoozeInv, Zenon
<1>5. ASSUME NEW id, NEW p \in Patches(id), update(id, p[1], p[2]) PROVE SchedInv'
  <2>1. FieldType(p[1], p[2])
    BY <1>1, PatchesTyped, Zenon
  <2> QED
    BY <1>5, <2>1, UpdateInv, Zenon
<1> QED
  BY <1>3, <1>4, <1>5, MarkDoneInv, DeleteInv, Zenon DEF Schedules

\* The Agent's steps.
LEMMA RunsInv == ASSUME SchedInv, Runs PROVE SchedInv'
<1>1. ASSUME NEW delay \in WakeDelay, armRunWake(clock + delay) PROVE SchedInv'
  <2>1. clock \in Nat \ {0} /\ delay \in Nat
    BY BoundsAssumption, Zenon DEF SchedInv, RowInv, TypeOK
  <2>2. clock + delay \in Nat \ {0}
    BY <2>1
  <2> QED
    BY <1>1, <2>2, ArmInv, Zenon
<1> QED
  BY <1>1, ExternalInputInv, DrainInv, Zenon DEF Runs

\* An empty table and a timer a minute away.
LEMMA InitInv == ASSUME Init PROVE SchedInv /\ DownIdle
<1>1. /\ clock = 1 /\ task = <<>> /\ lastId = 0 /\ timer = clock + RetryDelay /\ up = TRUE
      /\ queue = {} /\ now = 0 /\ step = "idle" /\ nagged = {} /\ pending = 0 /\ inbound = FALSE
      /\ parked = TRUE /\ fired = [id \in Id |-> 0] /\ acked = {} /\ crashes = 0
  BY Zenon DEF Init
<1>2. DOMAIN task = {}
  BY <1>1
<1>3. /\ clock \in Nat \ {0} /\ lastId \in 0..MaxTask /\ timer \in Nat /\ timer # 0 /\ now \in 0..clock
      /\ pending \in 0..lastId /\ crashes \in Nat /\ 0 \in 0..2
  BY <1>1, BoundsAssumption DEF RetryDelay
<1>4. fired \in [Id -> 0..2] /\ \A id \in Id : fired[id] = 0
  BY <1>1, <1>3, Zenon
<1>5. TypeOK
  BY <1>1, <1>2, <1>3, <1>4, Zenon DEF TypeOK
<1>6. RowInv
  BY <1>1, <1>2, <1>4, <1>5, Zenon DEF RowInv, Lineage, Visited
<1>7. WakeInv /\ TimerCovers
  BY <1>2, <1>3, Zenon DEF WakeInv, TimerCovers
<1>8. NagInv
  BY <1>1, <1>2, Zenon DEF NagInv
<1> QED
  BY <1>1, <1>6, <1>7, <1>8, Zenon DEF SchedInv, DownIdle

\* A step that changes nothing.
LEMMA StutterInv == ASSUME SchedInv, UNCHANGED vars PROVE SchedInv'
<1>1. UNCHANGED <<clock, task, lastId, timer, up, queue, now, step, current, nagged, pending, inbound, parked,
                  fired, acked, crashes>>
  BY Zenon DEF vars, store, poll, agent, ghost
<1>2. RowInv'
  <2>1. TypeOK'
    BY <1>1, ZenonT(30) DEF SchedInv, RowInv, TypeOK
  <2>2. Lineage' /\ Visited'
    BY <1>1, ZenonT(30) DEF SchedInv, RowInv, Lineage, Visited, Parent
  <2> QED
    BY <1>1, <2>1, <2>2, Zenon DEF SchedInv, RowInv
<1>3. WakeInv' /\ TimerCovers'
  BY <1>1, Zenon DEF SchedInv, WakeInv, TimerCovers
<1>4. NagInv'
  BY <1>1, Zenon DEF SchedInv, NagInv, Owes, NagsOn, Parent
<1> QED
  BY <1>2, <1>3, <1>4, Zenon DEF SchedInv

\* SchedInv holds in every state of the scheduler, whatever the number of
\* tasks, calls, crashes and failing callbacks.
THEOREM SchedInvariance == Spec => []SchedInv
<1>1. Init => SchedInv /\ DownIdle
  BY InitInv, Zenon
<1>2. (SchedInv /\ DownIdle) /\ [Next]_vars => (SchedInv /\ DownIdle)'
  <2> SUFFICES ASSUME SchedInv, DownIdle, [Next]_vars PROVE SchedInv' /\ DownIdle'
    BY Zenon
  <2>1. CASE Tick
    BY <2>1, TickInv, CallsDown, ZenonT(30) DEF DownIdle
  <2>2. CASE Schedules
    BY <2>2, SchedulesInv, CallsDown, Zenon DEF DownIdle
  <2>3. CASE Polls
    BY <2>3, PollsInv, PollsDown, Zenon
  <2>4. CASE Runs
    BY <2>4, RunsInv, CallsDown, Zenon DEF DownIdle
  <2>5. CASE Crash
    <3>1. step' = "idle"
      BY <2>5, Zenon DEF Crash
    <3> QED
      BY <2>5, <3>1, CrashInv, Zenon DEF DownIdle
  <2>6. CASE Boot
    <3>1. up'
      BY <2>6, Zenon DEF Boot
    <3> QED
      BY <2>6, <3>1, BootInv, Zenon DEF DownIdle
  <2>7. CASE UNCHANGED vars
    <3>1. DownIdle'
      BY <2>7, Zenon DEF vars, poll, DownIdle
    <3> QED
      BY <2>7, <3>1, StutterInv, Zenon
  <2> QED
    BY <2>1, <2>2, <2>3, <2>4, <2>5, <2>6, <2>7, Zenon DEF Next
<1> QED
  BY <1>1, <1>2, PTL DEF Spec

\* A run wake reaches the Agent at most once: notifyRunWake() writes "fired"
\* over "armed" before the message is queued, and nothing writes "armed" again.
THEOREM SchedWakeOnce == Spec => []WakeOnce
<1>1. SchedInv => WakeOnce
  BY Zenon DEF SchedInv, WakeInv, WakeOnce
<1> QED
  BY <1>1, SchedInvariance, PTL

\* rearm() leaves no task without a timer that comes in time for it: every
\* path that can bring a task forward calls it, and the others only put tasks
\* off.
THEOREM SchedTimerCovers == Spec => []TimerCovers
<1>1. SchedInv => TimerCovers
  BY Zenon DEF SchedInv
<1> QED
  BY <1>1, SchedInvariance, PTL

\* A reminder that fired and was not acknowledged has a nag under way whenever
\* no poll is, although a nag is marked done before spawnNag() makes the next.
THEOREM SchedReminderNags == Spec => []ReminderNags
<1>1. SchedInv => ReminderNags
  <2> SUFFICES ASSUME SchedInv, crashes = 0, step = "idle", NEW id \in DOMAIN task,
                      task[id].nag > 0 /\ task[id].kind = "reminder" /\ fired[id] > 0 /\ id \notin acked
               PROVE  Children(task, id) # {}
    BY Zenon DEF ReminderNags
  <2>1. Owes(id)
    BY Zenon DEF Owes
  <2>2. NagsOn(id)
    BY <2>1 DEF SchedInv, NagInv
  <2> QED
    BY <2>2, Zenon DEF NagsOn
<1> QED
  BY <1>1, SchedInvariance, PTL
==============================================================================

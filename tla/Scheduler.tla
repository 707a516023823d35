------------------------------ MODULE Scheduler ------------------------------
(***************************************************************************)
(* The persistent task queue (store/scheduler.ts) and its first client,    *)
(* the Agent's run wake (agent.ts): at most one self-wake the Agent arms   *)
(* when a run yields and any other waking input pre-empts.                 *)
(* Every SQL statement commits on its own: the process may die between any *)
(* two statements of a poll and between the two of a pre-emption; the      *)
(* calls of elpis.schedule are one step each.  Nothing here awaits, so a   *)
(* poll is not interrupted and takes no time worth a unit.  Times are      *)
(* whole units of at least a minute; 0 stands for NULL, as the code treats *)
(* a missing interval like 0.                                              *)
(***************************************************************************)
EXTENDS Integers, FiniteSets, Sequences

CONSTANTS MaxTask,   \* rows ever made, nags included
          MaxCall,   \* calls of elpis.schedule, and run wakes armed
          MaxTime,   \* last instant of the clock
          MaxCrash,  \* process deaths
          MaxFault,  \* callbacks that throw
          Shape,     \* [kind, interval, nag] of the tasks the API is asked for
          WakeDelay  \* delays of the run wakes

ASSUME BoundsAssumption ==
  /\ MaxTask \in Nat /\ MaxCall \in Nat /\ MaxTime \in Nat /\ MaxCrash \in Nat /\ MaxFault \in Nat
  /\ Shape \subseteq [kind : {"custom", "reminder"}, interval : Nat, nag : Nat]
  /\ WakeDelay \subseteq Nat

RetryDelay == 1   \* 60_000 ms

VARIABLES
  clock,
  task,     \* scheduled_tasks: id -> row
  lastId,   \* AUTOINCREMENT
  timer,    \* when the single timer fires, 0 for none
  up,       \* the process runs and start() was called
  queue,    \* the due ids that poll() has still to visit
  now,      \* poll()'s reading of the clock
  step,     \* what poll() does next: "idle", "next", "settle" or "spawn"
  current,  \* the task poll() is at: [id, row]
  nagged,   \* parents this poll has created a nag for
  pending,  \* Agent.pendingRunWake: a task id, 0 for none
  inbound,  \* waking messages wait in Agent.inbound
  parked,   \* the Agent loop sleeps at its wake gate
  calls,    \* calls of elpis.schedule, and run wakes armed
  fired,    \* ghost: wakes of each id since it was created or its intervals set
  acked,    \* ghost: parents whose nags the caller has ended since they fired
  crashes, faults

store == <<task, lastId, calls>>
poll  == <<queue, now, step, current, nagged>>
agent == <<pending, inbound, parked>>
ghost == <<fired, acked>>
vars  == <<clock, store, timer, up, poll, agent, ghost, crashes, faults>>

Id   == 1..MaxTask
Kind == {"custom", "reminder", "reminder-nag"}
Row(kind, role, payload, next, interval, nag, parent) ==
  [kind |-> kind, role |-> role, payload |-> payload, next |-> next, interval |-> interval,
   nag |-> nag, parent |-> parent, snooze |-> 0, done |-> FALSE]
Idle == [id |-> 0, row |-> [kind |-> "custom"]]

Max2(a, b) == IF a >= b THEN a ELSE b
\* The ghost tells 0, 1 and more apart.
OnceMore(id) == [fired EXCEPT ![id] = IF @ = 0 THEN 1 ELSE 2]
Children(t, id) == {c \in DOMAIN t : t[c].parent = id /\ ~t[c].done}

\* When a task may run: its time, or its snooze if that is later.
EffectiveAt(row) == Max2(row.next, row.snooze)
Due(row, at) == ~row.done /\ EffectiveAt(row) <= at

\* rearm() over the rows t: the earliest effective time, a minute at most, not before now.
Rearmed(t) ==
  LET times == {EffectiveAt(t[id]) : id \in {i \in DOMAIN t : ~t[i].done}} \cup {clock + RetryDelay}
      first == CHOOSE m \in times : \A n \in times : m <= n
  IN Max2(clock, first)

Init ==
  /\ clock = 1 /\ task = <<>> /\ lastId = 0 /\ calls = 0 /\ timer = clock + RetryDelay /\ up = TRUE
  /\ queue = {} /\ now = 0 /\ step = "idle" /\ current = Idle /\ nagged = {}
  /\ pending = 0 /\ inbound = FALSE /\ parked = TRUE
  /\ fired = [id \in Id |-> 0] /\ acked = {}
  /\ crashes = 0 /\ faults = 0

Tick == /\ step = "idle" /\ clock < MaxTime /\ clock' = clock + 1
        /\ UNCHANGED <<store, timer, up, poll, agent, ghost, crashes, faults>>

-----------------------------------------------------------------------------
(* The Agent's side: waking input and run wakes.                           *)

\* markDone of a set of rows, with the payload a pre-empted or fired wake gets.
MarkDone(t, ids) == [id \in DOMAIN t |-> IF id \in ids THEN [t[id] EXCEPT !.done = TRUE] ELSE t[id]]

\* preemptRunWake throws when update() finds the pending row already done.
PreemptThrows(t) == pending \in DOMAIN t /\ t[pending].done
Preempted(t) ==
  IF pending \in DOMAIN t /\ ~t[pending].done
  THEN [t EXCEPT ![pending].payload = "preempted", ![pending].done = TRUE] ELSE t

\* enqueue() of a waking message over the rows t: the message is queued first,
\* then the run wake is pre-empted and the loop woken.
Enqueue(t) ==
  /\ inbound' = TRUE
  /\ task' = Preempted(t)
  /\ IF PreemptThrows(t) THEN UNCHANGED <<pending, parked>>
     ELSE pending' = 0 /\ parked' = FALSE

\* A person, a heartbeat or a notice wakes the Agent.
ExternalInput ==
  /\ up /\ step = "idle"
  /\ Enqueue(task)
  /\ timer' = IF pending # 0 /\ ~PreemptThrows(task) THEN Rearmed(task') ELSE timer
  /\ UNCHANGED <<clock, lastId, calls, up, poll, ghost, crashes, faults>>

\* The loop drains its queue, and parks when there is nothing to do.
Drain == /\ up /\ step = "idle" /\ ~parked /\ inbound
         /\ inbound' = FALSE
         /\ UNCHANGED <<clock, store, timer, up, poll, pending, parked, ghost, crashes, faults>>
Park  == /\ up /\ step = "idle" /\ ~parked /\ ~inbound
         /\ parked' = TRUE
         /\ UNCHANGED <<clock, store, timer, up, poll, pending, inbound, ghost, crashes, faults>>

armRunWake(at) ==
  /\ up /\ step = "idle" /\ ~parked /\ ~inbound /\ calls < MaxCall /\ lastId < MaxTask
  /\ ~PreemptThrows(task)
  /\ lastId' = lastId + 1 /\ calls' = calls + 1
  /\ task' = LET t == Preempted(task) IN
             [id \in DOMAIN t \cup {lastId + 1} |->
                IF id = lastId + 1 THEN Row("custom", "wake", "armed", at, 0, 0, 0) ELSE t[id]]
  /\ pending' = lastId + 1
  /\ timer' = Rearmed(task')
  /\ UNCHANGED <<clock, up, poll, inbound, parked, ghost, crashes, faults>>

-----------------------------------------------------------------------------
(* elpis.schedule: calls of sandbox code, which may outlive its run.       *)

Calls == up /\ step = "idle" /\ calls < MaxCall /\ calls' = calls + 1

create(shape, at) ==
  /\ Calls /\ lastId < MaxTask
  /\ lastId' = lastId + 1
  /\ task' = [id \in DOMAIN task \cup {lastId + 1} |->
                IF id = lastId + 1
                THEN Row(shape.kind, "user", "none", at, shape.interval, shape.nag, 0)
                ELSE task[id]]
  /\ timer' = Rearmed(task')
  /\ UNCHANGED <<clock, up, poll, agent, ghost, crashes, faults>>

\* The first slot of a cadence after the given time.
NextSlot(row, at) ==
  LET slots == {row.next + k * row.interval : k \in 0..at}
  IN CHOOSE n \in slots : n > at /\ \A m \in slots : m > at => n <= m

\* A recurring task moves to its next slot, any other is done; its nags are
\* done.  Only markDone() re-arms the timer.
markDoneByName(id) ==
  /\ Calls /\ id \in DOMAIN task
  /\ LET row == task[id]
         recurs == row.interval > 0 /\ ~row.done
         ended == Children(task, id) \cup IF recurs THEN {} ELSE {id}
         moved == IF recurs /\ row.next <= clock
                  THEN [task EXCEPT ![id].next = NextSlot(row, clock)] ELSE task
     IN /\ task' = MarkDone(moved, ended)
        /\ timer' = IF ended = {} THEN timer ELSE Rearmed(task')
  /\ acked' = acked \cup {id, task[id].parent}
  /\ UNCHANGED <<clock, lastId, up, poll, agent, fired, crashes, faults>>

Snoozed(t, ids, until) ==
  [id \in DOMAIN t |-> IF id \in ids THEN [t[id] EXCEPT !.snooze = until] ELSE t[id]]

snoozeByName(id, until) ==
  /\ Calls /\ id \in DOMAIN task
  /\ task' = Snoozed(task, {id} \cup Children(task, id), until)
  /\ timer' = Rearmed(task')
  /\ UNCHANGED <<clock, lastId, up, poll, agent, ghost, crashes, faults>>

\* update() of one column; a snooze cascades to the nags, a done row is refused.
Patched(row, field, value) ==
  CASE field = "next"     -> [row EXCEPT !.next = value]
    [] field = "snooze"   -> [row EXCEPT !.snooze = value]
    [] field = "payload"  -> [row EXCEPT !.payload = value]
    [] field = "interval" -> [row EXCEPT !.interval = value]
    [] field = "nag"      -> [row EXCEPT !.nag = value]
update(id, field, value) ==
  /\ Calls /\ id \in DOMAIN task /\ ~task[id].done
  /\ LET t == IF field = "snooze" /\ value # 0 THEN Snoozed(task, Children(task, id), value)
              ELSE task
     IN task' = [t EXCEPT ![id] = Patched(@, field, value)]
  /\ timer' = Rearmed(task')
  /\ fired' = IF field \in {"interval", "nag"} /\ task[id].role = "user"
              THEN [fired EXCEPT ![id] = 0] ELSE fired
  /\ acked' = IF field = "nag" THEN acked \cup {task[id].parent} ELSE acked
  /\ UNCHANGED <<clock, lastId, up, poll, agent, crashes, faults>>

delete(id) ==
  /\ Calls /\ id \in DOMAIN task
  /\ task' = [i \in DOMAIN task \ {id} |-> task[i]]
  /\ timer' = Rearmed(task')
  /\ acked' = acked \cup {task[id].parent}
  /\ UNCHANGED <<clock, lastId, up, poll, agent, fired, crashes, faults>>

-----------------------------------------------------------------------------
(* poll().                                                                 *)

BeginPoll ==
  /\ up /\ step = "idle" /\ timer # 0 /\ timer <= clock
  /\ now' = clock /\ timer' = 0
  /\ queue' = {id \in DOMAIN task : Due(task[id], clock)}
  /\ step' = "next"
  /\ UNCHANGED <<clock, store, up, current, nagged, agent, ghost, crashes, faults>>

\* The task of the snapshot with the earliest next_run_at.
Visit(id) == /\ step = "next" /\ id \in queue
             /\ \A other \in queue : task[id].next <= task[other].next
             /\ queue' = queue \ {id}
             /\ UNCHANGED <<clock, timer, up, now, nagged>>

\* It changed since the snapshot: leave it alone.
PollSkips(id) ==
  /\ Visit(id) /\ ~Due(task[id], now)
  /\ UNCHANGED <<store, step, current, agent, ghost, crashes, faults>>

\* The retry delay after a callback threw.
Delayed(t, id) == IF t[id].done THEN t
                  ELSE [t EXCEPT ![id].next = Max2(t[id].next, clock + RetryDelay)]

\* onTaskWake throws before it has done anything.
WakeFails(id) ==
  /\ Visit(id) /\ Due(task[id], now) /\ faults < MaxFault
  /\ faults' = faults + 1
  /\ task' = Delayed(task, id)
  /\ UNCHANGED <<lastId, calls, step, current, agent, ghost, crashes>>

\* enqueue() throws in preemptRunWake, after it queued the message.
WakeThrows(id) ==
  /\ Visit(id) /\ Due(task[id], now) /\ task[id].role = "user" /\ PreemptThrows(task)
  /\ inbound' = TRUE
  /\ task' = Delayed(task, id)
  /\ UNCHANGED <<lastId, calls, step, current, pending, parked, ghost, crashes, faults>>

\* A scheduled task reaches the Agent, and a reminder starts a new round.
WakeTask(id) ==
  /\ Visit(id) /\ Due(task[id], now) /\ task[id].role = "user" /\ ~PreemptThrows(task)
  /\ Enqueue(task)
  /\ current' = [id |-> id, row |-> task[id]] /\ step' = "settle"
  /\ fired' = OnceMore(id)
  /\ acked' = IF task[id].kind = "reminder" THEN acked \ {id} ELSE acked
  /\ UNCHANGED <<lastId, calls, crashes, faults>>

\* notifyRunWake: only the armed, pending wake reaches the Agent.
Fires(id) == task[id].payload = "armed" /\ pending \in {0, id}
MutNotifyRunWakeUnrecorded(id) ==
  /\ Visit(id) /\ Due(task[id], now) /\ task[id].role = "wake"
  /\ IF Fires(id)
     THEN /\ pending' = 0 /\ inbound' = TRUE /\ parked' = FALSE
          /\ fired' = OnceMore(id)
     ELSE UNCHANGED <<agent, fired>>
  /\ current' = [id |-> id, row |-> task[id]] /\ step' = "settle"
  /\ UNCHANGED <<store, acked, crashes, faults>>
notifyRunWake(id) ==
  /\ Visit(id) /\ Due(task[id], now) /\ task[id].role = "wake"
  /\ IF Fires(id)
     THEN /\ task' = [task EXCEPT ![id].payload = "fired"]
          /\ pending' = 0 /\ inbound' = TRUE /\ parked' = FALSE
          /\ fired' = OnceMore(id)
     ELSE UNCHANGED <<task, agent, fired>>
  /\ current' = [id |-> id, row |-> task[id]] /\ step' = "settle"
  /\ UNCHANGED <<lastId, calls, acked, crashes, faults>>

\* The callback changed the schedule of the task it was called for.
Rescheduled(row, old) ==
  row.done \/ row.next # old.next \/ row.snooze # old.snooze \/ row.interval # old.interval

\* The main cadence, a consumed nag or a one-shot; a nag goes on only while
\* its parent is there and not done.
Settled(id, row) ==
  IF row.kind = "reminder" \/ (row.kind = "custom" /\ row.interval > 0)
  THEN [task EXCEPT ![id].next = Max2(now, row.next + row.interval)]
  ELSE MarkDone(task, {id})
MutNagsOnce(row) == row.nag > 0 /\ row.kind = "reminder"
Nags(row) == /\ row.nag > 0 /\ row.kind # "custom"
             /\ row.kind = "reminder-nag" => row.parent \in DOMAIN task /\ ~task[row.parent].done
PollSettles ==
  /\ step = "settle"
  /\ LET id == current.id
         row == current.row
     IN IF Rescheduled(task[id], row)
        THEN task' = task /\ step' = "next"
        ELSE task' = Settled(id, row) /\ step' = IF Nags(row) THEN "spawn" ELSE "next"
  /\ UNCHANGED <<clock, lastId, calls, timer, up, queue, now, current, nagged, agent, ghost,
                 crashes, faults>>

\* spawnNag: its name holds the parent's name and the millisecond, so a second
\* nag of one parent in one millisecond violates UNIQUE and throws.
Parent == IF current.row.kind = "reminder" THEN current.id ELSE current.row.parent
spawnNag ==
  /\ step = "spawn" /\ lastId < MaxTask
  /\ step' = "next"
  /\ \/ /\ lastId' = lastId + 1
        /\ task' = [id \in DOMAIN task \cup {lastId + 1} |->
                      IF id # lastId + 1 THEN task[id]
                      ELSE Row("reminder-nag", "user", "none", now + current.row.nag, 0,
                               task[Parent].nag, Parent)]
        /\ nagged' = nagged \cup {Parent}
     \/ /\ Parent \in nagged
        /\ task' = Delayed(task, current.id)
        /\ UNCHANGED <<lastId, nagged>>
  /\ UNCHANGED <<clock, calls, timer, up, queue, now, current, agent, ghost, crashes, faults>>

MutEndPollUnarmed ==
  /\ step = "next" /\ queue = {}
  /\ step' = "idle" /\ current' = Idle /\ now' = 0 /\ nagged' = {}
  /\ UNCHANGED <<clock, store, timer, up, queue, agent, ghost, crashes, faults>>
EndPoll ==
  /\ step = "next" /\ queue = {}
  /\ step' = "idle" /\ current' = Idle /\ now' = 0 /\ nagged' = {}
  /\ timer' = Rearmed(task)
  /\ UNCHANGED <<clock, store, up, queue, agent, ghost, crashes, faults>>

-----------------------------------------------------------------------------
(* The process dies between two statements, and starts again.              *)

Crash ==
  /\ up /\ crashes < MaxCrash
  /\ \/ task' = task
     \/ /\ step = "idle" /\ pending \in DOMAIN task /\ ~task[pending].done
        /\ task' = [task EXCEPT ![pending].payload = "preempted"]
  /\ crashes' = crashes + 1 /\ up' = FALSE /\ timer' = 0
  /\ step' = "idle" /\ queue' = {} /\ current' = Idle /\ now' = 0 /\ nagged' = {}
  /\ pending' = 0 /\ inbound' = FALSE /\ parked' = TRUE
  /\ UNCHANGED <<clock, lastId, calls, ghost, faults>>

\* recoverRunWake keeps the newest armed wake; start() arms the timer.
WakeRows == {id \in DOMAIN task : task[id].role = "wake" /\ ~task[id].done}
Armed    == {id \in WakeRows : task[id].payload = "armed"}
Newest   == IF Armed = {} THEN 0 ELSE CHOOSE id \in Armed : \A other \in Armed : other <= id
Boot ==
  /\ ~up /\ up' = TRUE
  /\ task' = [id \in DOMAIN task |->
                IF id \notin WakeRows \ {Newest} THEN task[id]
                ELSE [task[id] EXCEPT !.done = TRUE,
                                      !.payload = IF id \in Armed THEN "preempted" ELSE @]]
  /\ pending' = Newest
  /\ timer' = Rearmed(task')
  /\ UNCHANGED <<clock, lastId, calls, poll, inbound, parked, ghost, crashes, faults>>

Soon  == {clock, clock + 1}
Later == {clock + 1}
\* What update() is asked for.  A reminder keeps an interval: without one it
\* is due again at once.
Patches(id) ==
  {<<"next", at>> : at \in Soon} \cup {<<"snooze", until>> : until \in {0} \cup Later}
  \cup {<<"payload", "none">>} \cup {<<"nag", n>> : n \in {0, 1}}
  \cup {<<"interval", n>> : n \in IF task[id].kind = "reminder" THEN {1, 2} ELSE {0, 1}}

Schedules == \/ \E shape \in Shape, at \in Soon : create(shape, at)
             \/ \E id \in DOMAIN task : \/ markDoneByName(id) \/ delete(id)
                                        \/ \E until \in Later : snoozeByName(id, until)
                                        \/ \E p \in Patches(id) : update(id, p[1], p[2])
Polls == \/ BeginPoll \/ PollSettles \/ spawnNag \/ EndPoll
         \/ \E id \in queue : PollSkips(id) \/ WakeFails(id) \/ WakeThrows(id) \/ WakeTask(id)
                              \/ notifyRunWake(id)
Runs == ExternalInput \/ Drain \/ Park \/ \E delay \in WakeDelay : armRunWake(clock + delay)

Next == Tick \/ Schedules \/ Polls \/ Runs \/ Crash \/ Boot
Spec == Init /\ [][Next]_vars

-----------------------------------------------------------------------------
(* Properties.                                                             *)

Rows == [kind : Kind, role : {"user", "wake"}, payload : {"none", "armed", "preempted", "fired"},
         next : Nat \ {0}, interval : Nat, nag : Nat, parent : Nat, snooze : Nat, done : BOOLEAN]
TypeOK ==
  /\ clock \in Nat \ {0} /\ lastId \in 0..MaxTask /\ DOMAIN task \subseteq 1..lastId
  /\ \A id \in DOMAIN task : task[id] \in Rows
  /\ timer \in Nat /\ up \in BOOLEAN /\ queue \subseteq DOMAIN task
  /\ now \in 0..clock /\ step \in {"idle", "next", "settle", "spawn"}
  /\ step \in {"settle", "spawn"} => current.id \in DOMAIN task /\ current.row \in Rows
  /\ pending \in 0..lastId /\ inbound \in BOOLEAN /\ parked \in BOOLEAN
  /\ nagged \subseteq DOMAIN task /\ fired \in [Id -> 0..2] /\ acked \subseteq 0..MaxTask
  /\ crashes \in Nat

\* A run wake reaches the Agent at most once, also when the process dies
\* between recording "fired" and marking the task done.
WakeOnce == \A id \in DOMAIN task : task[id].role = "wake" => fired[id] <= 1

\* Between polls the timer is armed no later than the first task that can run,
\* so no task waits for an unrelated one (rearm()).
TimerCovers == (up /\ step = "idle") =>
  /\ timer # 0
  /\ \A id \in DOMAIN task : ~task[id].done => timer <= Max2(EffectiveAt(task[id]), clock)

\* As long as the process lives a reminder with a nag interval that has fired
\* has a nag under way until the caller ends it, although every nag is marked
\* done before the next is created and creating it can throw.
ReminderNags == (crashes = 0 /\ step = "idle") =>
  \A id \in DOMAIN task :
    task[id].nag > 0 /\ task[id].kind = "reminder" /\ fired[id] > 0 /\ id \notin acked
      => Children(task, id) # {}

=============================================================================

-------------------------- MODULE BgRegistryProofs --------------------------
(***************************************************************************)
(* JobToldOnce is not inductive: whether a job will be told again depends  *)
(* on the notified flag of its entry, in memory and in the file that the   *)
(* next process loads.  BgInv says that a job that was told carries the    *)
(* flag in both, and that jobs and futures are never taken for each other. *)
(***************************************************************************)
EXTENDS BgRegistry, TLAPS

\* The entries of a map say who is a job, and of whom the end was told.
Recorded(m) ==
  \A id \in DOMAIN m : process[id] # "none" =>
    m[id].kind = "job" /\ (told[id] > 0 => m[id].notified)

BgInv ==
  /\ TypeOK /\ JobToldOnce
  /\ \A id \in Id : id > last => told[id] = 0 /\ process[id] = "none"
  /\ Recorded(mem) /\ Recorded(disk)
  /\ \A id \in promise : /\ process[id] = "none"
                         /\ id \in DOMAIN mem => mem[id].kind = "future"
  /\ phase = "down" => timers = {} /\ promise = {}

-----------------------------------------------------------------------------
(* What the shared operations return.                                      *)

\* saveRegistry writes entries of the map it is given, unchanged.
LEMMA SavedIs ==
  ASSUME NEW m
  PROVE  /\ DOMAIN Saved(m) \subseteq DOMAIN m
         /\ \A id \in DOMAIN Saved(m) : Saved(m)[id] = m[id]
BY DEF Saved, Only, Newest

\* A finished entry keeps its kind and its flag, and has the flag when it is told.
LEMMA FinishedIs ==
  ASSUME NEW e \in Entries, active \in BOOLEAN
  PROVE  /\ Finished(e) \in Entries /\ Finished(e).kind = e.kind /\ ~Finished(e).running
         /\ e.notified => Finished(e).notified
         /\ active /\ ~e.finished => Finished(e).notified
BY Zenon DEF Finished, Entries

\* A notice counts for those it is about.
LEMMA TellIs ==
  ASSUME TypeOK, NEW ids \in SUBSET Id, NEW notice \in {"settled", "abandoned", "running"},
         Tell(ids, notice)
  PROVE  /\ heard' \in [Id -> {"none", "running", "settled", "abandoned"}]
         /\ told' \in [Id -> 0..2]
         /\ \A id \in Id \ ids : told'[id] = told[id]
         /\ \A id \in ids : told[id] = 0 => told'[id] \in {0, 1}
         /\ notice = "running" => told' = told
BY DEF TypeOK, Tell

\* Reaping removes entries and ends futures; no job that runs is dropped.
LEMMA ReapedIs ==
  ASSUME NEW m, \A id \in DOMAIN m : m[id] \in Entries
  PROVE  /\ DOMAIN Reaped(m) \subseteq DOMAIN m
         /\ \A id \in DOMAIN m : m[id].kind = "job" /\ m[id].running => id \in DOMAIN Reaped(m)
         /\ \A id \in DOMAIN Reaped(m) :
              /\ Reaped(m)[id] \in Entries /\ Reaped(m)[id].kind = m[id].kind
              /\ Reaped(m)[id].notified = m[id].notified
              /\ m[id].kind = "job" => Reaped(m)[id] = m[id]
<1> DEFINE d == Dropped(m)
<1>1. /\ DOMAIN d = DOMAIN m
      /\ \A id \in DOMAIN m : /\ d[id] \in Entries /\ d[id].kind = m[id].kind
                              /\ d[id].notified = m[id].notified
                              /\ m[id].kind = "job" => d[id] = m[id]
  BY ZenonT(30) DEF Dropped, Abandoned, Entries
<1> HIDE DEF d
<1>2. /\ DOMAIN Capped(d) \subseteq DOMAIN d
      /\ \A id \in DOMAIN Capped(d) : Capped(d)[id] = d[id]
      /\ \A id \in DOMAIN d : d[id].running => id \in DOMAIN Capped(d)
  BY DEF Capped, Only, Oldest
<1>3. Reaped(m) = Capped(d)
  BY Zenon DEF Reaped, d
<1> QED
  BY <1>1, <1>2, <1>3

-----------------------------------------------------------------------------
(* One lemma per kind of step.                                             *)

\* A step that makes no entry keeps BgInv when flags are never taken back and
\* whoever is told is unflagged before and flagged after, in both maps.
LEMMA Keeps ==
  ASSUME BgInv, TypeOK', last' = last, promise' \subseteq promise,
         phase' = "down" => timers' = {} /\ promise' = {},
         \A id \in Id : process'[id] = "none" <=> process[id] = "none",
         \A id \in DOMAIN mem' : /\ id \in DOMAIN mem /\ mem'[id].kind = mem[id].kind
                                 /\ mem[id].notified => mem'[id].notified,
         \A id \in DOMAIN disk' :
           \/ /\ id \in DOMAIN disk /\ disk'[id] = disk[id]
              /\ process[id] # "none" => told'[id] = told[id]
           \/ /\ id \in DOMAIN mem /\ disk'[id].kind = mem[id].kind
              /\ mem[id].notified => disk'[id].notified
              /\ process[id] # "none" /\ told'[id] # told[id] => disk'[id].notified,
         \A id \in Id : process[id] # "none" =>
           \/ told'[id] = told[id]
           \/ told[id] = 0 /\ told'[id] \in {0, 1} /\ (id \in DOMAIN mem' => mem'[id].notified),
         \A id \in Id : id > last => told'[id] = told[id]
  PROVE  BgInv'
<1>1. /\ told \in [Id -> 0..2] /\ last \in 0..MaxId /\ promise \subseteq Id
      /\ DOMAIN mem \subseteq Id /\ DOMAIN disk \subseteq Id
      /\ DOMAIN mem' \subseteq Id /\ DOMAIN disk' \subseteq Id
  BY BgAssumption DEF BgInv, TypeOK, Id
<1>2. JobToldOnce'
  BY <1>1 DEF BgInv, JobToldOnce
<1>3. \A id \in Id : id > last' => told'[id] = 0 /\ process'[id] = "none"
  BY Zenon DEF BgInv
<1>4. Recorded(mem)'
  BY <1>1 DEF BgInv, Recorded
<1>5. Recorded(disk)'
  BY <1>1 DEF BgInv, Recorded
<1>6. \A id \in promise' : /\ process'[id] = "none"
                           /\ id \in DOMAIN mem' => mem'[id].kind = "future"
  BY <1>1, Zenon DEF BgInv
<1> QED
  BY <1>2, <1>3, <1>4, <1>5, <1>6, Zenon DEF BgInv

\* finishJob, whoever calls it.
LEMMA FinishInv ==
  ASSUME BgInv, NEW id \in DOMAIN mem, NEW e \in Entries, finishJob(id, e),
         e.kind = mem[id].kind, e.finished = mem[id].finished, e.notified = mem[id].notified,
         watched' \subseteq watched, process' \in [Id -> {"none", "alive", "signalled", "dead"}],
         \A i \in Id : process'[i] = "none" <=> process[i] = "none",
         phase # "down", UNCHANGED <<last, promise, expired, phase, active, graph, crashes>>
  PROVE  BgInv'
<1> DEFINE f == Finished(e)
<1>1. /\ f \in Entries /\ f.kind = mem[id].kind /\ ~f.running
      /\ mem[id].notified => f.notified
      /\ FinishTells(id) => f.notified /\ ~mem[id].notified
  BY FinishedIs DEF BgInv, TypeOK, FinishTells
<1>2. /\ mem' = [mem EXCEPT ![id] = f] /\ disk' = Saved(mem') /\ timers' = timers \ {id}
  BY Zenon DEF finishJob
<1> HIDE DEF f
<1>3. /\ DOMAIN mem' = DOMAIN mem /\ mem'[id] = f
      /\ \A i \in DOMAIN mem : i # id => mem'[i] = mem[i]
      /\ DOMAIN disk' \subseteq DOMAIN mem /\ \A i \in DOMAIN disk' : disk'[i] = mem'[i]
  <2>1. /\ DOMAIN mem' = DOMAIN mem /\ mem'[id] = f
        /\ \A i \in DOMAIN mem : i # id => mem'[i] = mem[i]
    BY <1>2, Zenon
  <2> QED
    BY <1>2, <2>1, SavedIs, Zenon
<1>4. /\ heard' \in [Id -> {"none", "running", "settled", "abandoned"}]
      /\ told' \in [Id -> 0..2]
      /\ \A i \in Id \ {id} : told'[i] = told[i]
      /\ told'[id] = told[id] \/ (FinishTells(id) /\ (told[id] = 0 => told'[id] \in {0, 1}))
  <2>1. id \in Id /\ TypeOK
    BY BgAssumption DEF BgInv, TypeOK, Id
  <2>2. CASE FinishTells(id)
    BY <2>1, <2>2, TellIs DEF finishJob
  <2>3. CASE ~FinishTells(id)
    BY <2>1, <2>3, Zenon DEF finishJob, Silent, ghost, TypeOK
  <2> QED
    BY <2>2, <2>3, Zenon
<1>5. TypeOK'
  <2>1. \A i \in timers' : i \in DOMAIN mem' /\ Job(i)' /\ mem'[i].running
    BY <1>2, <1>3, Zenon DEF BgInv, TypeOK, Job
  <2>2. (\A i \in DOMAIN mem' : mem'[i] \in Entries) /\ (\A i \in DOMAIN disk' : disk'[i] \in Entries)
    BY <1>1, <1>3 DEF BgInv, TypeOK
  <2> QED
    BY <1>3, <1>4, <2>1, <2>2 DEF BgInv, TypeOK
<1>6. \A i \in Id : process[i] # "none" =>
        \/ told'[i] = told[i]
        \/ told[i] = 0 /\ told'[i] \in {0, 1} /\ i = id /\ mem'[i].notified
  BY <1>1, <1>3, <1>4 DEF BgInv, TypeOK, Recorded
<1>7. \A i \in DOMAIN mem' : /\ i \in DOMAIN mem /\ mem'[i].kind = mem[i].kind
                             /\ mem[i].notified => mem'[i].notified
  BY <1>1, <1>3, Zenon
<1>8. DOMAIN mem \subseteq Id /\ id \in Id
  BY BgAssumption DEF BgInv, TypeOK, Id
<1>9. \A i \in DOMAIN disk' :
        /\ i \in DOMAIN mem /\ disk'[i].kind = mem[i].kind
        /\ mem[i].notified => disk'[i].notified
        /\ process[i] # "none" /\ told'[i] # told[i] => disk'[i].notified
  BY <1>3, <1>6, <1>7, <1>8, Zenon
<1>10. \A i \in Id : i > last => told'[i] = told[i]
  BY <1>4 DEF BgInv, TypeOK
<1> QED
  BY <1>5, <1>6, <1>7, <1>9, <1>10, Keeps, Zenon

\* Steps that tell nothing and change no entry: at most the map is saved again.
LEMMA QuietInv ==
  ASSUME BgInv, TypeOK', UNCHANGED <<mem, last, told>>, disk' \in {disk, Saved(mem)},
         promise' \subseteq promise, phase' = "down" => timers' = {} /\ promise' = {},
         \A id \in Id : process'[id] = "none" <=> process[id] = "none"
  PROVE  BgInv'
<1>1. \A id \in DOMAIN disk' :
        \/ id \in DOMAIN disk /\ disk'[id] = disk[id]
        \/ id \in DOMAIN mem /\ disk'[id] = mem[id]
  BY SavedIs, Zenon
<1>2. \A id \in DOMAIN disk' :
        \/ id \in DOMAIN disk /\ disk'[id] = disk[id] /\ told'[id] = told[id]
        \/ /\ id \in DOMAIN mem /\ disk'[id].kind = mem[id].kind
           /\ mem[id].notified => disk'[id].notified
           /\ process[id] # "none" /\ told'[id] # told[id] => disk'[id].notified
  BY <1>1, Zenon
<1> QED
  BY <1>2, Keeps, Zenon

\* A new entry, of a job or of a future, has an id nobody has been told of.
LEMMA NewInv ==
  ASSUME BgInv, NEW e \in Entries, NEW id, id = last + 1, last < MaxId, phase # "down",
         last' = id, mem' = Put(mem, id, e), disk' = Saved(mem'),
         UNCHANGED <<expired, phase, active, graph, ghost>>,
         process' \in [Id -> {"none", "alive", "signalled", "dead"}],
         \A i \in Id : i # id => process'[i] = process[i],
         watched' \subseteq watched \cup {id},
         process'[id] # "none" => e.kind = "job",
         \/ promise' = promise
         \/ promise' = promise \cup {id} /\ e.kind = "future",
         timers' = timers \/ (timers' = timers \cup {id} /\ e.kind = "job" /\ e.running)
  PROVE  BgInv'
<1>1. /\ last \in 0..MaxId /\ id \in Id /\ id \notin DOMAIN mem /\ id \notin DOMAIN disk
      /\ id \notin promise /\ id \notin timers /\ last' \in 0..MaxId /\ 1..last \subseteq 1..last'
      /\ id \in 1..last' /\ 1..last \subseteq Id
  BY BgAssumption DEF BgInv, TypeOK, Id
<1>2. /\ DOMAIN mem' = DOMAIN mem \cup {id} /\ mem'[id] = e
      /\ \A i \in DOMAIN mem : mem'[i] = mem[i]
  BY <1>1, Zenon DEF Put
<1>3. DOMAIN disk' \subseteq DOMAIN mem' /\ \A i \in DOMAIN disk' : disk'[i] = mem'[i]
  BY SavedIs
<1>4. TypeOK'
  <2>1. \A i \in timers' : i \in DOMAIN mem' /\ Job(i)' /\ mem'[i].running
    BY <1>1, <1>2 DEF BgInv, TypeOK, Job
  <2>2. (\A i \in DOMAIN mem' : mem'[i] \in Entries) /\ (\A i \in DOMAIN disk' : disk'[i] \in Entries)
    BY <1>2, <1>3 DEF BgInv, TypeOK
  <2>3. /\ DOMAIN mem' \subseteq 1..last' /\ DOMAIN disk' \subseteq 1..last'
        /\ watched' \subseteq 1..last' /\ promise' \subseteq 1..last' /\ expired' \subseteq 1..last'
    <3>1. /\ DOMAIN mem \subseteq 1..last /\ watched \subseteq 1..last /\ promise \subseteq 1..last
          /\ expired \subseteq 1..last
      BY Zenon DEF BgInv, TypeOK
    <3>2. DOMAIN mem' \subseteq 1..last' /\ watched' \subseteq 1..last'
      BY <1>1, <1>2, <3>1, Zenon
    <3>3. promise' \subseteq 1..last' /\ expired' \subseteq 1..last'
      BY <1>1, <3>1, Zenon
    <3> QED
      BY <1>3, <3>2, <3>3, Zenon
  <2> QED
    BY <1>1, <2>1, <2>2, <2>3, Zenon DEF BgInv, TypeOK, ghost
<1>5. told[id] = 0 /\ process[id] = "none" /\ told' = told
  BY <1>1 DEF BgInv, TypeOK, ghost
<1>6. JobToldOnce'
  BY <1>5 DEF BgInv, JobToldOnce
<1>7. \A i \in Id : i > last' => told'[i] = 0 /\ process'[i] = "none"
  BY <1>1, <1>5 DEF BgInv
<1>8. Recorded(mem)'
  BY <1>1, <1>2, <1>5 DEF BgInv, TypeOK, Recorded
<1>9. Recorded(disk)'
  BY <1>3, <1>8 DEF Recorded
<1>10. \A i \in promise' : /\ process'[i] = "none"
                           /\ i \in DOMAIN mem' => mem'[i].kind = "future"
  <2>1. ASSUME NEW i \in promise, i # id
        PROVE  process'[i] = "none" /\ (i \in DOMAIN mem' => mem'[i].kind = "future")
    BY <1>1, <1>2, <2>1 DEF BgInv, TypeOK
  <2>2. id \in promise' => process'[id] = "none" /\ mem'[id].kind = "future"
    BY <1>1, <1>2, Zenon
  <2> QED
    BY <1>1, <2>1, <2>2, Zenon
<1> QED
  BY <1>4, <1>6, <1>7, <1>8, <1>9, <1>10, Zenon DEF BgInv

\* What the end of futures leaves of an entry.
Like(f, e) == /\ f \in Entries /\ f.kind = e.kind /\ f.notified = e.notified
              /\ e.kind = "job" => f = e

\* Steps of futures: no job is changed, or dropped while it runs.
LEMMA FuturesInv ==
  ASSUME BgInv, phase # "down", promise' \subseteq promise,
         UNCHANGED <<last, process, watched, timers, expired, phase, active, graph>>,
         DOMAIN mem' \subseteq DOMAIN mem,
         \A id \in DOMAIN mem : mem[id].kind = "job" /\ mem[id].running => id \in DOMAIN mem',
         \A id \in DOMAIN mem' : Like(mem'[id], mem[id]),
         \A id \in DOMAIN disk' :
           \/ id \in DOMAIN disk /\ disk'[id] = disk[id]
           \/ id \in DOMAIN mem /\ Like(disk'[id], mem[id]),
         heard' \in [Id -> {"none", "running", "settled", "abandoned"}],
         told' \in [Id -> 0..2],
         \A id \in Id : told'[id] # told[id] => process[id] = "none" /\ id <= last
  PROVE  BgInv'
<1>1. TypeOK'
  <2>1. \A i \in timers' : i \in DOMAIN mem' /\ Job(i)' /\ mem'[i].running
    BY DEF BgInv, TypeOK, Job, Like
  <2>2. (\A i \in DOMAIN mem' : mem'[i] \in Entries) /\ (\A i \in DOMAIN disk' : disk'[i] \in Entries)
    BY Zenon DEF BgInv, TypeOK, Like
  <2>3. DOMAIN mem' \subseteq 1..last' /\ DOMAIN disk' \subseteq 1..last' /\ promise' \subseteq 1..last'
    BY Zenon DEF BgInv, TypeOK
  <2> QED
    BY <2>1, <2>2, <2>3, Zenon DEF BgInv, TypeOK
<1>2. \A id \in Id : id > last => told'[id] = told[id]
  BY DEF BgInv, TypeOK, Id
<1>3. DOMAIN mem \subseteq Id /\ DOMAIN disk \subseteq Id
  BY BgAssumption DEF BgInv, TypeOK, Id
<1>4. \A id \in DOMAIN mem' : /\ id \in DOMAIN mem /\ mem'[id].kind = mem[id].kind
                              /\ mem[id].notified => mem'[id].notified
  BY Zenon DEF Like
<1>5. \A id \in DOMAIN disk' :
        \/ /\ id \in DOMAIN disk /\ disk'[id] = disk[id]
           /\ process[id] # "none" => told'[id] = told[id]
        \/ /\ id \in DOMAIN mem /\ disk'[id].kind = mem[id].kind
           /\ mem[id].notified => disk'[id].notified
           /\ process[id] # "none" /\ told'[id] # told[id] => disk'[id].notified
  BY <1>3, Zenon DEF Like
<1>6. \A id \in Id : process[id] # "none" => told'[id] = told[id]
  BY Zenon
<1>7. phase' = "down" => timers' = {} /\ promise' = {}
  BY Zenon
<1>8. \A id \in Id : process'[id] = "none" <=> process[id] = "none"
  BY Zenon
<1> QED
  BY <1>1, <1>2, <1>4, <1>5, <1>6, <1>7, <1>8, Keeps, Zenon

\* reapAbandoned() by itself.
LEMMA ReapInv == ASSUME BgInv, reapAbandoned PROVE BgInv'
<1>1. \A id \in DOMAIN mem : mem[id] \in Entries
  BY Zenon DEF BgInv, TypeOK
<1>2. /\ mem' = Reaped(mem) /\ disk' \in {disk, Saved(Reaped(mem))}
      /\ Tell(Abandoned(mem), "abandoned") /\ phase # "down"
      /\ UNCHANGED <<last, process, watched, timers, promise, expired, phase, active, graph>>
  BY DEF reapAbandoned, os, live, Calls
<1>3. Abandoned(mem) \in SUBSET Id
      /\ \A id \in Abandoned(mem) : process[id] = "none" /\ id <= last
  BY BgAssumption DEF BgInv, TypeOK, Id, Abandoned, Recorded
<1>4. /\ heard' \in [Id -> {"none", "running", "settled", "abandoned"}]
      /\ told' \in [Id -> 0..2]
      /\ \A id \in Id \ Abandoned(mem) : told'[id] = told[id]
  BY <1>2, <1>3, TellIs, Zenon DEF BgInv
<1>5. \A id \in DOMAIN mem' : id \in DOMAIN mem /\ Like(mem'[id], mem[id])
  BY <1>1, <1>2, ReapedIs, Zenon DEF Like
<1>6. \A id \in DOMAIN mem : mem[id].kind = "job" /\ mem[id].running => id \in DOMAIN mem'
  BY <1>1, <1>2, ReapedIs, Zenon
<1>7. \A id \in DOMAIN disk' :
        \/ id \in DOMAIN disk /\ disk'[id] = disk[id]
        \/ id \in DOMAIN mem /\ Like(disk'[id], mem[id])
  BY <1>2, <1>5, SavedIs, Zenon
<1>8. \A id \in Id : told'[id] # told[id] => process[id] = "none" /\ id <= last
  BY <1>3, <1>4, Zenon
<1> QED
  BY <1>2, <1>4, <1>5, <1>6, <1>7, <1>8, FuturesInv, Zenon

\* A future's promise settles.
LEMMA SettleInv == ASSUME BgInv, NEW id \in Id, PromiseSettles(id) PROVE BgInv'
<1>1. /\ id \in promise /\ promise' = promise \ {id} /\ phase # "down"
      /\ UNCHANGED <<last, process, watched, timers, expired, phase, active, graph>>
  BY DEF PromiseSettles, Calls, os
<1>2. CASE ~Settles(id)
  <2>1. UNCHANGED <<mem, disk, heard, told>>
    BY <1>2, Zenon DEF PromiseSettles, ghost
  <2>2. TypeOK'
    BY <1>1, <2>1, Zenon DEF BgInv, TypeOK, Job
  <2> QED
    BY <1>1, <2>1, <2>2, QuietInv, Zenon DEF BgInv
<1>3. CASE Settles(id)
  <2> DEFINE m == [mem EXCEPT ![id].running = FALSE, ![id].value = "settled"]
             n == [i \in Abandoned(m) \cup {id} |-> IF i = id THEN "settled" ELSE "abandoned"]
  <2>1. /\ mem' = Reaped(m) /\ disk' \in {Saved(Reaped(m)), Saved(m)}
        /\ heard' = [i \in Id |-> IF i \in DOMAIN n THEN n[i] ELSE heard[i]]
        /\ told' = [i \in Id |-> IF i \notin DOMAIN n THEN told[i] ELSE IF told[i] = 0 THEN 1 ELSE 2]
    BY <1>3, Zenon DEF PromiseSettles
  <2>2. id \in DOMAIN mem /\ mem[id] \in Entries /\ mem[id].kind = "future" /\ process[id] = "none"
    BY <1>1, <1>3, Zenon DEF Settles, BgInv, TypeOK
  <2>3. DOMAIN m = DOMAIN mem /\ \A i \in DOMAIN mem : Like(m[i], mem[i])
    <3>1. \A i \in DOMAIN mem : mem[i] \in Entries
      BY Zenon DEF BgInv, TypeOK
    <3> QED
      BY <2>2, <3>1, ZenonT(30) DEF Like, Entries
  <2>4. \A i \in Abandoned(m) : i \in DOMAIN m /\ m[i].kind = "future"
    BY Zenon DEF Abandoned
  <2>5. /\ DOMAIN n = Abandoned(m) \cup {id}
        /\ \A i \in DOMAIN n : n[i] \in {"settled", "abandoned"}
    BY Zenon
  <2> HIDE DEF m, n
  <2>6. \A i \in DOMAIN n : i \in Id /\ process[i] = "none" /\ i <= last
    <3>1. \A i \in DOMAIN mem : i \in Id /\ i <= last
      BY BgAssumption DEF BgInv, TypeOK, Id
    <3>2. \A i \in DOMAIN mem : mem[i].kind = "future" => process[i] = "none"
      BY Zenon DEF BgInv, Recorded
    <3>3. \A i \in Abandoned(m) : i \in DOMAIN mem /\ mem[i].kind = "future"
      BY <2>3, <2>4, Zenon DEF Like
    <3> QED
      BY <2>2, <2>5, <3>1, <3>2, <3>3, Zenon
  <2>7. /\ heard' \in [Id -> {"none", "running", "settled", "abandoned"}]
        /\ told' \in [Id -> 0..2]
        /\ \A i \in Id : told'[i] # told[i] => process[i] = "none" /\ i <= last
    BY <2>1, <2>5, <2>6 DEF BgInv, TypeOK
  <2>8. /\ \A i \in DOMAIN mem' : i \in DOMAIN mem /\ Like(mem'[i], mem[i])
        /\ \A i \in DOMAIN mem : mem[i].kind = "job" /\ mem[i].running => i \in DOMAIN mem'
    BY <2>1, <2>3, ReapedIs DEF Like
  <2>9. \A i \in DOMAIN disk' : i \in DOMAIN mem /\ Like(disk'[i], mem[i])
    BY <2>1, <2>3, <2>8, SavedIs, Zenon
  <2> QED
    BY <1>1, <2>7, <2>8, <2>9, FuturesInv, Zenon
<1> QED
  BY <1>2, <1>3, Zenon

\* cancel() of a future.
LEMMA CancelFutureInv == ASSUME BgInv, NEW id \in Id, cancelFuture(id) PROVE BgInv'
<1>1. /\ id \in DOMAIN mem /\ mem[id].kind = "future" /\ phase # "down"
      /\ mem' = [mem EXCEPT ![id].running = FALSE, ![id].cancelled = TRUE] /\ disk' = Saved(mem')
      /\ UNCHANGED <<last, process, watched, timers, promise, expired, phase, active, graph, heard, told>>
  BY DEF cancelFuture, Calls, os, live, ghost
<1>2. \A i \in DOMAIN mem : mem[i] \in Entries
  BY Zenon DEF BgInv, TypeOK
<1>3. DOMAIN mem' = DOMAIN mem /\ \A i \in DOMAIN mem : Like(mem'[i], mem[i])
  BY <1>1, <1>2, ZenonT(30) DEF Like, Entries
<1>4. \A i \in DOMAIN disk' : i \in DOMAIN mem /\ Like(disk'[i], mem[i])
  <2>1. /\ DOMAIN Saved(mem') \subseteq DOMAIN mem'
        /\ \A i \in DOMAIN Saved(mem') : Saved(mem')[i] = mem'[i]
    BY SavedIs, Zenon
  <2> QED
    BY <1>1, <1>3, <2>1, Zenon
<1>5. /\ heard' \in [Id -> {"none", "running", "settled", "abandoned"}] /\ told' \in [Id -> 0..2]
  BY <1>1, Zenon DEF BgInv, TypeOK
<1> QED
  BY <1>1, <1>3, <1>4, <1>5, FuturesInv, Zenon

\* activate(): whoever is told is flagged in memory and in the file.
LEMMA ActivateInv == ASSUME BgInv, activate PROVE BgInv'
<1>1. /\ phase' = "up" /\ Tell(Owed, "settled")
      /\ timers' = {id \in DOMAIN mem \ Died : Job(id) /\ mem[id].running}
      /\ active' = TRUE
      /\ disk' = IF Died \cup Owed # {} THEN Saved(mem') ELSE disk
      /\ mem' = [id \in DOMAIN mem |->
                   [mem[id] EXCEPT !.running = @ /\ id \notin Died, !.finished = @ \/ id \in Died,
                                   !.notified = @ \/ id \in Owed]]
      /\ UNCHANGED <<last, process, watched, promise, expired, graph>>
  BY Zenon DEF activate, os
<1>2. \A id \in DOMAIN mem : mem[id] \in Entries
  BY Zenon DEF BgInv, TypeOK
<1>3. \A id \in Owed : id \in DOMAIN mem /\ ~mem[id].notified
  BY Zenon DEF Owed, Died
<1>4. /\ DOMAIN mem' = DOMAIN mem
      /\ \A id \in DOMAIN mem :
           /\ mem'[id] \in Entries /\ mem'[id].kind = mem[id].kind
           /\ mem'[id].notified <=> mem[id].notified \/ id \in Owed
           /\ mem'[id].running <=> mem[id].running /\ id \notin Died
  BY <1>1, <1>2, ZenonT(30) DEF Entries
<1>5. /\ Owed \in SUBSET Id /\ DOMAIN mem \subseteq Id /\ \A id \in DOMAIN mem : id <= last
  BY <1>3, BgAssumption DEF BgInv, TypeOK, Id
<1>6. /\ heard' \in [Id -> {"none", "running", "settled", "abandoned"}]
      /\ told' \in [Id -> 0..2]
      /\ \A id \in Id \ Owed : told'[id] = told[id]
      /\ \A id \in Owed : told[id] = 0 => told'[id] \in {0, 1}
  BY <1>1, <1>5, TellIs, Zenon DEF BgInv
<1>7. \A id \in Owed : process[id] # "none" => told[id] = 0
  BY <1>3, <1>5 DEF BgInv, TypeOK, Recorded
<1>8. \A id \in DOMAIN disk' :
        \/ id \in DOMAIN disk /\ disk'[id] = disk[id] /\ Owed = {}
        \/ id \in DOMAIN mem /\ disk'[id] = mem'[id]
  <2>1. /\ DOMAIN Saved(mem') \subseteq DOMAIN mem'
        /\ \A i \in DOMAIN Saved(mem') : Saved(mem')[i] = mem'[i]
    BY SavedIs, Zenon
  <2>2. CASE Died \cup Owed = {}
    BY <1>1, <2>2, Zenon
  <2>3. CASE Died \cup Owed # {}
    BY <1>1, <1>4, <2>1, <2>3, Zenon
  <2> QED
    BY <2>2, <2>3, Zenon
<1>9. TypeOK'
  <2>1. \A i \in timers' : i \in DOMAIN mem' /\ Job(i)' /\ mem'[i].running
    BY <1>1, <1>4, Zenon DEF Job
  <2>2. \A i \in DOMAIN disk' : disk'[i] \in Entries /\ i \in 1..last
    BY <1>4, <1>8, Zenon DEF BgInv, TypeOK
  <2> QED
    BY <1>1, <1>4, <1>6, <2>1, <2>2, Zenon DEF BgInv, TypeOK
<1>10. \A id \in DOMAIN disk' :
        \/ /\ id \in DOMAIN disk /\ disk'[id] = disk[id]
           /\ process[id] # "none" => told'[id] = told[id]
        \/ /\ id \in DOMAIN mem /\ disk'[id].kind = mem[id].kind
           /\ mem[id].notified => disk'[id].notified
           /\ process[id] # "none" /\ told'[id] # told[id] => disk'[id].notified
  <2>1. DOMAIN disk \subseteq Id
    BY BgAssumption DEF BgInv, TypeOK, Id
  <2> QED
    BY <1>4, <1>5, <1>6, <1>8, <2>1, Zenon
<1>11. \A id \in Id : process[id] # "none" =>
         \/ told'[id] = told[id]
         \/ told[id] = 0 /\ told'[id] \in {0, 1} /\ (id \in DOMAIN mem' => mem'[id].notified)
  BY <1>3, <1>4, <1>6, <1>7, Zenon
<1>12. \A id \in Id : id > last => told'[id] = told[id]
  BY <1>3, <1>5, <1>6 DEF BgInv, TypeOK, Id
<1> QED
  BY <1>1, <1>4, <1>9, <1>10, <1>11, <1>12, Keeps, Zenon

\* The process dies: what it leaves is the file.
LEMMA CrashInv == ASSUME BgInv, Crash PROVE BgInv'
<1>1. /\ phase' = "down" /\ active' = FALSE /\ mem' = <<>> /\ watched' = {} /\ timers' = {}
      /\ promise' = {} /\ expired' = {} /\ UNCHANGED <<disk, last, process, graph, heard, told>>
  BY Zenon DEF Crash, os, ghost
<1>2. DOMAIN mem' = {}
  BY <1>1
<1>3. TypeOK'
  BY <1>1, <1>2, Zenon DEF BgInv, TypeOK
<1> QED
  BY <1>1, <1>2, <1>3, Zenon DEF BgInv, Recorded, JobToldOnce

\* loadRegistry takes no flag back.
LEMMA LoadInv == ASSUME BgInv, Load PROVE BgInv'
<1>1. /\ phase = "down" /\ phase' = "loaded" /\ graph' \in {graph, "active"}
      /\ mem' = [id \in DOMAIN disk |-> Loaded(id, disk[id])]
      /\ UNCHANGED <<disk, last, process, watched, timers, promise, expired, active, heard, told>>
  BY Zenon DEF Load, os, ghost
<1>2. timers = {} /\ promise = {}
  BY <1>1, Zenon DEF BgInv
<1>3. \A id \in DOMAIN disk : disk[id] \in Entries
  BY Zenon DEF BgInv, TypeOK
<1>4. \A id \in Id : Alive(id) \in BOOLEAN
  BY DEF Alive
<1>5. DOMAIN disk \subseteq Id
  BY BgAssumption DEF BgInv, TypeOK, Id
<1>6. \A id \in DOMAIN disk : /\ Loaded(id, disk[id]) \in Entries
                              /\ Loaded(id, disk[id]).kind = disk[id].kind
                              /\ disk[id].notified => Loaded(id, disk[id]).notified
  <2> SUFFICES ASSUME NEW id \in DOMAIN disk, NEW e \in Entries, Alive(id) \in BOOLEAN
               PROVE  /\ Loaded(id, e) \in Entries /\ Loaded(id, e).kind = e.kind
                      /\ e.notified => Loaded(id, e).notified
    BY <1>3, <1>4, <1>5, Zenon
  <2>1. CASE e.kind = "future"
    BY <2>1, Zenon DEF Loaded, Entries
  <2>2. CASE e.kind # "future" /\ ~e.pid
    BY <2>2, Zenon DEF Loaded
  <2>3. CASE e.kind # "future" /\ e.pid
    BY <2>3, Zenon DEF Loaded, Entries
  <2> QED
    BY <2>1, <2>2, <2>3, Zenon
<1>7. TypeOK'
  BY <1>1, <1>2, <1>6, Zenon DEF BgInv, TypeOK
<1>8. Recorded(mem)'
  BY <1>1, <1>6, Zenon DEF BgInv, Recorded
<1> QED
  BY <1>1, <1>2, <1>7, <1>8, Zenon DEF BgInv, Recorded, JobToldOnce

-----------------------------------------------------------------------------
(* The actions.                                                            *)

\* start().
LEMMA StartInv == ASSUME BgInv, NEW spawned \in BOOLEAN, start(spawned) PROVE BgInv'
<1>1. PICK id : id = last + 1
  OBVIOUS
<1> DEFINE e == Entry("job", spawned)
<1>2. /\ phase = "up" /\ last < MaxId /\ last' = id /\ mem' = Put(mem, id, e) /\ disk' = Saved(mem')
      /\ process' = [process EXCEPT ![id] = IF spawned THEN "alive" ELSE "none"]
      /\ watched' = watched \cup {id}
      /\ timers' = IF active THEN timers \cup {id} ELSE timers
      /\ UNCHANGED <<promise, expired, phase, active, graph, ghost>>
  BY <1>1, Zenon DEF start, Calls
<1>3. e \in Entries /\ e.kind = "job" /\ e.running
  BY DEF Entry, Entries
<1> HIDE DEF e
<1>4. process \in [Id -> {"none", "alive", "signalled", "dead"}]
  BY Zenon DEF BgInv, TypeOK
<1>5. /\ process' \in [Id -> {"none", "alive", "signalled", "dead"}]
      /\ \A i \in Id : i # id => process'[i] = process[i]
  BY <1>2, <1>4, Zenon
<1>6. phase # "down" /\ watched' \subseteq watched \cup {id} /\ promise' = promise
      /\ UNCHANGED <<expired, phase, active, graph, ghost>>
      /\ (timers' = timers \/ (timers' = timers \cup {id} /\ e.kind = "job" /\ e.running))
  BY <1>2, <1>3, Zenon
<1> QED
  BY <1>1, <1>2, <1>3, <1>5, <1>6, NewInv, Zenon

\* registerFuture().
LEMMA RegisterInv == ASSUME BgInv, registerFuture PROVE BgInv'
<1>1. PICK id : id = last + 1
  OBVIOUS
<1> DEFINE e == Entry("future", FALSE)
<1>2. /\ phase = "up" /\ last < MaxId /\ last' = id /\ mem' = Put(mem, id, e) /\ disk' = Saved(mem')
      /\ promise' = promise \cup {id}
      /\ UNCHANGED <<process, watched, timers, expired, phase, active, graph, ghost>>
  BY <1>1, Zenon DEF registerFuture, Calls, os
<1>3. e \in Entries /\ e.kind = "future"
  BY DEF Entry, Entries
<1> HIDE DEF e
<1>4. process \in [Id -> {"none", "alive", "signalled", "dead"}]
  BY Zenon DEF BgInv, TypeOK
<1>5. id \in Id /\ process[id] = "none"
  BY <1>1, <1>2, BgAssumption DEF BgInv, TypeOK, Id
<1>6. /\ process' \in [Id -> {"none", "alive", "signalled", "dead"}]
      /\ \A i \in Id : i # id => process'[i] = process[i]
      /\ process'[id] # "none" => e.kind = "job"
      /\ phase # "down" /\ watched' \subseteq watched \cup {id} /\ timers' = timers
      /\ UNCHANGED <<expired, phase, active, graph, ghost>>
  BY <1>2, <1>4, <1>5, Zenon
<1> QED
  BY <1>1, <1>2, <1>3, <1>6, NewInv, Zenon

\* The exit event, a probe and the nudge timer finish an entry as it stands.
LEMMA EndsInv ==
  ASSUME BgInv, NEW id \in DOMAIN mem, finishJob(id, mem[id]), phase # "down",
         watched' \subseteq watched, UNCHANGED <<last, process, promise, expired, phase, active, graph, crashes>>
  PROVE  BgInv'
<1>1. /\ mem[id] \in Entries /\ process \in [Id -> {"none", "alive", "signalled", "dead"}]
  BY Zenon DEF BgInv, TypeOK
<1>2. /\ process' \in [Id -> {"none", "alive", "signalled", "dead"}]
      /\ \A i \in Id : process'[i] = "none" <=> process[i] = "none"
      /\ UNCHANGED <<last, promise, expired, phase, active, graph, crashes>>
  BY <1>1, Zenon
<1> QED
  BY <1>1, <1>2, FinishInv, Zenon

\* cancel() of a job: a process that was started stays one that was started.
LEMMA CancelJobInv == ASSUME BgInv, NEW id \in Id, cancelJob(id) PROVE BgInv'
<1>1. /\ phase = "up" /\ id \in DOMAIN mem
      /\ UNCHANGED <<last, watched, promise, expired, phase, active, graph, crashes>>
      /\ IF mem[id].pid
         THEN /\ finishJob(id, [mem[id] EXCEPT !.cancelled = TRUE])
              /\ process' = [process EXCEPT ![id] = IF @ = "alive" THEN "signalled" ELSE @]
         ELSE disk' = Saved(mem) /\ UNCHANGED <<mem, timers, process, heard, told>>
  BY Zenon DEF cancelJob, Calls, ghost
<1>2. phase # "down" /\ watched' \subseteq watched
  BY <1>1, Zenon
<1>3. mem[id] \in Entries /\ process \in [Id -> {"none", "alive", "signalled", "dead"}]
  BY <1>1, Zenon DEF BgInv, TypeOK
<1>4. CASE mem[id].pid
  <2> DEFINE e == [mem[id] EXCEPT !.cancelled = TRUE]
  <2>1. /\ e \in Entries /\ e.kind = mem[id].kind /\ e.finished = mem[id].finished
        /\ e.notified = mem[id].notified
    BY <1>3, Zenon DEF Entries
  <2>2. finishJob(id, e)
        /\ process' = [process EXCEPT ![id] = IF @ = "alive" THEN "signalled" ELSE @]
    BY <1>1, <1>4, Zenon
  <2> HIDE DEF e
  <2>3. /\ process' \in [Id -> {"none", "alive", "signalled", "dead"}]
        /\ \A i \in Id : process'[i] = "none" <=> process[i] = "none"
    BY <1>3, <2>2
  <2> QED
    BY <1>1, <1>2, <2>1, <2>2, <2>3, FinishInv, Zenon
<1>5. CASE ~mem[id].pid
  <2>1. disk' = Saved(mem) /\ UNCHANGED <<mem, timers, process, heard, told>>
    BY <1>1, <1>5, Zenon
  <2>2. DOMAIN disk' \subseteq DOMAIN mem /\ \A i \in DOMAIN disk' : disk'[i] = mem[i]
    BY <2>1, SavedIs, Zenon
  <2>3. TypeOK'
    BY <1>1, <2>1, <2>2, Zenon DEF BgInv, TypeOK, Job
  <2> QED
    BY <1>1, <1>2, <2>1, <2>3, QuietInv, Zenon
<1> QED
  BY <1>4, <1>5, Zenon

\* Steps of the job side.
LEMMA JobsInv == ASSUME BgInv, Jobs PROVE BgInv'
<1>1. CASE \E spawned \in BOOLEAN : start(spawned)
  BY <1>1, StartInv, Zenon
<1>2. ASSUME NEW id \in Id, ExitEvent(id) PROVE BgInv'
  <2>1. /\ phase = "up" /\ watched' = watched \ {id}
        /\ UNCHANGED <<last, process, promise, expired, phase, active, graph, crashes>>
        /\ IF id \in DOMAIN mem THEN finishJob(id, mem[id]) ELSE UNCHANGED <<mem, disk, timers, ghost>>
    BY <1>2, Zenon DEF ExitEvent, Calls, os
  <2>2. watched' \subseteq watched /\ phase # "down"
    BY <2>1, Zenon
  <2>3. CASE id \in DOMAIN mem
    BY <2>1, <2>2, <2>3, EndsInv, Zenon
  <2>4. CASE id \notin DOMAIN mem
    <3>1. UNCHANGED <<mem, disk, timers, heard, told>>
      BY <2>1, <2>4, Zenon DEF ghost
    <3>2. TypeOK'
      BY <2>1, <2>2, <3>1, Zenon DEF BgInv, TypeOK, Job
    <3> QED
      BY <2>1, <2>2, <3>1, <3>2, QuietInv, Zenon
  <2> QED
    BY <2>3, <2>4, Zenon
<1>3. ASSUME NEW id \in Id, Probe(id) PROVE BgInv'
  <2>1. /\ phase = "up" /\ id \in DOMAIN mem /\ finishJob(id, mem[id])
        /\ UNCHANGED <<last, process, watched, promise, expired, phase, active, graph, crashes>>
    BY <1>3, Zenon DEF Probe, Calls, os
  <2>2. watched' \subseteq watched /\ phase # "down"
    BY <2>1, Zenon
  <2> QED
    BY <2>1, <2>2, EndsInv, Zenon
<1>4. ASSUME NEW id \in Id, Nudge(id) PROVE BgInv'
  <2>1. /\ phase = "up" /\ id \in timers
        /\ UNCHANGED <<last, process, watched, promise, expired, phase, active, graph, crashes>>
        /\ IF Dead(id) THEN finishJob(id, mem[id])
           ELSE /\ disk' = Saved(mem) /\ UNCHANGED <<mem, timers>> /\ Tell({id}, "running")
    BY <1>4, Zenon DEF Nudge, Calls, os
  <2>2. watched' \subseteq watched /\ phase # "down" /\ id \in DOMAIN mem
    BY <2>1, Zenon DEF BgInv, TypeOK
  <2>3. CASE Dead(id)
    BY <2>1, <2>2, <2>3, EndsInv, Zenon
  <2>4. CASE ~Dead(id)
    <3>1. UNCHANGED <<mem, timers>> /\ Tell({id}, "running") /\ disk' = Saved(mem)
      BY <2>1, <2>4, Zenon
    <3>2. {id} \in SUBSET Id /\ TypeOK
      BY Zenon DEF BgInv
    <3>3. heard' \in [Id -> {"none", "running", "settled", "abandoned"}] /\ told' = told
      BY <3>1, <3>2, TellIs, Zenon
    <3>4. DOMAIN disk' \subseteq DOMAIN mem /\ \A i \in DOMAIN disk' : disk'[i] = mem[i]
      BY <3>1, SavedIs, Zenon
    <3>5. TypeOK'
      BY <2>1, <3>1, <3>3, <3>4, ZenonT(30) DEF BgInv, TypeOK, Job
    <3> QED
      BY <2>1, <2>2, <3>1, <3>3, <3>5, QuietInv, Zenon
  <2> QED
    BY <2>3, <2>4, Zenon
<1>5. ASSUME NEW id \in Id, rearm(id) PROVE BgInv'
  <2>1. /\ phase = "up" /\ id \in DOMAIN mem /\ mem[id].kind = "job" /\ mem[id].running
        /\ disk' = Saved(mem) /\ timers' \subseteq timers \cup {id}
        /\ UNCHANGED <<mem, last, process, watched, promise, expired, phase, active, graph, heard, told>>
    BY <1>5, Zenon DEF rearm, Calls, os, ghost
  <2>2. DOMAIN disk' \subseteq DOMAIN mem /\ \A i \in DOMAIN disk' : disk'[i] = mem[i]
    BY <2>1, SavedIs, Zenon
  <2>3. TypeOK'
    BY <2>1, <2>2, ZenonT(30) DEF BgInv, TypeOK, Job
  <2>4. phase' # "down"
    BY <2>1, Zenon
  <2> QED
    BY <2>1, <2>3, <2>4, QuietInv, Zenon
<1>6. ASSUME NEW id \in Id, cancelJob(id) PROVE BgInv'
  BY <1>6, CancelJobInv, Zenon
<1> QED
  BY <1>1, <1>2, <1>3, <1>4, <1>5, <1>6, Zenon DEF Jobs

\* Steps of the future side.
LEMMA FutureStepsInv == ASSUME BgInv, Futures PROVE BgInv'
<1>1. ASSUME NEW id \in Id, TtlPasses(id) PROVE BgInv'
  <2>1. /\ phase = "up" /\ id \in promise /\ expired' = expired \cup {id}
        /\ UNCHANGED <<mem, disk, last, process, watched, timers, promise, phase, active, graph, heard, told>>
    BY <1>1, Zenon DEF TtlPasses, os, ghost
  <2>2. TypeOK'
    BY <2>1, Zenon DEF BgInv, TypeOK, Job
  <2>3. phase' # "down"
    BY <2>1, Zenon
  <2> QED
    BY <2>1, <2>2, <2>3, QuietInv, Zenon
<1> QED
  BY <1>1, RegisterInv, ReapInv, SettleInv, CancelFutureInv, Zenon DEF Futures

\* A process ends, whoever runs.
LEMMA ProcessEndsInv == ASSUME BgInv, NEW id \in Id, ProcessEnds(id) PROVE BgInv'
<1>1. /\ process[id] \in {"alive", "signalled"} /\ process' = [process EXCEPT ![id] = "dead"]
      /\ UNCHANGED <<mem, disk, last, watched, timers, promise, expired, phase, active, graph, heard, told>>
  BY Zenon DEF ProcessEnds, Alive, live, ghost
<1>2. process \in [Id -> {"none", "alive", "signalled", "dead"}]
  BY Zenon DEF BgInv, TypeOK
<1>3. /\ process' \in [Id -> {"none", "alive", "signalled", "dead"}]
      /\ \A i \in Id : process'[i] = "none" <=> process[i] = "none"
  BY <1>1, <1>2
<1>4. TypeOK'
  BY <1>1, <1>3, ZenonT(30) DEF BgInv, TypeOK, Job
<1>5. phase' = "down" => timers' = {} /\ promise' = {}
  BY <1>1, Zenon DEF BgInv
<1> QED
  BY <1>1, <1>3, <1>4, <1>5, QuietInv, Zenon

\* A boot of a harness whose graph was cut over leaves the registry alone.
LEMMA StayInactiveInv == ASSUME BgInv, StayInactive PROVE BgInv'
<1>1. /\ phase' = "up"
      /\ UNCHANGED <<mem, disk, last, process, watched, timers, promise, expired, active, graph, heard, told>>
  BY Zenon DEF StayInactive, os, ghost
<1>2. TypeOK'
  BY <1>1, ZenonT(30) DEF BgInv, TypeOK, Job
<1>3. phase' # "down"
  BY <1>1, Zenon
<1> QED
  BY <1>1, <1>2, <1>3, QuietInv, Zenon

\* A new registry is empty, and nothing was told.
LEMMA InitInv == ASSUME Init PROVE BgInv
<1>1. /\ DOMAIN mem = {} /\ DOMAIN disk = {} /\ last = 0 /\ last \in 0..MaxId
  BY BgAssumption DEF Init
<1>2. /\ process = [id \in Id |-> "none"] /\ told = [id \in Id |-> 0] /\ heard = [id \in Id |-> "none"]
      /\ 0 \in 0..2 /\ watched = {} /\ timers = {} /\ promise = {} /\ expired = {}
      /\ phase = "up" /\ graph = "dark" /\ active = TRUE
  BY DEF Init
<1>3. TypeOK
  BY <1>1, <1>2, Zenon DEF TypeOK
<1>4. JobToldOnce
  BY <1>2, Zenon DEF JobToldOnce
<1> QED
  BY <1>1, <1>2, <1>3, <1>4, Zenon DEF BgInv, Recorded

-----------------------------------------------------------------------------
(* The theorems.                                                           *)

\* In every state the registry of background jobs (bg.ts) can reach, a job whose
\* end was told carries the notified flag in memory and in registry.json, for
\* any number of jobs, futures, kept entries and process deaths.
THEOREM BgInvariance == Spec => []BgInv
<1>1. Init => BgInv
  BY InitInv, Zenon
<1>2. BgInv /\ [Next]_vars => BgInv'
  <2> SUFFICES ASSUME BgInv, [Next]_vars PROVE BgInv'
    OBVIOUS
  <2>1. CASE Next
    BY <2>1, JobsInv, FutureStepsInv, CrashInv, LoadInv, ActivateInv, StayInactiveInv, ProcessEndsInv,
       Zenon DEF Next, Boots
  <2>2. CASE UNCHANGED vars
    BY <2>2, ZenonT(30) DEF vars, os, live, ghost, BgInv, TypeOK, JobToldOnce, Recorded, Job
  <2> QED
    BY <2>1, <2>2, Zenon
<1> QED
  BY <1>1, <1>2, PTL DEF Spec

\* The completion of a job is delivered at most once, over any number of restarts,
\* probes, timers, exit events and cancels (finishJob, notifyJobSettled, activate).
THEOREM BgToldOnce == Spec => []JobToldOnce
<1>1. BgInv => JobToldOnce
  BY Zenon DEF BgInv
<1> QED
  BY <1>1, BgInvariance, PTL
=============================================================================

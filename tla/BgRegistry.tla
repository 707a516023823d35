----------------------------- MODULE BgRegistry -----------------------------
(***************************************************************************)
(* Background jobs and detached futures (sandbox/bg.ts): an in-memory      *)
(* registry, the JSON file it is saved to, the operating system's          *)
(* processes, which outlive the harness, and the promises of detached      *)
(* runs, which do not.  Every function of the registry is synchronous, so  *)
(* one call is one step; the process dies between steps.  Ids grow in the  *)
(* order of starting.  Times are left out: a nudge timer that is set may   *)
(* fire, and a future's TTL passes at some step.                           *)
(***************************************************************************)
EXTENDS Integers, FiniteSets

CONSTANTS MaxId,       \* entries ever made
          MaxEntries,  \* 20 in the code
          MaxSaved,    \* 50 in the code
          MaxCrash,    \* process deaths
          Kinds,       \* kinds of entries made: "job", "future"
          SpawnFails   \* may spawn() fail?

ASSUME BgAssumption ==
  /\ MaxId \in Nat /\ MaxEntries \in Nat /\ MaxSaved \in Nat /\ MaxCrash \in Nat
  /\ Kinds \subseteq {"job", "future"}
  /\ SpawnFails \in BOOLEAN

Id == 1..MaxId

VARIABLES
  mem,      \* the Map of entries: id -> entry
  disk,     \* registry.json
  last,     \* the last id given
  process,  \* the child of each job: "none", "alive", "signalled"
            \* after killTree, or "dead"
  watched,  \* jobs whose exit or error event this process will get
  timers,   \* jobs with a nudge timer
  promise,  \* futures whose promise is pending
  expired,  \* futures past their TTL
  phase,    \* the harness: "down", "loaded" or "up"
  active,   \* jobDeliveryActive
  graph,    \* context_graph_activation.mode: "dark", and once cut over "active"
  heard,    \* ghost: the last notice about each id
  told,     \* ghost: terminal notices about each id, two for more
  crashes

os    == <<process>>
live  == <<watched, timers, promise, expired, phase, active, graph>>
ghost == <<heard, told>>
vars  == <<mem, disk, last, os, live, ghost, crashes>>

Entry(kind, pid) ==
  [kind |-> kind, pid |-> pid, running |-> TRUE, finished |-> FALSE, notified |-> FALSE,
   cancelled |-> FALSE, value |-> "none"]

Only(m, ids) == [id \in ids |-> m[id]]
Put(m, id, e) == [i \in DOMAIN m \cup {id} |-> IF i = id THEN e ELSE m[i]]

\* The newest of the ids: a Map iterates in the order of insertion.
Newest(ids, n) == {id \in ids : Cardinality({i \in ids : i > id}) < n}
Oldest(ids, n) == {id \in ids : Cardinality({i \in ids : i < id}) < n}

\* saveRegistry writes the newest entries.
Saved(m) == Only(m, Newest(DOMAIN m, MaxSaved))

Tell(ids, notice) ==
  /\ heard' = [id \in Id |-> IF id \in ids THEN notice ELSE heard[id]]
  /\ told' = IF notice = "running" THEN told
             ELSE [id \in Id |-> IF id \in ids THEN (IF told[id] = 0 THEN 1 ELSE 2) ELSE told[id]]
Silent == UNCHANGED ghost

Init ==
  /\ mem = <<>> /\ disk = <<>> /\ last = 0
  /\ process = [id \in Id |-> "none"] /\ watched = {} /\ timers = {}
  /\ promise = {} /\ expired = {} /\ phase = "up" /\ graph = "dark" /\ active = TRUE
  /\ heard = [id \in Id |-> "none"] /\ told = [id \in Id |-> 0] /\ crashes = 0

Calls == phase = "up"

-----------------------------------------------------------------------------
(* Jobs.                                                                   *)

start(spawned) ==
  LET id == last + 1 IN
  /\ Calls /\ last < MaxId /\ "job" \in Kinds /\ (spawned \/ SpawnFails)
  /\ last' = id
  /\ mem' = Put(mem, id, Entry("job", spawned)) /\ disk' = Saved(mem')
  /\ process' = [process EXCEPT ![id] = IF spawned THEN "alive" ELSE "none"]
  /\ watched' = watched \cup {id}
  /\ timers' = IF active THEN timers \cup {id} ELSE timers
  /\ UNCHANGED <<promise, expired, phase, active, graph, ghost, crashes>>

Alive(id) == process[id] \in {"alive", "signalled"}   \* isPidAlive
Dead(id)  == mem[id].pid /\ ~Alive(id)

\* finishJob and notifyJobSettled: the first finish is told, once delivery is on.
Finished(e) == [e EXCEPT !.running = FALSE, !.finished = TRUE,
                         !.notified = @ \/ (active /\ ~e.finished)]
MutFinishTellsAgain(id) == active
FinishTells(id) == active /\ ~mem[id].finished /\ ~mem[id].notified
finishJob(id, e) ==
  /\ mem' = [mem EXCEPT ![id] = Finished(e)] /\ disk' = Saved(mem')
  /\ timers' = timers \ {id}
  /\ IF FinishTells(id) THEN Tell({id}, "settled") ELSE Silent

\* The child's exit, or the error of a spawn that failed.
ExitEvent(id) ==
  /\ Calls /\ id \in watched /\ ~Alive(id)
  /\ watched' = watched \ {id}
  /\ IF id \in DOMAIN mem THEN finishJob(id, mem[id])
     ELSE UNCHANGED <<mem, disk, timers, ghost>>
  /\ UNCHANGED <<last, os, promise, expired, phase, active, graph, crashes>>

\* list() and get() probe a running job.
Probe(id) ==
  /\ Calls /\ id \in DOMAIN mem /\ mem[id].kind = "job" /\ mem[id].running /\ Dead(id)
  /\ finishJob(id, mem[id])
  /\ UNCHANGED <<last, os, watched, promise, expired, phase, active, graph, crashes>>

\* The nudge timer: a dead job is finished, a running one is reported and the
\* timer set again.
Nudge(id) ==
  /\ Calls /\ id \in timers
  /\ IF Dead(id) THEN finishJob(id, mem[id])
     ELSE /\ disk' = Saved(mem) /\ UNCHANGED <<mem, timers>>
          /\ Tell({id}, "running")
  /\ UNCHANGED <<last, os, watched, promise, expired, phase, active, graph, crashes>>

rearm(id) ==
  /\ Calls /\ id \in DOMAIN mem /\ mem[id].kind = "job" /\ mem[id].running
  /\ disk' = Saved(mem)
  /\ timers' = IF active THEN timers \cup {id} ELSE timers
  /\ UNCHANGED <<mem, last, os, watched, promise, expired, phase, active, graph, ghost, crashes>>

\* cancel() of a job sends SIGTERM to its process group and does not wait.
cancelJob(id) ==
  /\ Calls /\ id \in DOMAIN mem /\ mem[id].kind = "job"
  /\ IF mem[id].pid
     THEN /\ finishJob(id, [mem[id] EXCEPT !.cancelled = TRUE])
          /\ process' = [process EXCEPT ![id] = IF @ = "alive" THEN "signalled" ELSE @]
     ELSE disk' = Saved(mem) /\ UNCHANGED <<mem, timers, process, ghost>>
  /\ UNCHANGED <<last, watched, promise, expired, phase, active, graph, crashes>>

\* A process ends by itself or by a signal, whether or not the harness runs.
ProcessEnds(id) ==
  /\ Alive(id)
  /\ process' = [process EXCEPT ![id] = "dead"]
  /\ UNCHANGED <<mem, disk, last, live, ghost, crashes>>

-----------------------------------------------------------------------------
(* Futures.                                                                *)

registerFuture ==
  LET id == last + 1 IN
  /\ Calls /\ last < MaxId /\ "future" \in Kinds
  /\ last' = id
  /\ mem' = Put(mem, id, Entry("future", FALSE)) /\ disk' = Saved(mem')
  /\ promise' = promise \cup {id}
  /\ UNCHANGED <<os, watched, timers, expired, phase, active, graph, ghost, crashes>>

TtlPasses(id) ==
  /\ phase = "up" /\ id \in promise \ expired
  /\ expired' = expired \cup {id}
  /\ UNCHANGED <<mem, disk, last, os, watched, timers, promise, phase, active, graph, ghost, crashes>>

\* reapAbandoned over the entries m: running futures past their TTL are
\* abandoned, then the oldest entries that do not run go.
Abandoned(m) == {id \in DOMAIN m \cap expired :
                   m[id].kind = "future" /\ m[id].running /\ ~m[id].cancelled}
Dropped(m) == [id \in DOMAIN m |-> IF id \notin Abandoned(m) THEN m[id]
                 ELSE [m[id] EXCEPT !.running = FALSE, !.value = "abandoned"]]
Capped(m) == LET idle == {id \in DOMAIN m : ~m[id].running}
             IN Only(m, DOMAIN m \ Oldest(idle, Cardinality(DOMAIN m) - MaxEntries))
Reaped(m) == Capped(Dropped(m))

reapAbandoned ==
  /\ Calls
  /\ mem' = Reaped(mem)
  /\ disk' = IF Abandoned(mem) # {} THEN Saved(mem') ELSE disk
  /\ Tell(Abandoned(mem), "abandoned")
  /\ UNCHANGED <<last, os, live, crashes>>

Settles(id) == id \in DOMAIN mem /\ ~mem[id].cancelled
PromiseSettles(id) ==
  /\ Calls /\ id \in promise
  /\ promise' = promise \ {id}
  /\ IF Settles(id)
     THEN LET m == [mem EXCEPT ![id].running = FALSE, ![id].value = "settled"] IN
          /\ mem' = Reaped(m)
          /\ disk' = IF Abandoned(m) # {} THEN Saved(mem') ELSE Saved(m)
          /\ LET notices == [i \in Abandoned(m) \cup {id} |-> IF i = id THEN "settled" ELSE "abandoned"]
             IN /\ heard' = [i \in Id |-> IF i \in DOMAIN notices THEN notices[i] ELSE heard[i]]
                /\ told' = [i \in Id |-> IF i \notin DOMAIN notices THEN told[i]
                                         ELSE IF told[i] = 0 THEN 1 ELSE 2]
     ELSE UNCHANGED <<mem, disk, ghost>>
  /\ UNCHANGED <<last, os, watched, timers, expired, phase, active, graph, crashes>>

cancelFuture(id) ==
  /\ Calls /\ id \in DOMAIN mem /\ mem[id].kind = "future"
  /\ mem' = [mem EXCEPT ![id].running = FALSE, ![id].cancelled = TRUE]
  /\ disk' = Saved(mem')
  /\ UNCHANGED <<last, os, live, ghost, crashes>>

-----------------------------------------------------------------------------
(* The harness dies, loads the file and activates delivery.                *)

Crash ==
  /\ phase # "down" /\ crashes < MaxCrash
  /\ crashes' = crashes + 1
  /\ phase' = "down" /\ active' = FALSE /\ mem' = <<>>
  /\ watched' = {} /\ timers' = {} /\ promise' = {} /\ expired' = {}
  /\ UNCHANGED <<disk, last, os, graph, ghost>>

\* loadRegistry: jobs are probed again; what was already finished and not
\* notified is taken for notified; a running future is lost.  The graph may have
\* been cut over since the last boot, for good.
Loaded(id, e) ==
  IF e.kind = "future" THEN [e EXCEPT !.value = IF e.running THEN "lost" ELSE @, !.running = FALSE]
  ELSE IF ~e.pid THEN e
  ELSE LET alive == Alive(id) IN
       [e EXCEPT !.running = alive, !.finished = @ \/ ~alive, !.notified = @ \/ (~alive /\ ~e.running)]
Load ==
  /\ phase = "down" /\ phase' = "loaded"
  /\ mem' = [id \in DOMAIN disk |-> Loaded(id, disk[id])]
  /\ graph' \in {graph, "active"}
  /\ UNCHANGED <<disk, last, os, watched, timers, promise, expired, active, ghost, crashes>>

\* activate(), which a boot calls while the graph is dark: dead jobs are finished,
\* running ones get their timer, the others their notice.
Job(id) == mem[id].kind = "job"
Died    == {id \in DOMAIN mem : Job(id) /\ mem[id].running /\ Dead(id)}
Owed    == {id \in DOMAIN mem : Job(id) /\ ~mem[id].running /\ ~mem[id].notified}
                   \cup {id \in Died : ~mem[id].finished /\ ~mem[id].notified}
MutActivateSilent ==
  /\ phase = "loaded" /\ phase' = "up" /\ graph = "dark" /\ active' = TRUE
  /\ timers' = {id \in DOMAIN mem \ Died : Job(id) /\ mem[id].running}
  /\ UNCHANGED <<mem, disk, last, os, watched, promise, expired, graph, ghost, crashes>>
activate ==
  /\ phase = "loaded" /\ phase' = "up"
  /\ graph = "dark" /\ active' = TRUE
  /\ mem' = [id \in DOMAIN mem |->
               [mem[id] EXCEPT !.running = @ /\ id \notin Died, !.finished = @ \/ id \in Died,
                               !.notified = @ \/ id \in Owed]]
  /\ disk' = IF Died \cup Owed # {} THEN Saved(mem') ELSE disk
  /\ timers' = {id \in DOMAIN mem \ Died : Job(id) /\ mem[id].running}
  /\ Tell(Owed, "settled")
  /\ UNCHANGED <<last, os, watched, promise, expired, graph, crashes>>

StayInactive ==
  /\ phase = "loaded" /\ phase' = "up" /\ graph = "active"
  /\ UNCHANGED <<mem, disk, last, os, watched, timers, promise, expired, active, graph, ghost, crashes>>

Jobs == \/ \E spawned \in BOOLEAN : start(spawned)
        \/ \E id \in Id : ExitEvent(id) \/ Probe(id) \/ Nudge(id) \/ rearm(id) \/ cancelJob(id)
Futures == \/ registerFuture \/ reapAbandoned
           \/ \E id \in Id : TtlPasses(id) \/ PromiseSettles(id) \/ cancelFuture(id)
Boots == Load \/ activate \/ StayInactive
Next == Jobs \/ Futures \/ Crash \/ Boots \/ \E id \in Id : ProcessEnds(id)
Spec == Init /\ [][Next]_vars

\* The harness is started again, its event loop runs callbacks and timers.
Fairness == /\ WF_vars(Boots)
            /\ \A id \in Id : WF_vars(ExitEvent(id)) /\ WF_vars(Nudge(id))
LiveSpec == Spec /\ Fairness

-----------------------------------------------------------------------------
(* Properties.                                                             *)

Entries == [kind : {"job", "future"}, pid : BOOLEAN, running : BOOLEAN, finished : BOOLEAN,
            notified : BOOLEAN, cancelled : BOOLEAN,
            value : {"none", "settled", "abandoned", "lost"}]
TypeOK ==
  /\ last \in 0..MaxId /\ DOMAIN mem \subseteq 1..last /\ DOMAIN disk \subseteq 1..last
  /\ \A id \in DOMAIN mem : mem[id] \in Entries
  /\ \A id \in DOMAIN disk : disk[id] \in Entries
  /\ process \in [Id -> {"none", "alive", "signalled", "dead"}] /\ watched \subseteq 1..last
  /\ \A id \in timers : id \in DOMAIN mem /\ Job(id) /\ mem[id].running
  /\ promise \subseteq 1..last /\ expired \subseteq 1..last
  /\ phase \in {"down", "loaded", "up"} /\ active \in BOOLEAN
  /\ graph \in {"dark", "active"}
  /\ heard \in [Id -> {"none", "running", "settled", "abandoned"}] /\ told \in [Id -> 0..2]

\* The completion of a job is delivered at most once, also when the harness
\* dies and recovers the job, is told of its exit after a cancel, or finds it
\* dead in a probe, a timer and an event ("nor repeats", BgJob).
JobToldOnce == \A id \in Id : process[id] # "none" => told[id] <= 1

\* Until the graph is cut over, every job whose process ends is reported,
\* although its exit event reaches only the harness that started it, and the next
\* ones must find it by its pid.
EndIsTold == \A id \in Id :
  (process[id] = "dead") ~> (told[id] > 0 \/ graph = "active")
=============================================================================

------------------------------- MODULE Runtime -------------------------------
(***************************************************************************)
(* The life of a Runtime (heart/runtime.py): start, the objectives that    *)
(* run in the background, the heartbeat (breath/heartbeat.py), health      *)
(* probes, and the stop that must leave none of them on closed parts.      *)
(*                                                                         *)
(* What one coroutine does between two awaits is one step.  A task that    *)
(* was cancelled takes no other step than to end: CancelledError is thrown *)
(* wherever it resumes, and nothing in a task catches it.                  *)
(***************************************************************************)
EXTENDS Naturals, FiniteSets

CONSTANTS
  Jobs,       \* objectives, each spawned or submitted once
  Probes,     \* calls of health()
  MaxStarts,  \* bound: how often the runtime is started
  MaxBeats    \* bound: how often the heart beats

ASSUME RuntimeAssumption ==
  /\ IsFiniteSet(Jobs)
  /\ MaxStarts \in Nat /\ MaxBeats \in Nat

VARIABLES
  life,      \* where start and stop are
  starts,    \* how often start was called
  started,   \* _started
  status,    \* state.status
  attached,  \* how often the audit log and the counters are on the bus
  open,      \* whether the store can be used
  job,       \* each objective: where its task is, its locals, its history
  active,    \* _active
  gathered,  \* the tasks stop waits for
  counts,    \* completed_tasks and failed_tasks
  heart,     \* the heartbeat's task
  beats,     \* Heartbeat.beats, of every heartbeat so far
  counted,   \* state.heartbeats
  probe      \* each probe: where it is and what it found

lifeVars == <<life, starts, started, status, attached, open, gathered>>
jobVars == <<job, active, counts>>
heartVars == <<heart, beats, counted>>
vars == <<lifeVars, jobVars, heartVars, probe>>

Lives == {"down", "connecting", "greeting", "up", "quieting", "waiting",
          "parting", "closing", "shutting"}

Endings == {"completed", "failed"}

Job == [at : {"new", "running", "publishing", "done"}, cancelled : BOOLEAN,
        ending : Endings \cup {"none"}, heard : Nat,
        late : BOOLEAN, told : BOOLEAN]

NewJob == [at |-> "new", cancelled |-> FALSE, ending |-> "none", heard |-> 0,
           late |-> FALSE, told |-> FALSE]

Init ==
  /\ life = "down" /\ starts = 0 /\ started = FALSE /\ status = "starting"
  /\ attached = 0 /\ open = FALSE /\ gathered = {}
  /\ job = [j \in Jobs |-> NewJob] /\ active = {}
  /\ counts = [kind \in Endings |-> 0]
  /\ heart = "off" /\ beats = 0 /\ counted = 0
  /\ probe = [h \in Probes |-> [at |-> "away", ok |-> FALSE]]

Done(j) == job[j].at = "done"
Running(j) == job[j].at \in {"running", "publishing"}

-----------------------------------------------------------------------------
(***************************************************************************)
(* start.                                                                  *)
(***************************************************************************)
Start ==
  /\ life = "down" /\ ~started /\ starts < MaxStarts
  /\ life' = "connecting" /\ starts' = starts + 1
  /\ UNCHANGED <<started, status, attached, open, gathered, jobVars, heartVars, probe>>

\* store.connect raises: nothing has been attached.
ConnectRaises ==
  /\ life = "connecting"
  /\ life' = "down"
  /\ UNCHANGED <<starts, started, status, attached, open, gathered, jobVars, heartVars, probe>>

\* The store is open: audit log and counters are attached before the first event.
Connected ==
  /\ life = "connecting"
  /\ life' = "greeting"
  /\ open' = TRUE /\ attached' = attached + 1
  /\ status' = "healthy" /\ started' = TRUE
  /\ heart' \in {"off", "sleeping"}
  /\ UNCHANGED <<starts, gathered, jobVars, beats, counted, probe>>

\* RUNTIME_STARTED has been published.
Greeted ==
  /\ life = "greeting"
  /\ life' = "up"
  /\ UNCHANGED <<starts, started, status, attached, open, gathered, jobVars, heartVars, probe>>

-----------------------------------------------------------------------------
(***************************************************************************)
(* stop.                                                                   *)
(***************************************************************************)
\* Cancel whoever of these is still going.
CancelAll(set) ==
  job' = [j \in Jobs |-> IF j \in set /\ ~Done(j) THEN [job[j] EXCEPT !.cancelled = TRUE]
                         ELSE job[j]]

\* The tasks that are active now are waited for, if there are any.
Gather ==
  /\ gathered' = active
  /\ life' = IF active = {} THEN "parting" ELSE "waiting"

Stop ==
  /\ life = "up"
  /\ status' = "stopping"
  /\ \/ heart = "off" /\ Gather
     \/ heart # "off" /\ life' = "quieting" /\ UNCHANGED gathered
  /\ UNCHANGED <<starts, started, attached, open, jobVars, heartVars, probe>>

\* Heartbeat.stop has seen its task end.
Quieted ==
  /\ life = "quieting" /\ heart = "ended"
  /\ heart' = "off"
  /\ Gather
  /\ UNCHANGED <<starts, started, status, attached, open, jobVars, beats, counted, probe>>

\* Mutant: the grace period never runs out.
GraceForever == FALSE /\ UNCHANGED vars

\* SHUTDOWN_GRACE_SECONDS are over: wait_for cancels the tasks, and goes on
\* waiting until the last of them has ended.
GraceOver ==
  /\ life = "waiting"
  /\ \E j \in gathered : ~Done(j) /\ ~job[j].cancelled
  /\ CancelAll(gathered)
  /\ UNCHANGED <<lifeVars, active, counts, heartVars, probe>>

\* Mutant: the tasks are cancelled and not waited for.
WaitedNot ==
  /\ life = "waiting"
  /\ CancelAll(active)
  /\ life' = "parting"
  /\ UNCHANGED <<starts, started, status, attached, open, gathered, active, counts, heartVars, probe>>

\* Whoever came meanwhile is cancelled, and not waited for.
Waited ==
  /\ life = "waiting"
  /\ \A j \in gathered : Done(j)
  /\ CancelAll(active)
  /\ life' = "parting"
  /\ UNCHANGED <<starts, started, status, attached, open, gathered, active, counts, heartVars, probe>>

\* RUNTIME_STOPPED has been published; router.aclose is awaited.
Parted ==
  /\ life = "parting"
  /\ life' = "closing"
  /\ UNCHANGED <<starts, started, status, attached, open, gathered, jobVars, heartVars, probe>>

\* Mutant: closing the bus leaves its handlers on it.
CloseKeepsHandlers ==
  /\ life = "closing"
  /\ life' = "shutting" /\ open' = FALSE
  /\ UNCHANGED <<starts, started, status, attached, gathered, jobVars, heartVars, probe>>

\* The bus is closed with its handlers cleared, and store.close is under way.
Close ==
  /\ life = "closing"
  /\ life' = "shutting" /\ attached' = 0 /\ open' = FALSE
  /\ UNCHANGED <<starts, started, status, gathered, jobVars, heartVars, probe>>

Stopped ==
  /\ life = "shutting"
  /\ life' = "down" /\ status' = "stopped" /\ started' = FALSE
  /\ UNCHANGED <<starts, attached, open, gathered, jobVars, heartVars, probe>>

-----------------------------------------------------------------------------
(***************************************************************************)
(* The objectives.                                                         *)
(***************************************************************************)
\* All that a request asks of the runtime.
Ready == started

\* spawn, or submit: stop is not looked at.
Spawn(j) ==
  /\ Ready /\ job[j].at = "new"
  /\ job' = [job EXCEPT ![j].at = "running",
                        ![j].late = life \notin {"greeting", "up", "quieting"}]
  /\ active' = active \cup {j}
  /\ UNCHANGED <<lifeVars, counts, heartVars, probe>>

\* The run publishes its terminal event, to the handlers of this moment.
Report(j) ==
  /\ job[j].at = "running" /\ ~job[j].cancelled
  /\ \E ending \in Endings :
       job' = [job EXCEPT ![j].at = "publishing", ![j].ending = ending,
                          ![j].heard = attached, ![j].told = attached # 0]
  /\ UNCHANGED <<lifeVars, active, counts, heartVars, probe>>

\* The audit handler is back, whether or not it could write; the counters follow.
Reported(j) ==
  /\ job[j].at = "publishing" /\ ~job[j].cancelled
  /\ job' = [job EXCEPT ![j].at = "done"]
  /\ counts' = [counts EXCEPT ![job[j].ending] = @ + job[j].heard]
  /\ UNCHANGED <<lifeVars, active, heartVars, probe>>

\* The task ends as cancelled: nothing more is published or counted.
Cancelled(j) ==
  /\ Running(j) /\ job[j].cancelled
  /\ job' = [job EXCEPT ![j].at = "done", ![j].ending = "none", ![j].told = FALSE]
  /\ UNCHANGED <<lifeVars, active, counts, heartVars, probe>>

\* The done callback of spawn, or the finally of submit, a turn of the loop later.
Forget(j) ==
  /\ Done(j) /\ j \in active
  /\ active' = active \ {j}
  /\ UNCHANGED <<lifeVars, job, counts, heartVars, probe>>

-----------------------------------------------------------------------------
(***************************************************************************)
(* The heartbeat.  From stop on its task is cancelled.                     *)
(***************************************************************************)
Beat ==
  /\ heart = "sleeping" /\ life # "quieting" /\ beats < MaxBeats
  /\ heart' = "beating" /\ beats' = beats + 1
  /\ UNCHANGED <<lifeVars, jobVars, counted, probe>>

Beaten ==
  /\ heart = "beating" /\ life # "quieting"
  /\ heart' = "sleeping" /\ counted' = counted + attached
  /\ UNCHANGED <<lifeVars, jobVars, beats, probe>>

\* The loop ends, also in the middle of a beat.
HeartEnds ==
  /\ heart \in {"sleeping", "beating"} /\ life = "quieting"
  /\ heart' = "ended"
  /\ UNCHANGED <<lifeVars, jobVars, beats, counted, probe>>

-----------------------------------------------------------------------------
(***************************************************************************)
(* health: three awaits, and the status it writes at the end.              *)
(***************************************************************************)
Ask(h) ==
  /\ Ready /\ probe[h].at = "away"
  /\ probe' = [probe EXCEPT ![h].at = "asked"]
  /\ UNCHANGED <<lifeVars, jobVars, heartVars>>

\* Store.health_check turns an error into FALSE.
StoreChecked(h) ==
  /\ probe[h].at = "asked"
  /\ \E ok \in {FALSE, open} : probe' = [probe EXCEPT ![h] = [at |-> "checked", ok |-> ok]]
  /\ UNCHANGED <<lifeVars, jobVars, heartVars>>

ProviderChecked(h) ==
  /\ probe[h].at = "checked"
  /\ probe' = [probe EXCEPT ![h].at = "healthy"] \/ probe' = [probe EXCEPT ![h].at = "unhealthy"]
  /\ UNCHANGED <<lifeVars, jobVars, heartVars>>

\* What health makes of what it found.
Judged(h) ==
  IF ~probe[h].ok THEN "degraded"
  ELSE IF ~started THEN status
  ELSE IF probe[h].at = "healthy" THEN "healthy" ELSE "degraded"

\* Mutant: the approvals are counted as none when the store is closed.
AnswerAnyway(h) ==
  /\ probe[h].at \in {"healthy", "unhealthy"}
  /\ status' = Judged(h)
  /\ probe' = [probe EXCEPT ![h].at = "answered"]
  /\ UNCHANGED <<life, starts, started, attached, open, gathered, jobVars, heartVars>>

\* approvals.pending has answered.
Answer(h) ==
  /\ probe[h].at \in {"healthy", "unhealthy"} /\ open
  /\ status' = Judged(h)
  /\ probe' = [probe EXCEPT ![h].at = "answered"]
  /\ UNCHANGED <<life, starts, started, attached, open, gathered, jobVars, heartVars>>

\* approvals.pending raises, as it does when the store is closed.
AnswerRaises(h) ==
  /\ probe[h].at \in {"healthy", "unhealthy"}
  /\ probe' = [probe EXCEPT ![h].at = "raised"]
  /\ UNCHANGED <<lifeVars, jobVars, heartVars>>

-----------------------------------------------------------------------------
Lifecycle ==
  \/ Start \/ ConnectRaises \/ Connected \/ Greeted \/ Stop \/ Quieted
  \/ GraceOver \/ Waited \/ Parted \/ Close \/ Stopped

Task(j) == Spawn(j) \/ Report(j) \/ Reported(j) \/ Cancelled(j) \/ Forget(j)

Heart == Beat \/ Beaten \/ HeartEnds

Probe(h) ==
  Ask(h) \/ StoreChecked(h) \/ ProviderChecked(h) \/ Answer(h) \/ AnswerRaises(h)

Next == Lifecycle \/ (\E j \in Jobs : Task(j)) \/ Heart \/ (\E h \in Probes : Probe(h))

Spec == Init /\ [][Next]_vars

\* The event loop resumes what can go on: a stop that has begun, a cancelled
\* task, the heartbeat.  Nothing makes an objective end, or anybody stop.
Stopping == Quieted \/ GraceOver \/ Waited \/ Parted \/ Close \/ Stopped

FairSpec ==
  /\ Spec
  /\ WF_vars(Stopping)
  /\ WF_vars(HeartEnds)
  /\ \A j \in Jobs : WF_vars(Cancelled(j))

-----------------------------------------------------------------------------
\* Every variable keeps its type (heart/runtime.py, breath/heartbeat.py).
TypeOK ==
  /\ life \in Lives
  /\ starts \in 0..MaxStarts
  /\ started \in BOOLEAN /\ open \in BOOLEAN
  /\ status \in {"starting", "healthy", "degraded", "stopping", "stopped"}
  /\ attached \in {0, 1}
  /\ gathered \subseteq Jobs /\ active \subseteq Jobs
  /\ job \in [Jobs -> Job]
  /\ counts \in [Endings -> Nat]
  /\ heart \in {"off", "sleeping", "beating", "ended"}
  /\ beats \in 0..MaxBeats /\ counted \in Nat
  /\ probe \in [Probes -> [at : {"away", "asked", "checked", "healthy", "unhealthy",
                                 "answered", "raised"}, ok : BOOLEAN]]

\* The counters are the numbers of objectives that reported themselves so while
\* the bus was open: neither a restart nor a cancelled publication makes them
\* count twice, or what was not said.
CountersAgree ==
  \A kind \in Endings :
    counts[kind] = Cardinality({j \in Jobs : Done(j) /\ job[j].ending = kind /\ job[j].told})

\* A task that was active when stop looked has ended before bus and store are
\* closed; only one that came after can outlive them.
OnlyLateTasksOutliveStop ==
  \A j \in Jobs : Running(j) /\ ~open => job[j].late

\* A runtime that has been stopped says so, whatever probes were under way.
StoppedSaysSo ==
  life = "down" => status \in {"starting", "stopped"}

\* The heart never beats on a closed bus, and at most one beat a life goes
\* uncounted, the one that stop cut short.
BeatsAgree ==
  /\ heart # "off" => attached = 1
  /\ counted <= beats /\ beats <= counted + starts

\* stop returns: tasks that do not end are cancelled when their grace is over.
StopEnds == life \in {"quieting", "waiting"} ~> life = "down"

-----------------------------------------------------------------------------
\* Why StopEnds holds.

\* The stages a stop that has begun still has before it.
StagesLeft ==
  CASE life = "quieting" -> 5
    [] life = "waiting" -> 4
    [] life = "parting" -> 3
    [] life = "closing" -> 2
    [] life = "shutting" -> 1
    [] OTHER -> 0

\* The tasks that stop waits for, and those it has not cancelled yet.
Outstanding == {j \in gathered : ~Done(j)}
Unwarned == {j \in Outstanding : ~job[j].cancelled}

\* Somebody can always take stop further: there is a heart to end, and whatever it
\* waits for has begun, so that it ends, is cancelled, or can still be cancelled.
StopCanGoOn ==
  /\ life = "quieting" => heart # "off"
  /\ life = "waiting" => \A j \in gathered : Running(j) \/ Done(j)

\* A stop goes forward.  While it waits nobody is added to those it waits for, the
\* end of the grace leaves none of them uncancelled, and one that is cancelled
\* takes no step but to end.
StopAdvances ==
  [][StagesLeft > 0 =>
       \/ StagesLeft' < StagesLeft
       \/ /\ UNCHANGED life
          /\ life = "waiting" =>
               /\ Outstanding' \subseteq Outstanding /\ Unwarned' \subseteq Unwarned
               /\ GraceOver => Unwarned # {} /\ Unwarned' = {}
               /\ \A j \in Outstanding \ Unwarned :
                    UNCHANGED job[j] \/ j \notin Outstanding']_vars

-----------------------------------------------------------------------------
\* What Heartbeat.stop's docstring says: the current beat is waited for.
BeatsFinish == [][heart = "beating" /\ heart' # "beating" => counted' > counted]_vars
=============================================================================

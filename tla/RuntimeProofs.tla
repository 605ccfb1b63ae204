----------------------------- MODULE RuntimeProofs -----------------------------
(***************************************************************************)
(* Proofs about Runtime, for any number of objectives, probes, lives and   *)
(* beats.                                                                  *)
(***************************************************************************)
EXTENDS Runtime, FiniteSetTheorems, TLAPS

\* What each stage of a life says of the flags, the bus and the store.
LifeSound ==
  /\ life \in {"down", "connecting"} =>
       ~started /\ ~open /\ attached = 0 /\ heart = "off" /\ status \in {"starting", "stopped"}
  /\ life \in {"greeting", "up", "quieting", "waiting", "parting", "closing"} =>
       started /\ open /\ attached = 1
  /\ life = "shutting" => started /\ ~open /\ attached = 0
  /\ heart # "off" => life \in {"greeting", "up", "quieting"}

\* A task that came in time is one stop still knows of, and will wait for.
LateSound ==
  \A j \in Jobs : Running(j) /\ ~job[j].late =>
    /\ life \in {"greeting", "up", "quieting", "waiting"}
    /\ j \in active
    /\ life = "waiting" => j \in gathered

\* How many beats may be missing: one for every life, the present one's only
\* once its heart has begun to beat.
BeatSound ==
  /\ counted <= beats /\ beats <= counted + starts
  /\ heart = "beating" => counted + 1 <= beats
  /\ life = "connecting" \/ heart = "sleeping" => beats + 1 <= counted + starts

\* A publication is told to the counters once, or not at all.
ToldOnce ==
  \A j \in Jobs : job[j].at = "publishing" =>
    /\ job[j].ending \in Endings
    /\ job[j].told => job[j].heard = 1
    /\ ~job[j].told => job[j].heard = 0

IInv == TypeOK /\ LifeSound /\ LateSound /\ BeatSound /\ ToldOnce /\ CountersAgree

Told(kind) == {j \in Jobs : Done(j) /\ job[j].ending = kind /\ job[j].told}

-----------------------------------------------------------------------------
\* Next, with the actor of every step named.
Step ==
  \/ Lifecycle \/ Heart
  \/ \E j \in Jobs : Task(j)
  \/ \E h \in Probes : Probe(h)

LEMMA NextIsStep == ASSUME Next PROVE Step
  BY DEF Next, Step

LEMMA JobField == \A j \in Jobs : TypeOK =>
    /\ job[j] \in Job
    /\ job[j].heard \in Nat /\ job[j].late \in BOOLEAN /\ job[j].told \in BOOLEAN
    /\ job[j].cancelled \in BOOLEAN
  BY DEF TypeOK, Job

\* Cancelling marks tasks, and nothing else.
LEMMA CancelMarks ==
  ASSUME NEW set, CancelAll(set), TypeOK
  PROVE  /\ job' \in [Jobs -> Job]
         /\ \A j \in Jobs :
              /\ job'[j].at = job[j].at /\ job'[j].ending = job[j].ending
              /\ job'[j].heard = job[j].heard /\ job'[j].late = job[j].late
              /\ job'[j].told = job[j].told
PROOF
<1>1. job \in [Jobs -> Job]
  BY DEF TypeOK
<1>2. \A j \in Jobs : [job[j] EXCEPT !.cancelled = TRUE] \in Job
  BY <1>1 DEF Job
<1>3. QED
  BY <1>1, <1>2 DEF CancelAll, Job

\* Every stage leaves the flags as the next stage expects them.
LEMMA LifeSoundKept ==
  ASSUME TypeOK, LifeSound, Step
  PROVE  LifeSound'
PROOF
<1>1. CASE Lifecycle
  <2>1. CASE Start
    BY <2>1 DEF Start, lifeVars, jobVars, heartVars, LifeSound, TypeOK
  <2>2. CASE ConnectRaises
    BY <2>2 DEF ConnectRaises, lifeVars, jobVars, heartVars, LifeSound, TypeOK
  <2>3. CASE Connected
    BY <2>3 DEF Connected, lifeVars, jobVars, heartVars, LifeSound, TypeOK
  <2>4. CASE Greeted
    BY <2>4 DEF Greeted, lifeVars, jobVars, heartVars, LifeSound, TypeOK
  <2>5. CASE Stop
    BY <2>5 DEF Stop, lifeVars, jobVars, heartVars, LifeSound, TypeOK, Gather
  <2>6. CASE Quieted
    BY <2>6 DEF Quieted, lifeVars, jobVars, heartVars, LifeSound, TypeOK, Gather
  <2>7. CASE GraceOver
    BY <2>7 DEF GraceOver, lifeVars, jobVars, heartVars, LifeSound
  <2>8. CASE Waited
    BY <2>8 DEF Waited, lifeVars, jobVars, heartVars, LifeSound
  <2>9. CASE Parted
    BY <2>9 DEF Parted, lifeVars, jobVars, heartVars, LifeSound, TypeOK
  <2>10. CASE Close
    BY <2>10 DEF Close, lifeVars, jobVars, heartVars, LifeSound, TypeOK
  <2>11. CASE Stopped
    BY <2>11 DEF Stopped, lifeVars, jobVars, heartVars, LifeSound, TypeOK
  <2> QED
    BY <1>1, <2>1, <2>2, <2>3, <2>4, <2>5, <2>6, <2>7, <2>8, <2>9, <2>10, <2>11 DEF Lifecycle
<1>2. CASE Heart
  BY <1>2 DEF Heart, Beat, Beaten, HeartEnds, lifeVars, jobVars, heartVars, LifeSound, TypeOK
<1>3. ASSUME NEW i \in Jobs, Task(i) PROVE LifeSound'
  <2>1. CASE Spawn(i)
    BY <2>1 DEF Spawn, Ready, lifeVars, jobVars, heartVars, LifeSound, TypeOK
  <2>2. CASE Report(i)
    BY <2>2 DEF Report, lifeVars, jobVars, heartVars, LifeSound, TypeOK
  <2>3. CASE Reported(i)
    BY <2>3 DEF Reported, lifeVars, jobVars, heartVars, LifeSound, TypeOK
  <2>4. CASE Cancelled(i)
    BY <2>4 DEF Cancelled, lifeVars, jobVars, heartVars, LifeSound, TypeOK
  <2>5. CASE Forget(i)
    BY <2>5 DEF Forget, lifeVars, jobVars, heartVars, LifeSound, TypeOK
  <2> QED
    BY <1>3, <2>1, <2>2, <2>3, <2>4, <2>5 DEF Task
<1>4. ASSUME NEW h \in Probes, Probe(h) PROVE LifeSound'
  BY <1>4 DEF Probe, Ask, StoreChecked, ProviderChecked, Answer, AnswerRaises, lifeVars, jobVars, heartVars, LifeSound, TypeOK
<1> QED
  BY <1>1, <1>2, <1>3, <1>4 DEF Step

\* A beat is lost only where its life is stopped in the middle of it.
LEMMA BeatSoundKept ==
  ASSUME TypeOK, LifeSound, BeatSound, Step
  PROVE  BeatSound'
PROOF
<1>1. CASE Lifecycle
  <2>1. CASE Start
    BY <2>1 DEF Start, lifeVars, jobVars, heartVars, BeatSound, LifeSound, TypeOK
  <2>2. CASE ConnectRaises
    BY <2>2 DEF ConnectRaises, lifeVars, jobVars, heartVars, BeatSound, LifeSound, TypeOK
  <2>3. CASE Connected
    BY <2>3 DEF Connected, lifeVars, jobVars, heartVars, BeatSound, LifeSound, TypeOK
  <2>4. CASE Greeted
    BY <2>4 DEF Greeted, lifeVars, jobVars, heartVars, BeatSound, LifeSound, TypeOK
  <2>5. CASE Stop
    BY <2>5 DEF Stop, lifeVars, jobVars, heartVars, BeatSound, LifeSound, TypeOK, Gather
  <2>6. CASE Quieted
    BY <2>6 DEF Quieted, lifeVars, jobVars, heartVars, BeatSound, LifeSound, TypeOK, Gather
  <2>7. CASE GraceOver
    BY <2>7 DEF GraceOver, lifeVars, jobVars, heartVars, BeatSound
  <2>8. CASE Waited
    BY <2>8 DEF Waited, lifeVars, jobVars, heartVars, BeatSound
  <2>9. CASE Parted
    BY <2>9 DEF Parted, lifeVars, jobVars, heartVars, BeatSound, LifeSound, TypeOK
  <2>10. CASE Close
    BY <2>10 DEF Close, lifeVars, jobVars, heartVars, BeatSound, LifeSound, TypeOK
  <2>11. CASE Stopped
    BY <2>11 DEF Stopped, lifeVars, jobVars, heartVars, BeatSound, LifeSound, TypeOK
  <2> QED
    BY <1>1, <2>1, <2>2, <2>3, <2>4, <2>5, <2>6, <2>7, <2>8, <2>9, <2>10, <2>11 DEF Lifecycle
<1>2. CASE Heart
  BY <1>2 DEF Heart, Beat, Beaten, HeartEnds, lifeVars, jobVars, heartVars, BeatSound, LifeSound, TypeOK
<1>3. ASSUME NEW i \in Jobs, Task(i) PROVE BeatSound'
  <2>1. CASE Spawn(i)
    BY <2>1 DEF Spawn, Ready, lifeVars, jobVars, heartVars, BeatSound, LifeSound, TypeOK
  <2>2. CASE Report(i)
    BY <2>2 DEF Report, lifeVars, jobVars, heartVars, BeatSound, LifeSound, TypeOK
  <2>3. CASE Reported(i)
    BY <2>3 DEF Reported, lifeVars, jobVars, heartVars, BeatSound, LifeSound, TypeOK
  <2>4. CASE Cancelled(i)
    BY <2>4 DEF Cancelled, lifeVars, jobVars, heartVars, BeatSound, LifeSound, TypeOK
  <2>5. CASE Forget(i)
    BY <2>5 DEF Forget, lifeVars, jobVars, heartVars, BeatSound, LifeSound, TypeOK
  <2> QED
    BY <1>3, <2>1, <2>2, <2>3, <2>4, <2>5 DEF Task
<1>4. ASSUME NEW h \in Probes, Probe(h) PROVE BeatSound'
  BY <1>4 DEF Probe, Ask, StoreChecked, ProviderChecked, Answer, AnswerRaises, lifeVars, jobVars, heartVars, BeatSound, LifeSound, TypeOK
<1> QED
  BY <1>1, <1>2, <1>3, <1>4 DEF Step

\* What a step of one task does to it, field by field, and that it leaves the
\* others alone.
LEMMA TaskMoves ==
  ASSUME TypeOK, LifeSound, NEW i \in Jobs
  PROVE  /\ Spawn(i) => /\ job' \in [Jobs -> Job] /\ \A j \in Jobs \ {i} : job'[j] = job[j]
                        /\ job'[i].at = "running" /\ job[i].at = "new"
                        /\ job'[i].late = (life \notin {"greeting", "up", "quieting"})
                        /\ active' = active \cup {i} /\ counts' = counts
                        /\ UNCHANGED <<lifeVars, heartVars, probe>>
         /\ Report(i) => /\ job' \in [Jobs -> Job] /\ \A j \in Jobs \ {i} : job'[j] = job[j]
                         /\ job'[i].at = "publishing" /\ job[i].at = "running"
                         /\ job'[i].late = job[i].late /\ job'[i].ending \in Endings
                         /\ job'[i].heard = attached /\ job'[i].told = (attached # 0)
                         /\ UNCHANGED <<active, counts>>
                         /\ UNCHANGED <<lifeVars, heartVars, probe>>
         /\ Reported(i) => /\ job' \in [Jobs -> Job] /\ \A j \in Jobs \ {i} : job'[j] = job[j]
                           /\ job'[i].at = "done" /\ job[i].at = "publishing"
                           /\ job'[i].ending = job[i].ending /\ job'[i].told = job[i].told
                           /\ active' = active /\ counts' = [counts EXCEPT ![job[i].ending] = @ + job[i].heard]
                           /\ UNCHANGED <<lifeVars, heartVars, probe>>
         /\ Cancelled(i) => /\ job' \in [Jobs -> Job] /\ \A j \in Jobs \ {i} : job'[j] = job[j]
                            /\ job'[i].at = "done" /\ Running(i)
                            /\ job'[i].ending = "none" /\ ~job'[i].told
                            /\ UNCHANGED <<active, counts>>
                            /\ UNCHANGED <<lifeVars, heartVars, probe>>
PROOF
<1>1. job \in [Jobs -> Job] /\ job[i] \in Job /\ attached \in Nat
  BY DEF TypeOK
<1>2. ASSUME Spawn(i)
      PROVE  /\ job' \in [Jobs -> Job] /\ \A j \in Jobs \ {i} : job'[j] = job[j]
             /\ job'[i].at = "running" /\ job[i].at = "new"
             /\ job'[i].late = (life \notin {"greeting", "up", "quieting"})
             /\ active' = active \cup {i} /\ counts' = counts
             /\ UNCHANGED <<lifeVars, heartVars, probe>>
  <2>1. PICK r \in Job : r = [job[i] EXCEPT !.at = "running",
                                  !.late = life \notin {"greeting", "up", "quieting"}]
    BY <1>1 DEF Job
  <2>2. job' = [job EXCEPT ![i] = r]
    BY <1>2, <2>1 DEF Spawn, Ready
  <2>3. r.at = "running" /\ r.late = (life \notin {"greeting", "up", "quieting"})
    BY <1>1, <2>1 DEF Job
  <2> QED
    BY <1>1, <1>2, <2>2, <2>3 DEF Spawn, Ready
<1>3. ASSUME Report(i)
      PROVE  /\ job' \in [Jobs -> Job] /\ \A j \in Jobs \ {i} : job'[j] = job[j]
             /\ job'[i].at = "publishing" /\ job[i].at = "running"
             /\ job'[i].late = job[i].late /\ job'[i].ending \in Endings
             /\ job'[i].heard = attached /\ job'[i].told = (attached # 0)
             /\ UNCHANGED <<active, counts>>
             /\ UNCHANGED <<lifeVars, heartVars, probe>>
  <2>1. PICK ending \in Endings :
          job' = [job EXCEPT ![i].at = "publishing", ![i].ending = ending,
                             ![i].heard = attached, ![i].told = attached # 0]
    BY <1>3 DEF Report
  <2>2. PICK r \in Job :
          r = [job[i] EXCEPT !.at = "publishing", !.ending = ending,
                             !.heard = attached, !.told = attached # 0]
    BY <1>1 DEF Job
  <2>3. job' = [job EXCEPT ![i] = r]
    BY <2>1, <2>2
  <2>4. /\ r.at = "publishing" /\ r.ending = ending /\ r.heard = attached
        /\ r.told = (attached # 0) /\ r.late = job[i].late
    BY <1>1, <2>2 DEF Job
  <2> QED
    BY <1>1, <1>3, <2>3, <2>4 DEF Report
<1>4. ASSUME Reported(i)
      PROVE  /\ job' \in [Jobs -> Job] /\ \A j \in Jobs \ {i} : job'[j] = job[j]
             /\ job'[i].at = "done" /\ job[i].at = "publishing"
             /\ job'[i].ending = job[i].ending /\ job'[i].told = job[i].told
             /\ active' = active /\ counts' = [counts EXCEPT ![job[i].ending] = @ + job[i].heard]
             /\ UNCHANGED <<lifeVars, heartVars, probe>>
  <2>1. PICK r \in Job : r = [job[i] EXCEPT !.at = "done"]
    BY <1>1 DEF Job
  <2>2. job' = [job EXCEPT ![i] = r]
    BY <1>4, <2>1 DEF Reported
  <2>3. r.at = "done" /\ r.ending = job[i].ending /\ r.told = job[i].told
    BY <1>1, <2>1 DEF Job
  <2> QED
    BY <1>1, <1>4, <2>2, <2>3 DEF Reported
<1>5. ASSUME Cancelled(i)
      PROVE  /\ job' \in [Jobs -> Job] /\ \A j \in Jobs \ {i} : job'[j] = job[j]
             /\ job'[i].at = "done" /\ Running(i)
             /\ job'[i].ending = "none" /\ ~job'[i].told
             /\ UNCHANGED <<active, counts>>
             /\ UNCHANGED <<lifeVars, heartVars, probe>>
  <2>1. PICK r \in Job : r = [job[i] EXCEPT !.at = "done", !.ending = "none", !.told = FALSE]
    BY <1>1 DEF Job
  <2>2. job' = [job EXCEPT ![i] = r]
    BY <1>5, <2>1 DEF Cancelled
  <2>3. r.at = "done" /\ r.ending = "none" /\ ~r.told
    BY <1>1, <2>1 DEF Job
  <2>4. Running(i) /\ UNCHANGED <<active, counts>> /\ UNCHANGED <<lifeVars, heartVars, probe>>
    BY <1>5, Zenon DEF Cancelled
  <2> QED
    BY <1>1, <2>2, <2>3, <2>4
<1> QED
  BY <1>2, <1>3, <1>4, <1>5

\* Every step keeps the types.
LEMMA TypeKept ==
  ASSUME TypeOK, LifeSound, ToldOnce, Step
  PROVE  TypeOK'
PROOF
<1>1. CASE Lifecycle
  <2>1. CASE Start
    BY <2>1, RuntimeAssumption DEF Start, lifeVars, jobVars, heartVars, TypeOK, Lives
  <2>2. CASE ConnectRaises
    BY <2>2 DEF ConnectRaises, lifeVars, jobVars, heartVars, TypeOK, Lives
  <2>3. CASE Connected
    BY <2>3 DEF Connected, lifeVars, jobVars, heartVars, TypeOK, Lives, LifeSound
  <2>4. CASE Greeted
    BY <2>4 DEF Greeted, lifeVars, jobVars, heartVars, TypeOK, Lives
  <2>5. CASE Stop
    BY <2>5 DEF Stop, lifeVars, jobVars, heartVars, TypeOK, Lives, Gather
  <2>6. CASE Quieted
    BY <2>6 DEF Quieted, lifeVars, jobVars, heartVars, TypeOK, Lives, Gather
  <2>7. CASE GraceOver
    BY <2>7, CancelMarks DEF GraceOver, lifeVars, jobVars, heartVars, TypeOK, Lives
  <2>8. CASE Waited
    BY <2>8, CancelMarks DEF Waited, lifeVars, jobVars, heartVars, TypeOK, Lives
  <2>9. CASE Parted
    BY <2>9 DEF Parted, lifeVars, jobVars, heartVars, TypeOK, Lives
  <2>10. CASE Close
    BY <2>10 DEF Close, lifeVars, jobVars, heartVars, TypeOK, Lives
  <2>11. CASE Stopped
    BY <2>11 DEF Stopped, lifeVars, jobVars, heartVars, TypeOK, Lives
  <2> QED
    BY <1>1, <2>1, <2>2, <2>3, <2>4, <2>5, <2>6, <2>7, <2>8, <2>9, <2>10, <2>11 DEF Lifecycle
<1>2. CASE Heart
  <2>1. beats' \in 0..MaxBeats /\ counted' \in Nat
    BY <1>2, RuntimeAssumption DEF Heart, Beat, Beaten, HeartEnds, heartVars, TypeOK
  <2>2. heart' \in {"off", "sleeping", "beating", "ended"} /\ UNCHANGED <<lifeVars, jobVars, probe>>
    BY <1>2 DEF Heart, Beat, Beaten, HeartEnds
  <2> QED
    BY <2>1, <2>2 DEF lifeVars, jobVars, heartVars, TypeOK
<1>3. ASSUME NEW i \in Jobs, Task(i) PROVE TypeOK'
  <2>1. CASE Spawn(i)
    BY <2>1, TaskMoves DEF lifeVars, jobVars, heartVars, TypeOK, Lives
  <2>2. CASE Report(i)
    BY <2>2, TaskMoves DEF lifeVars, jobVars, heartVars, TypeOK, Lives
  <2>3. CASE Reported(i)
    <3>1. job[i].ending \in Endings /\ job[i].heard \in Nat
      BY <2>3, JobField DEF Reported, ToldOnce
    <3>2. counts' \in [Endings -> Nat]
      BY <2>3, <3>1, TaskMoves DEF TypeOK
    <3> QED
      BY <2>3, <3>2, TaskMoves DEF lifeVars, jobVars, heartVars, TypeOK, Lives
  <2>4. CASE Cancelled(i)
    BY <2>4, TaskMoves DEF lifeVars, jobVars, heartVars, TypeOK, Lives
  <2>5. CASE Forget(i)
    BY <2>5 DEF Forget, lifeVars, jobVars, heartVars, TypeOK, Lives
  <2> QED
    BY <1>3, <2>1, <2>2, <2>3, <2>4, <2>5 DEF Task
<1>4. ASSUME NEW h \in Probes, Probe(h) PROVE TypeOK'
  <2>1. probe' \in [Probes -> [at : {"away", "asked", "checked", "healthy", "unhealthy",
                                       "answered", "raised"}, ok : BOOLEAN]]
    <3>1. CASE Ask(h)
      BY <3>1 DEF Ask, Ready, TypeOK
    <3>2. CASE StoreChecked(h)
      <4>1. PICK ok \in BOOLEAN : probe' = [probe EXCEPT ![h] = [at |-> "checked", ok |-> ok]]
        BY <3>2 DEF StoreChecked, TypeOK
      <4> QED
        BY <4>1 DEF TypeOK
    <3>3. CASE ProviderChecked(h)
      BY <3>3 DEF ProviderChecked, TypeOK
    <3>4. CASE Answer(h)
      BY <3>4 DEF Answer, TypeOK
    <3>5. CASE AnswerRaises(h)
      BY <3>5 DEF AnswerRaises, TypeOK
    <3> QED
      BY <1>4, <3>1, <3>2, <3>3, <3>4, <3>5 DEF Probe
  <2>2. status' \in {"starting", "healthy", "degraded", "stopping", "stopped"}
    BY <1>4 DEF Probe, Ask, StoreChecked, ProviderChecked, Answer, AnswerRaises, lifeVars, jobVars, heartVars, TypeOK, Judged
  <2> QED
    BY <1>4, <2>1, <2>2 DEF Probe, Ask, StoreChecked, ProviderChecked, Answer, AnswerRaises, lifeVars, jobVars, heartVars, TypeOK, Lives
<1> QED
  BY <1>1, <1>2, <1>3, <1>4 DEF Step

\* stop loses sight of no task that was there before it looked.
LEMMA LateSoundKept ==
  ASSUME TypeOK, LifeSound, LateSound, Step
  PROVE  LateSound'
PROOF
<1>1. CASE Lifecycle
  <2>1. CASE Start
    BY <2>1 DEF Start, lifeVars, jobVars, heartVars, LateSound, Running, Done
  <2>2. CASE ConnectRaises
    BY <2>2 DEF ConnectRaises, lifeVars, jobVars, heartVars, LateSound, Running, Done
  <2>3. CASE Connected
    BY <2>3 DEF Connected, lifeVars, jobVars, heartVars, LateSound, Running, Done
  <2>4. CASE Greeted
    BY <2>4 DEF Greeted, lifeVars, jobVars, heartVars, LateSound, Running, Done
  <2>5. CASE Stop
    BY <2>5 DEF Stop, lifeVars, jobVars, heartVars, LateSound, Running, Done, Gather
  <2>6. CASE Quieted
    BY <2>6 DEF Quieted, lifeVars, jobVars, heartVars, LateSound, Running, Done, Gather
  <2>7. CASE GraceOver
    BY <2>7, CancelMarks DEF GraceOver, lifeVars, jobVars, heartVars, LateSound, Running, Done
  <2>8. CASE Waited
    BY <2>8, CancelMarks DEF Waited, lifeVars, jobVars, heartVars, LateSound, Running, Done
  <2>9. CASE Parted
    BY <2>9 DEF Parted, lifeVars, jobVars, heartVars, LateSound, Running, Done
  <2>10. CASE Close
    BY <2>10 DEF Close, lifeVars, jobVars, heartVars, LateSound, Running, Done
  <2>11. CASE Stopped
    BY <2>11 DEF Stopped, lifeVars, jobVars, heartVars, LateSound, Running, Done
  <2> QED
    BY <1>1, <2>1, <2>2, <2>3, <2>4, <2>5, <2>6, <2>7, <2>8, <2>9, <2>10, <2>11 DEF Lifecycle
<1>2. CASE Heart
  BY <1>2 DEF Heart, Beat, Beaten, HeartEnds, lifeVars, jobVars, heartVars, LateSound, Running, Done
<1>3. ASSUME NEW i \in Jobs, Task(i) PROVE LateSound'
  <2>1. CASE Spawn(i)
    BY <2>1, TaskMoves DEF lifeVars, jobVars, heartVars, LateSound, Running, Done, LifeSound
  <2>2. CASE Report(i)
    BY <2>2, TaskMoves DEF lifeVars, jobVars, heartVars, LateSound, Running, Done
  <2>3. CASE Reported(i)
    BY <2>3, TaskMoves DEF lifeVars, jobVars, heartVars, LateSound, Running, Done
  <2>4. CASE Cancelled(i)
    BY <2>4, TaskMoves DEF lifeVars, jobVars, heartVars, LateSound, Running, Done
  <2>5. CASE Forget(i)
    BY <2>5 DEF Forget, lifeVars, jobVars, heartVars, LateSound, Running, Done
  <2> QED
    BY <1>3, <2>1, <2>2, <2>3, <2>4, <2>5 DEF Task
<1>4. ASSUME NEW h \in Probes, Probe(h) PROVE LateSound'
  BY <1>4 DEF Probe, Ask, StoreChecked, ProviderChecked, Answer, AnswerRaises, lifeVars, jobVars, heartVars, LateSound, Running, Done
<1> QED
  BY <1>1, <1>2, <1>3, <1>4 DEF Step

\* The bus carries the counters' handler at most once.
LEMMA ToldOnceKept ==
  ASSUME TypeOK, LifeSound, ToldOnce, Step
  PROVE  ToldOnce'
PROOF
<1>1. CASE Lifecycle
  <2>1. CASE Start
    BY <2>1 DEF Start, lifeVars, jobVars, heartVars, ToldOnce
  <2>2. CASE ConnectRaises
    BY <2>2 DEF ConnectRaises, lifeVars, jobVars, heartVars, ToldOnce
  <2>3. CASE Connected
    BY <2>3 DEF Connected, lifeVars, jobVars, heartVars, ToldOnce
  <2>4. CASE Greeted
    BY <2>4 DEF Greeted, lifeVars, jobVars, heartVars, ToldOnce
  <2>5. CASE Stop
    BY <2>5 DEF Stop, lifeVars, jobVars, heartVars, ToldOnce, Gather
  <2>6. CASE Quieted
    BY <2>6 DEF Quieted, lifeVars, jobVars, heartVars, ToldOnce, Gather
  <2>7. CASE GraceOver
    BY <2>7, CancelMarks DEF GraceOver, lifeVars, jobVars, heartVars, ToldOnce
  <2>8. CASE Waited
    BY <2>8, CancelMarks DEF Waited, lifeVars, jobVars, heartVars, ToldOnce
  <2>9. CASE Parted
    BY <2>9 DEF Parted, lifeVars, jobVars, heartVars, ToldOnce
  <2>10. CASE Close
    BY <2>10 DEF Close, lifeVars, jobVars, heartVars, ToldOnce
  <2>11. CASE Stopped
    BY <2>11 DEF Stopped, lifeVars, jobVars, heartVars, ToldOnce
  <2> QED
    BY <1>1, <2>1, <2>2, <2>3, <2>4, <2>5, <2>6, <2>7, <2>8, <2>9, <2>10, <2>11 DEF Lifecycle
<1>2. CASE Heart
  BY <1>2 DEF Heart, Beat, Beaten, HeartEnds, lifeVars, jobVars, heartVars, ToldOnce
<1>3. ASSUME NEW i \in Jobs, Task(i) PROVE ToldOnce'
  <2>1. CASE Spawn(i)
    BY <2>1, TaskMoves DEF lifeVars, jobVars, heartVars, ToldOnce
  <2>2. CASE Report(i)
    <3>1. attached \in {0, 1}
      BY DEF TypeOK
    <3>2. /\ job'[i].ending \in Endings
          /\ job'[i].told => job'[i].heard = 1
          /\ ~job'[i].told => job'[i].heard = 0
      BY <2>2, <3>1, TaskMoves
    <3> QED
      BY <2>2, <3>2, TaskMoves DEF ToldOnce
  <2>3. CASE Reported(i)
    BY <2>3, TaskMoves DEF lifeVars, jobVars, heartVars, ToldOnce
  <2>4. CASE Cancelled(i)
    BY <2>4, TaskMoves DEF lifeVars, jobVars, heartVars, ToldOnce
  <2>5. CASE Forget(i)
    BY <2>5 DEF Forget, lifeVars, jobVars, heartVars, ToldOnce
  <2> QED
    BY <1>3, <2>1, <2>2, <2>3, <2>4, <2>5 DEF Task
<1>4. ASSUME NEW h \in Probes, Probe(h) PROVE ToldOnce'
  BY <1>4 DEF Probe, Ask, StoreChecked, ProviderChecked, Answer, AnswerRaises, lifeVars, jobVars, heartVars, ToldOnce
<1> QED
  BY <1>1, <1>2, <1>3, <1>4 DEF Step

\* Adding a task to those that reported themselves counts one more.
LEMMA OneMore ==
  ASSUME NEW S, IsFiniteSet(S), NEW x, x \notin S
  PROVE  Cardinality(S \cup {x}) = Cardinality(S) + 1
  BY FS_AddElement

\* The counters count on the publications they hear, which are those told to them.
LEMMA CountersKept ==
  ASSUME TypeOK, LifeSound, ToldOnce, CountersAgree, Step
  PROVE  CountersAgree'
PROOF
<1> USE DEF Told
<1>1. SUFFICES ASSUME NEW kind \in Endings
               PROVE  counts'[kind] = Cardinality(Told(kind)')
  BY DEF CountersAgree
<1>2. counts[kind] = Cardinality(Told(kind))
  BY DEF CountersAgree
<1>3. ASSUME counts' = counts, \A j \in Jobs : j \in Told(kind)' <=> j \in Told(kind)
      PROVE  counts'[kind] = Cardinality(Told(kind)')
  BY <1>2, <1>3
<1>4. CASE Lifecycle
  <2>1. CASE GraceOver \/ Waited
    BY <2>1, <1>3, CancelMarks DEF GraceOver, Waited, lifeVars, Done
  <2>2. CASE ~(GraceOver \/ Waited)
    BY <2>2, <1>3, <1>4 DEF Lifecycle, Start, ConnectRaises, Connected, Greeted, Stop, Quieted,
      Parted, Close, Stopped, jobVars, Done
  <2> QED
    BY <2>1, <2>2
<1>5. CASE Heart
  BY <1>3, <1>5 DEF Heart, Beat, Beaten, HeartEnds, jobVars, Done
<1>6. ASSUME NEW h \in Probes, Probe(h) PROVE counts'[kind] = Cardinality(Told(kind)')
  BY <1>3, <1>6 DEF Probe, Ask, StoreChecked, ProviderChecked, Answer, AnswerRaises, jobVars, Done
<1>7. ASSUME NEW i \in Jobs, Task(i) PROVE counts'[kind] = Cardinality(Told(kind)')
  <2>1. CASE Spawn(i)
    BY <2>1, <1>3, TaskMoves DEF Done
  <2>2. CASE Report(i)
    BY <2>2, <1>3, TaskMoves DEF Done
  <2>3. CASE Reported(i)
    <3>1. /\ job[i].ending \in Endings /\ job[i].heard \in {0, 1}
          /\ job[i].told <=> job[i].heard = 1
      BY <2>3, JobField DEF Reported, ToldOnce
    <3>2. counts'[kind] = IF kind = job[i].ending THEN counts[kind] + job[i].heard ELSE counts[kind]
      BY <2>3, <3>1, TaskMoves DEF TypeOK
    <3>3. IsFiniteSet(Told(kind)) /\ i \notin Told(kind)
      BY <2>3, RuntimeAssumption, FS_Subset DEF Reported, Done
    <3>4. CASE kind = job[i].ending /\ job[i].told
      <4>1. Told(kind)' = Told(kind) \cup {i}
        BY <2>3, <3>4, TaskMoves DEF Done
      <4>2. Cardinality(Told(kind)') = Cardinality(Told(kind)) + 1
        BY <3>3, <4>1, OneMore
      <4> QED
        BY <1>2, <3>1, <3>2, <3>4, <4>2
    <3>5. CASE ~(kind = job[i].ending /\ job[i].told)
      <4>1. \A j \in Jobs : j \in Told(kind)' <=> j \in Told(kind)
        BY <2>3, <3>3, <3>5, TaskMoves DEF Done
      <4>2. Told(kind)' = Told(kind)
        BY <4>1
      <4>3. counts[kind] \in Nat
        BY DEF TypeOK
      <4>4. counts'[kind] = counts[kind]
        BY <3>1, <3>2, <3>5, <4>3
      <4> QED
        BY <1>2, <4>2, <4>4, Zenon
    <3> QED
      BY <3>4, <3>5
  <2>4. CASE Cancelled(i)
    <3>1. \A j \in Jobs : j \in Told(kind)' <=> j \in Told(kind)
      BY <2>4, TaskMoves DEF Done, Running
    <3> QED
      BY <2>4, <3>1, <1>3, TaskMoves
  <2>5. CASE Forget(i)
    BY <2>5, <1>3 DEF Forget, Done
  <2> QED
    BY <1>7, <2>1, <2>2, <2>3, <2>4, <2>5 DEF Task
<1> QED
  BY <1>4, <1>5, <1>6, <1>7 DEF Step

-----------------------------------------------------------------------------
\* No objective has run, and nothing has been counted.
LEMMA InitSound == Init => IInv
PROOF
<1> SUFFICES ASSUME Init PROVE IInv
  OBVIOUS
<1>1. TypeOK
  <2>1. NewJob \in Job
    BY DEF NewJob, Job, Endings
  <2>2. job \in [Jobs -> Job] /\ counts \in [Endings -> Nat]
    BY <2>1 DEF Init
  <2>3. probe \in [Probes -> [at : {"away", "asked", "checked", "healthy", "unhealthy",
                                 "answered", "raised"}, ok : BOOLEAN]]
    BY DEF Init
  <2>4. /\ life \in Lives /\ starts \in 0..MaxStarts /\ beats \in 0..MaxBeats
        /\ attached \in {0, 1} /\ counted \in Nat
    BY RuntimeAssumption DEF Init, Lives
  <2>5. /\ started \in BOOLEAN /\ open \in BOOLEAN
        /\ status \in {"starting", "healthy", "degraded", "stopping", "stopped"}
        /\ gathered \subseteq Jobs /\ active \subseteq Jobs
        /\ heart \in {"off", "sleeping", "beating", "ended"}
    BY DEF Init
  <2> QED
    BY <2>2, <2>3, <2>4, <2>5 DEF TypeOK
<1>2. \A j \in Jobs : job[j].at = "new"
  BY DEF Init, NewJob
<1>3. LifeSound /\ LateSound /\ BeatSound /\ ToldOnce
  BY <1>2 DEF Init, LifeSound, LateSound, BeatSound, ToldOnce, Running
<1>4. CountersAgree
  <2>1. \A kind \in Endings : Told(kind) = {}
    BY <1>2 DEF Told, Done
  <2> QED
    BY <2>1, FS_EmptySet DEF CountersAgree, Init, Told
<1> QED
  BY <1>1, <1>3, <1>4 DEF IInv

\* A stutter keeps everything.
LEMMA StutterSound == IInv /\ UNCHANGED vars => IInv'
PROOF
<1> SUFFICES ASSUME IInv, UNCHANGED vars PROVE IInv'
  OBVIOUS
<1> USE DEF vars, lifeVars, jobVars, heartVars, IInv
<1>1. TypeOK'
  BY DEF TypeOK
<1>2. LifeSound' /\ LateSound' /\ BeatSound' /\ ToldOnce'
  BY DEF LifeSound, LateSound, BeatSound, ToldOnce, Running, Done
<1>3. CountersAgree'
  BY DEF CountersAgree, Done
<1> QED
  BY <1>1, <1>2, <1>3

\* The strengthened invariant of a runtime over all its lives (heart/runtime.py).
THEOREM Invariance == Spec => []IInv
PROOF
<1>1. Init => IInv
  BY InitSound
<1>2. IInv /\ [Next]_vars => IInv'
  <2>1. ASSUME IInv, Next PROVE IInv'
    BY <2>1, NextIsStep, TypeKept, LifeSoundKept, LateSoundKept, BeatSoundKept, ToldOnceKept,
      CountersKept DEF IInv
  <2> QED
    BY <2>1, StutterSound
<1> QED
  BY <1>1, <1>2, PTL DEF Spec

\* Every variable keeps its type.
THEOREM TypeCorrect == Spec => []TypeOK
  BY Invariance, PTL DEF IInv

\* The counters are the numbers of objectives that said so of themselves.
THEOREM CountersAreRight == Spec => []CountersAgree
  BY Invariance, PTL DEF IInv

\* No task that stop could know of is left on a closed store.
THEOREM OnlyLateOnesOutlive == Spec => []OnlyLateTasksOutliveStop
PROOF
<1>1. IInv => OnlyLateTasksOutliveStop
  BY DEF IInv, LifeSound, LateSound, OnlyLateTasksOutliveStop
<1> QED
  BY <1>1, Invariance, PTL

\* A stopped runtime says that it is stopped.
THEOREM StoppedIsSaid == Spec => []StoppedSaysSo
PROOF
<1>1. IInv => StoppedSaysSo
  BY DEF IInv, LifeSound, StoppedSaysSo
<1> QED
  BY <1>1, Invariance, PTL

\* A heart beats on an open bus only, and a life loses at most one beat.
THEOREM BeatsAreCounted == Spec => []BeatsAgree
PROOF
<1>1. IInv => BeatsAgree
  BY DEF IInv, TypeOK, LifeSound, BeatSound, BeatsAgree
<1> QED
  BY <1>1, Invariance, PTL

-----------------------------------------------------------------------------
\* A stop goes forward, and can.

\* What stop knows of has begun.
Begun == \A j \in active \cup gathered : job[j].at # "new"

\* A task never goes back, and one that is cancelled only ends.
LEMMA JobsGoOn ==
  ASSUME TypeOK, LifeSound, Step, NEW j \in Jobs
  PROVE  /\ job'[j].at = "new" => job[j].at = "new"
         /\ Done(j) => job'[j].at = "done"
         /\ job[j].at # "new" /\ job[j].cancelled => job'[j] = job[j] \/ job'[j].at = "done"
PROOF
<1> USE DEF Done
<1>1. job \in [Jobs -> Job] /\ job[j] \in Job
  BY DEF TypeOK
<1>2. CASE UNCHANGED job
  BY <1>2
<1>3. ASSUME NEW set, CancelAll(set)
      PROVE  /\ job'[j].at = job[j].at
             /\ job'[j] = job[j] \/ job'[j].cancelled
             /\ job[j].cancelled => job'[j] = job[j]
  <2>1. job[j].cancelled => [job[j] EXCEPT !.cancelled = TRUE] = job[j]
    BY <1>1 DEF Job, TypeOK
  <2>2. [job[j] EXCEPT !.cancelled = TRUE].cancelled
    BY <1>1 DEF Job
  <2>3. job'[j] = job[j] \/ job'[j] = [job[j] EXCEPT !.cancelled = TRUE]
    BY <1>3 DEF CancelAll
  <2>4. job'[j].at = job[j].at
    BY <1>3, CancelMarks
  <2> QED
    BY <2>1, <2>2, <2>3, <2>4
<1>4. CASE Lifecycle
  <2>1. UNCHANGED job \/ \E set : CancelAll(set)
    BY <1>4 DEF Lifecycle, Start, ConnectRaises, Connected, Greeted, Stop, Quieted, GraceOver,
      Waited, Parted, Close, Stopped, lifeVars, jobVars
  <2> QED
    BY <2>1, <1>2, <1>3
<1>5. CASE Heart
  BY <1>2, <1>5 DEF Heart, Beat, Beaten, HeartEnds, jobVars
<1>6. ASSUME NEW i \in Jobs, Task(i)
      PROVE  /\ job'[j].at = "new" => job[j].at = "new"
             /\ job[j].at = "done" => job'[j].at = "done"
             /\ job[j].at # "new" /\ job[j].cancelled => job'[j] = job[j] \/ job'[j].at = "done"
  <2>1. CASE Spawn(i)
    BY <2>1, TaskMoves
  <2>2. CASE Report(i)
    <3>1. /\ \A k \in Jobs \ {i} : job'[k] = job[k]
          /\ job'[i].at = "publishing" /\ job[i].at = "running"
      BY <2>2, TaskMoves
    <3>2. ~job[i].cancelled
      BY <2>2 DEF Report
    <3> QED
      BY <3>1, <3>2
  <2>3. CASE Reported(i) \/ Cancelled(i)
    BY <2>3, TaskMoves
  <2>4. CASE Forget(i)
    BY <2>4, <1>2 DEF Forget
  <2> QED
    BY <1>6, <2>1, <2>2, <2>3, <2>4 DEF Task
<1>7. ASSUME NEW h \in Probes, Probe(h)
      PROVE  UNCHANGED job
  BY <1>7 DEF Probe, Ask, StoreChecked, ProviderChecked, Answer, AnswerRaises, jobVars
<1> QED
  BY <1>2, <1>4, <1>5, <1>6, <1>7 DEF Step

\* What a step of the lifecycle does with the stages and those it waits for.
LEMMA StageMoves ==
  ASSUME TypeOK, LifeSound, Step
  PROVE  /\ gathered' \subseteq active \cup gathered
         /\ active' \subseteq active \cup {j \in Jobs : job'[j].at # "new"}
         /\ StagesLeft > 0 => UNCHANGED life \/ StagesLeft' < StagesLeft
         /\ life = "waiting" => gathered' = gathered
PROOF
<1>1. CASE Lifecycle
  BY <1>1 DEF Lifecycle, Start, ConnectRaises, Connected, Greeted, Stop, Quieted, Gather,
    GraceOver, Waited, Parted, Close, Stopped, lifeVars, jobVars, StagesLeft
<1>2. CASE Heart
  BY <1>2 DEF Heart, Beat, Beaten, HeartEnds, lifeVars, jobVars, StagesLeft
<1>3. ASSUME NEW i \in Jobs, Task(i)
      PROVE  /\ UNCHANGED <<life, gathered>>
             /\ active' \subseteq active \cup {j \in Jobs : job'[j].at # "new"}
  <2>1. CASE Spawn(i)
    BY <2>1, TaskMoves DEF lifeVars
  <2>2. CASE Report(i) \/ Reported(i) \/ Cancelled(i)
    BY <2>2, TaskMoves DEF lifeVars
  <2>3. CASE Forget(i)
    BY <2>3 DEF Forget, lifeVars
  <2> QED
    BY <1>3, <2>1, <2>2, <2>3 DEF Task
<1>4. ASSUME NEW h \in Probes, Probe(h)
      PROVE  UNCHANGED <<life, gathered, active>>
  BY <1>4 DEF Probe, Ask, StoreChecked, ProviderChecked, Answer, AnswerRaises, lifeVars, jobVars
<1> QED
  BY <1>1, <1>2, <1>3, <1>4 DEF Step, StagesLeft

LEMMA BegunKept ==
  ASSUME IInv, Begun, [Next]_vars
  PROVE  Begun'
PROOF
<1>1. CASE UNCHANGED vars
  BY <1>1 DEF vars, lifeVars, jobVars, Begun
<1>2. CASE Next
  <2>1. Step /\ TypeOK /\ LifeSound
    BY <1>2, NextIsStep DEF IInv
  <2>2. active \subseteq Jobs /\ gathered \subseteq Jobs
    BY <2>1 DEF TypeOK
  <2> QED
    BY <2>1, <2>2, JobsGoOn, StageMoves DEF Begun
<1> QED
  BY <1>1, <1>2

\* A heart that stop waits for is there until stop has seen it end.
HeartHeld == life = "quieting" => heart # "off"

LEMMA HeartHeldKept ==
  ASSUME IInv, HeartHeld, [Next]_vars
  PROVE  HeartHeld'
PROOF
<1> USE DEF HeartHeld, lifeVars, heartVars
<1>1. CASE UNCHANGED vars
  BY <1>1 DEF vars
<1>2. CASE Next
  <2>1. Step /\ TypeOK /\ LifeSound
    BY <1>2, NextIsStep DEF IInv
  <2>2. CASE Lifecycle
    BY <2>2 DEF Lifecycle, Start, ConnectRaises, Connected, Greeted, Stop, Quieted, Gather,
      GraceOver, Waited, Parted, Close, Stopped
  <2>3. CASE Heart
    BY <2>3 DEF Heart, Beat, Beaten, HeartEnds
  <2>4. ASSUME NEW i \in Jobs, Task(i)
        PROVE  UNCHANGED <<life, heart>>
    BY <2>4, Zenon DEF Task, Spawn, Report, Reported, Cancelled, Forget
  <2>5. ASSUME NEW h \in Probes, Probe(h)
        PROVE  UNCHANGED <<life, heart>>
    BY <2>5 DEF Probe, Ask, StoreChecked, ProviderChecked, Answer, AnswerRaises
  <2> QED
    BY <2>1, <2>2, <2>3, <2>4, <2>5 DEF Step
<1> QED
  BY <1>1, <1>2

LEMMA StopStep ==
  ASSUME IInv, Begun, Step, StagesLeft > 0
  PROVE  \/ StagesLeft' < StagesLeft
         \/ /\ UNCHANGED life
            /\ life = "waiting" =>
                 /\ Outstanding' \subseteq Outstanding /\ Unwarned' \subseteq Unwarned
                 /\ GraceOver => Unwarned # {} /\ Unwarned' = {}
                 /\ \A j \in Outstanding \ Unwarned :
                      UNCHANGED job[j] \/ j \notin Outstanding'
PROOF
<1>1. TypeOK /\ LifeSound
  BY DEF IInv
<1>2. StagesLeft' < StagesLeft \/ UNCHANGED life
  BY <1>1, StageMoves
<1>3. ASSUME life = "waiting"
      PROVE  /\ Outstanding' \subseteq Outstanding /\ Unwarned' \subseteq Unwarned
             /\ GraceOver => Unwarned # {} /\ Unwarned' = {}
             /\ \A j \in Outstanding \ Unwarned :
                  UNCHANGED job[j] \/ j \notin Outstanding'
  <2>1. gathered' = gathered /\ gathered \subseteq Jobs
    BY <1>1, <1>3, StageMoves DEF TypeOK
  <2>2. Outstanding = {j \in gathered : job[j].at # "done"}
        /\ Outstanding' = {j \in gathered : job'[j].at # "done"}
    BY <2>1 DEF Outstanding, Done
  <2>3. /\ Unwarned = {j \in Outstanding : ~job[j].cancelled}
        /\ Unwarned' = {j \in Outstanding' : ~job'[j].cancelled}
    BY DEF Unwarned
  <2>4. \A j \in gathered : job[j].at # "done" \/ job'[j].at = "done"
    BY <1>1, <2>1, JobsGoOn DEF Done
  <2>5. Outstanding' \subseteq Outstanding
    BY <2>2, <2>4
  <2>6. \A j \in Outstanding : job[j].at # "new"
    BY <2>2 DEF Begun
  <2>7. \A j \in Outstanding : job[j].cancelled => job'[j] = job[j] \/ job'[j].at = "done"
    BY <1>1, <2>1, <2>2, <2>6, JobsGoOn
  <2>8. Unwarned' \subseteq Unwarned
    BY <2>2, <2>3, <2>5, <2>7
  <2>9. \A j \in Outstanding \ Unwarned : UNCHANGED job[j] \/ j \notin Outstanding'
    BY <2>2, <2>3, <2>7
  <2>10. ASSUME GraceOver
         PROVE  Unwarned # {} /\ Unwarned' = {}
    <3>1. Unwarned # {}
      BY <2>10 DEF GraceOver, Unwarned, Outstanding
    <3>2. \A j \in Outstanding : job'[j] = [job[j] EXCEPT !.cancelled = TRUE]
      BY <2>1, <2>2, <2>10 DEF GraceOver, CancelAll, Done
    <3>3. \A j \in Jobs : job[j] \in Job
      BY <1>1 DEF TypeOK
    <3>4. \A j \in Outstanding : job'[j].cancelled
      BY <2>1, <2>2, <3>2, <3>3 DEF Job
    <3> QED
      BY <2>3, <2>5, <3>1, <3>4
  <2> QED
    BY <2>5, <2>8, <2>9, <2>10
<1> QED
  BY <1>2, <1>3

\* For any objectives: a stop that has begun goes forward stage by stage; what it
\* waits for gets no company, is cancelled when the grace is over and can then only
\* end; and at no point is it without somebody that can take it further
\* (Runtime.stop in heart/runtime.py).  With the fairness of FairSpec this is what
\* ends every stop.
THEOREM StopIsBounded == Spec => StopAdvances /\ []StopCanGoOn
PROOF
<1>1. Init => Begun /\ HeartHeld
  BY DEF Init, Begun, HeartHeld
<1>2. IInv /\ Begun /\ [Next]_vars => Begun'
  BY BegunKept
<1>3. IInv /\ HeartHeld /\ [Next]_vars => HeartHeld'
  BY HeartHeldKept
<1>4. IInv /\ Begun /\ HeartHeld => StopCanGoOn
  <2>1. TypeOK /\ Begun => \A j \in gathered : Running(j) \/ Done(j)
    BY DEF TypeOK, Job, Begun, Running, Done
  <2> QED
    BY <2>1 DEF IInv, HeartHeld, StopCanGoOn
<1>5. IInv /\ Begun /\ [Next]_vars =>
        [StagesLeft > 0 =>
           \/ StagesLeft' < StagesLeft
           \/ /\ UNCHANGED life
              /\ life = "waiting" =>
                   /\ Outstanding' \subseteq Outstanding /\ Unwarned' \subseteq Unwarned
                   /\ GraceOver => Unwarned # {} /\ Unwarned' = {}
                   /\ \A j \in Outstanding \ Unwarned :
                        UNCHANGED job[j] \/ j \notin Outstanding']_vars
  <2> SUFFICES ASSUME IInv, Begun, Next, StagesLeft > 0
               PROVE  \/ StagesLeft' < StagesLeft
                      \/ /\ UNCHANGED life
                         /\ life = "waiting" =>
                              /\ Outstanding' \subseteq Outstanding
                              /\ Unwarned' \subseteq Unwarned
                              /\ GraceOver => Unwarned # {} /\ Unwarned' = {}
                              /\ \A j \in Outstanding \ Unwarned :
                                   UNCHANGED job[j] \/ j \notin Outstanding'
    OBVIOUS
  <2> QED
    BY NextIsStep, StopStep
<1> QED
  BY <1>1, <1>2, <1>3, <1>4, <1>5, Invariance, PTL DEF Spec, StopAdvances
================================================================================

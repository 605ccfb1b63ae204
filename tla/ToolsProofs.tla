------------------------------ MODULE ToolsProofs ------------------------------
(***************************************************************************)
(* Proofs about Tools, for every set of calls, paths and arguments.        *)
(*                                                                         *)
(* IInv says, for every call, which tool can be at which place, what a     *)
(* thread that nobody has disturbed may rely on there, and that a process  *)
(* is not alive where shell.run is about to come back.  A step of another  *)
(* call either leaves this call's paths alone or ends "kept".              *)
(***************************************************************************)
EXTENDS Tools, TLAPS

-----------------------------------------------------------------------------
(***************************************************************************)
(* The inductive invariant.                                                *)
(***************************************************************************)
\* Which tool is at which place.
PlaceSound(c) ==
  /\ at[c] \in {"saving", "copying", "opening", "writing"} => args[c].op = "write"
  /\ at[c] = "moving" => args[c].op = "move"
  /\ at[c] = "removing" => args[c].op = "delete"
  /\ at[c] = "queued" => args[c].op \in FileTools
  /\ at[c] \in Attending \cup {"spawning"} => args[c].op \in ProcessTools
  /\ answer[c] = "ok" => at[c] = "done"

\* What an undisturbed write may rely on.
WriteHeld(c) ==
  LET p == args[c].path
      safe == found[c] # Absent => backup[p] = found[c]
  IN  /\ at[c] \in {"saving", "copying"} => file[p] = found[c]
      /\ at[c] = "opening" => safe /\ (found[c] # Absent => file[p] = found[c])
      /\ at[c] = "writing" => safe /\ fd[c] = p
      /\ at[c] = "done" => safe /\ file[p] = c
      /\ at[c] = "raised" => found[c] = Absent \/ found[c] \in {file[p], backup[p]}

\* What an undisturbed move may rely on.
MoveHeld(c) ==
  /\ at[c] = "moving" => file[args[c].path] = found[c]
  /\ at[c] = "done" => /\ file[args[c].dest] = found[c]
                       /\ args[c].path # args[c].dest => file[args[c].path] = Absent

\* An undisturbed call has looked, and what it relies on holds.
Held(c) ==
  kept[c] =>
    /\ at[c] \in Threaded \cup {"done", "raised"}
    /\ args[c].op = "write" => WriteHeld(c)
    /\ args[c].op = "move" => MoveHeld(c)
    /\ args[c].op = "delete" => (at[c] = "done" => file[args[c].path] = Absent)

\* Where a process has not been started, or is over.
LeaderSound(c) ==
  /\ at[c] \in {"new", "validating", "spawning"} => leader[c] = "none"
  /\ at[c] = "killing" /\ traits[c].leader # "foreign" => leader[c] # "alive"
  /\ args[c].op = "shell" /\ at[c] \in {"done", "raised"} /\ traits[c].leader # "foreign" =>
       leader[c] # "alive"

IInv ==
  /\ TypeOK
  /\ \A c \in Calls : PlaceSound(c)
  /\ \A c \in Calls : Held(c)
  /\ \A c \in Calls : LeaderSound(c)

-----------------------------------------------------------------------------
(***************************************************************************)
(* Types.                                                                  *)
(***************************************************************************)
LEMMA Values == Calls \subseteq Contents /\ Paths \subseteq Contents /\ {Absent, Torn} \subseteq Contents
  BY DEF Contents

LEMMA InitTypeOK == Init => TypeOK
  BY ToolsAssumption DEF Init, TypeOK, Contents, Places, NoTraits, Manners, Args

LEMMA StepTypeOK == ASSUME TypeOK, [Next]_vars PROVE TypeOK'
<1> USE DEF TypeOK
<1>1. CASE Die
  BY <1>1 DEF Die, fileVars, groupVars
<1>2. ASSUME NEW c \in Calls, Begin(c) PROVE TypeOK'
  BY <1>2 DEF Begin, Go, fileVars, groupVars, Places, Threaded, Attending
<1>3. ASSUME NEW c \in Calls, ValidatePaths(c) PROVE TypeOK'
  BY <1>3 DEF ValidatePaths, Go, fileVars, groupVars, Places, Threaded, Attending
<1>4. ASSUME NEW c \in Calls, ValidateCommand(c) PROVE TypeOK'
  BY <1>4 DEF ValidateCommand, Go, fileVars, groupVars, Places, Threaded, Attending
<1>5. ASSUME NEW c \in Calls, Finish(c) PROVE TypeOK'
  BY <1>5 DEF Finish, Go, fileVars, groupVars, Places, Threaded, Attending
<1>6. ASSUME NEW c \in Calls, Timeout(c) PROVE TypeOK'
  BY <1>6 DEF Timeout, Go, fileVars, groupVars, Places, Threaded, Attending
<1>7. ASSUME NEW c \in Calls, ThreadRaises(c) PROVE TypeOK'
  BY <1>7 DEF ThreadRaises, Go, fileVars, groupVars, Threaded, Places, Args, Attending
<1>8. ASSUME NEW c \in Calls, LookToWrite(c) PROVE TypeOK'
  BY <1>8 DEF LookToWrite, Go, fileVars, groupVars, Look, Exists, Places, Args, Threaded, Attending
<1>9. ASSUME NEW c \in Calls, OpenBackup(c) PROVE TypeOK'
  <2>1. at' \in [Calls -> Places]
    <3>1. CASE Exists(args[c].path)
      BY <1>9, <3>1 DEF OpenBackup, Go, Places, Threaded
    <3>2. CASE ~Exists(args[c].path)
      BY <1>9, <3>2 DEF OpenBackup, Go, Places
    <3> QED
      BY <3>1, <3>2
  <2>2. backup' \in [Paths -> Contents] /\ kept' \in [Calls -> BOOLEAN]
    <3>1. CASE Exists(args[c].path)
      BY <1>9, <3>1, Values DEF OpenBackup, Touch, Args
    <3>2. CASE ~Exists(args[c].path)
      BY <1>9, <3>2 DEF OpenBackup
    <3> QED
      BY <3>1, <3>2
  <2> QED
    BY <1>9, <2>1, <2>2 DEF OpenBackup, groupVars
<1>10. ASSUME NEW c \in Calls, CopyBackup(c) PROVE TypeOK'
  BY <1>10 DEF CopyBackup, Go, fileVars, groupVars, Touch, Contents, Exists, Places, Args, Threaded, Attending
<1>11. ASSUME NEW c \in Calls, OpenFile(c) PROVE TypeOK'
  BY <1>11 DEF OpenFile, Go, fileVars, groupVars, Touch, Contents, Exists, Places, Args, Threaded, Attending
<1>12. ASSUME NEW c \in Calls, WriteFile(c) PROVE TypeOK'
  <2>1. at' \in [Calls -> Places]
    BY <1>12 DEF WriteFile, Go, Places
  <2>2. file' \in [Paths -> Contents] /\ kept' \in [Calls -> BOOLEAN]
    <3>1. CASE fd[c] = Absent
      BY <1>12, <3>1 DEF WriteFile
    <3>2. CASE fd[c] # Absent
      <4>1. PICK content \in Calls \cup {Torn} : file' = [file EXCEPT ![fd[c]] = content]
        BY <1>12, <3>2 DEF WriteFile
      <4>2. content \in Contents
        BY <4>1, Values
      <4>3. kept' \in [Calls -> BOOLEAN]
        BY <1>12, <3>2 DEF WriteFile, Touch
      <4> QED
        BY <4>1, <4>2, <4>3
    <3> QED
      BY <3>1, <3>2
  <2>3. fd' \in [Calls -> Paths \cup {Absent}]
    BY <1>12 DEF WriteFile
  <2> QED
    BY <1>12, <2>1, <2>2, <2>3 DEF WriteFile, groupVars
<1>13. ASSUME NEW c \in Calls, LookToMove(c) PROVE TypeOK'
  BY <1>13 DEF LookToMove, Go, fileVars, groupVars, Look, Exists, Places, Args, Threaded, Attending
<1>14. ASSUME NEW c \in Calls, Move(c) PROVE TypeOK'
  BY <1>14 DEF Move, Go, fileVars, groupVars, Touch, Contents, Exists, Places, Args, Threaded, Attending
<1>15. ASSUME NEW c \in Calls, LookToRemove(c) PROVE TypeOK'
  BY <1>15 DEF LookToRemove, Go, fileVars, groupVars, Look, Exists, Places, Args, Threaded, Attending
<1>16. ASSUME NEW c \in Calls, Remove(c) PROVE TypeOK'
  BY <1>16 DEF Remove, Go, fileVars, groupVars, Touch, Contents, Exists, Places, Args, Threaded, Attending
<1>17. ASSUME NEW c \in Calls, Spawn(c) PROVE TypeOK'
  BY <1>17 DEF Spawn, Go, fileVars, groupVars, Places, Threaded, Attending
<1>18. ASSUME NEW c \in Calls, SpawnRaises(c) PROVE TypeOK'
  BY <1>18 DEF SpawnRaises, Go, fileVars, groupVars, Places, Threaded, Attending
<1>19. ASSUME NEW c \in Calls, Fork(c) PROVE TypeOK'
  BY <1>19 DEF Fork, Go, fileVars, groupVars, Places, Threaded, Attending
<1>20. ASSUME NEW c \in Calls, LeaderExits(c) PROVE TypeOK'
  BY <1>20 DEF LeaderExits, Go, fileVars, groupVars, Places, Threaded, Attending
<1>21. ASSUME NEW c \in Calls, KidExits(c) PROVE TypeOK'
  BY <1>21 DEF KidExits, Go, fileVars, groupVars, Places, Threaded, Attending
<1>22. ASSUME NEW c \in Calls, Reap(c) PROVE TypeOK'
  BY <1>22 DEF Reap, Go, fileVars, groupVars, Places, Threaded, Attending
<1>23. ASSUME NEW c \in Calls, Communicated(c) PROVE TypeOK'
  BY <1>23 DEF Communicated, Go, fileVars, groupVars, Places, Threaded, Attending
<1>24. ASSUME NEW c \in Calls, Terminate(c) PROVE TypeOK'
  <2>1. CASE leader[c] = "reaped"
    BY <1>24, <2>1 DEF Terminate, Go, fileVars, Places
  <2>2. CASE leader[c] # "reaped"
    <3>1. at' \in [Calls -> Places]
      BY <1>24, <2>2 DEF Terminate, Go, Places, Attending
    <3>2. leader' \in [Calls -> {"none", "alive", "exited", "reaped"}]
      BY <1>24, <2>2 DEF Terminate
    <3>3. kid' \in [Calls -> {"none", "alive", "exited"}]
      BY <1>24, <2>2 DEF Terminate
    <3> QED
      BY <1>24, <3>1, <3>2, <3>3 DEF Terminate, fileVars
  <2> QED
    BY <2>1, <2>2
<1>25. ASSUME NEW c \in Calls, GiveUp(c) PROVE TypeOK'
  BY <1>25 DEF GiveUp, Go, fileVars, groupVars, Places, Threaded, Attending
<1>26. ASSUME NEW c \in Calls, WaitedFor(c) PROVE TypeOK'
  BY <1>26 DEF WaitedFor, Go, fileVars, groupVars, Places, Threaded, Attending
<1>27. ASSUME NEW c \in Calls, Kill(c) PROVE TypeOK'
  BY <1>27 DEF Kill, Go, fileVars, groupVars, Places, Threaded, Attending
<1>28. ASSUME NEW c \in Calls, Killed(c) PROVE TypeOK'
  BY <1>28 DEF Killed, Go, fileVars, groupVars, Places, Threaded, Attending
<1>29. CASE UNCHANGED vars
  BY <1>29 DEF vars, fileVars, groupVars
<1> QED
  BY <1>1, <1>2, <1>3, <1>4, <1>5, <1>6, <1>7, <1>8, <1>9, <1>10, <1>11, <1>12, <1>13, <1>14, <1>15, <1>16, <1>17, <1>18, <1>19, <1>20, <1>21, <1>22, <1>23, <1>24, <1>25, <1>26, <1>27, <1>28, <1>29 DEF Next, Call, Thread, Process, Validate

-----------------------------------------------------------------------------
(***************************************************************************)
(* Places and processes.                                                   *)
(***************************************************************************)
LEMMA StepPlaces ==
  ASSUME TypeOK, \A c \in Calls : PlaceSound(c), [Next]_vars, NEW c \in Calls
  PROVE  PlaceSound(c)'
<1>1. at \in [Calls -> Places] /\ answer \in [Calls -> {"none", "ok", "failed", "timeout"}]
  BY DEF TypeOK
<1>2. PlaceSound(c)
  OBVIOUS
<1>3. CASE Die
  BY <1>1, <1>2, <1>3 DEF Die, fileVars, groupVars, PlaceSound
<1>4. ASSUME NEW d \in Calls, Begin(d) PROVE PlaceSound(c)'
  BY <1>1, <1>2, <1>4 DEF Begin, Go, groupVars, PlaceSound, Attending
<1>5. ASSUME NEW d \in Calls, ValidatePaths(d) PROVE PlaceSound(c)'
  BY <1>1, <1>2, <1>5 DEF ValidatePaths, Go, groupVars, PlaceSound, FileTools, Attending
<1>6. ASSUME NEW d \in Calls, ValidateCommand(d) PROVE PlaceSound(c)'
  BY <1>1, <1>2, <1>6 DEF ValidateCommand, Go, groupVars, PlaceSound, ProcessTools, Attending
<1>7. ASSUME NEW d \in Calls, Finish(d) PROVE PlaceSound(c)'
  BY <1>1, <1>2, <1>7 DEF Finish, Go, groupVars, PlaceSound, Attending
<1>8. ASSUME NEW d \in Calls, Timeout(d) PROVE PlaceSound(c)'
  BY <1>1, <1>2, <1>8 DEF Timeout, Go, groupVars, PlaceSound, Attending
<1>9. ASSUME NEW d \in Calls, ThreadRaises(d) PROVE PlaceSound(c)'
  BY <1>1, <1>2, <1>9 DEF ThreadRaises, Go, groupVars, PlaceSound, Threaded, Attending
<1>10. ASSUME NEW d \in Calls, LookToWrite(d) PROVE PlaceSound(c)'
  BY <1>1, <1>2, <1>10 DEF LookToWrite, Go, groupVars, PlaceSound, Look, Exists, Attending
<1>11. ASSUME NEW d \in Calls, OpenBackup(d) PROVE PlaceSound(c)'
  BY <1>1, <1>2, <1>11 DEF OpenBackup, Go, groupVars, PlaceSound, Attending
<1>12. ASSUME NEW d \in Calls, CopyBackup(d) PROVE PlaceSound(c)'
  BY <1>1, <1>2, <1>12 DEF CopyBackup, Go, groupVars, PlaceSound, Attending
<1>13. ASSUME NEW d \in Calls, OpenFile(d) PROVE PlaceSound(c)'
  BY <1>1, <1>2, <1>13 DEF OpenFile, Go, groupVars, PlaceSound, Attending
<1>14. ASSUME NEW d \in Calls, WriteFile(d) PROVE PlaceSound(c)'
  BY <1>1, <1>2, <1>14 DEF WriteFile, Go, groupVars, PlaceSound, Attending
<1>15. ASSUME NEW d \in Calls, LookToMove(d) PROVE PlaceSound(c)'
  BY <1>1, <1>2, <1>15 DEF LookToMove, Go, groupVars, PlaceSound, Look, Exists, Attending
<1>16. ASSUME NEW d \in Calls, Move(d) PROVE PlaceSound(c)'
  BY <1>1, <1>2, <1>16 DEF Move, Go, groupVars, PlaceSound, Attending
<1>17. ASSUME NEW d \in Calls, LookToRemove(d) PROVE PlaceSound(c)'
  BY <1>1, <1>2, <1>17 DEF LookToRemove, Go, groupVars, PlaceSound, Look, Attending
<1>18. ASSUME NEW d \in Calls, Remove(d) PROVE PlaceSound(c)'
  BY <1>1, <1>2, <1>18 DEF Remove, Go, groupVars, PlaceSound, Attending
<1>19. ASSUME NEW d \in Calls, Spawn(d) PROVE PlaceSound(c)'
  BY <1>1, <1>2, <1>19 DEF Spawn, Go, groupVars, PlaceSound, Attending
<1>20. ASSUME NEW d \in Calls, SpawnRaises(d) PROVE PlaceSound(c)'
  BY <1>1, <1>2, <1>20 DEF SpawnRaises, Go, groupVars, PlaceSound, Attending
<1>21. ASSUME NEW d \in Calls, Fork(d) PROVE PlaceSound(c)'
  BY <1>1, <1>2, <1>21 DEF Fork, Go, groupVars, PlaceSound, Attending
<1>22. ASSUME NEW d \in Calls, LeaderExits(d) PROVE PlaceSound(c)'
  BY <1>1, <1>2, <1>22 DEF LeaderExits, Go, groupVars, PlaceSound, Attending
<1>23. ASSUME NEW d \in Calls, KidExits(d) PROVE PlaceSound(c)'
  BY <1>1, <1>2, <1>23 DEF KidExits, Go, groupVars, PlaceSound, Attending
<1>24. ASSUME NEW d \in Calls, Reap(d) PROVE PlaceSound(c)'
  BY <1>1, <1>2, <1>24 DEF Reap, Go, groupVars, PlaceSound, Attending
<1>25. ASSUME NEW d \in Calls, Communicated(d) PROVE PlaceSound(c)'
  BY <1>1, <1>2, <1>25 DEF Communicated, Go, groupVars, PlaceSound, Attending
<1>26. ASSUME NEW d \in Calls, Terminate(d) PROVE PlaceSound(c)'
  BY <1>1, <1>2, <1>26 DEF Terminate, Go, groupVars, PlaceSound, Attending
<1>27. ASSUME NEW d \in Calls, GiveUp(d) PROVE PlaceSound(c)'
  BY <1>1, <1>2, <1>27 DEF GiveUp, Go, groupVars, PlaceSound, Attending
<1>28. ASSUME NEW d \in Calls, WaitedFor(d) PROVE PlaceSound(c)'
  BY <1>1, <1>2, <1>28 DEF WaitedFor, Go, groupVars, PlaceSound, Attending
<1>29. ASSUME NEW d \in Calls, Kill(d) PROVE PlaceSound(c)'
  BY <1>1, <1>2, <1>29 DEF Kill, Go, groupVars, PlaceSound, Attending
<1>30. ASSUME NEW d \in Calls, Killed(d) PROVE PlaceSound(c)'
  BY <1>1, <1>2, <1>30 DEF Killed, Go, groupVars, PlaceSound, Attending
<1>31. CASE UNCHANGED vars
  BY <1>1, <1>2, <1>31 DEF vars, groupVars, PlaceSound
<1> QED
  BY <1>3, <1>4, <1>5, <1>6, <1>7, <1>8, <1>9, <1>10, <1>11, <1>12, <1>13, <1>14, <1>15, <1>16, <1>17, <1>18, <1>19, <1>20, <1>21, <1>22, <1>23, <1>24, <1>25, <1>26, <1>27, <1>28, <1>29, <1>30, <1>31 DEF Next, Call, Thread, Process, Validate

LEMMA StepLeaders ==
  ASSUME TypeOK, \A c \in Calls : LeaderSound(c), \A c \in Calls : PlaceSound(c), [Next]_vars, NEW c \in Calls
  PROVE  LeaderSound(c)'
<1>1. at \in [Calls -> Places] /\ leader \in [Calls -> {"none", "alive", "exited", "reaped"}]
  BY DEF TypeOK
<1>2. LeaderSound(c)
  OBVIOUS
<1>3. CASE Die
  BY <1>1, <1>2, <1>3 DEF Die, fileVars, groupVars, LeaderSound
<1>4. ASSUME NEW d \in Calls, Begin(d) PROVE LeaderSound(c)'
  BY <1>1, <1>2, <1>4 DEF Begin, Go, groupVars, LeaderSound
<1>5. ASSUME NEW d \in Calls, ValidatePaths(d) PROVE LeaderSound(c)'
  BY <1>1, <1>2, <1>5 DEF ValidatePaths, Go, groupVars, LeaderSound
<1>6. ASSUME NEW d \in Calls, ValidateCommand(d) PROVE LeaderSound(c)'
  BY <1>1, <1>2, <1>6 DEF ValidateCommand, Go, groupVars, LeaderSound
<1>7. ASSUME NEW d \in Calls, Finish(d) PROVE LeaderSound(c)'
  BY <1>1, <1>2, <1>7 DEF Finish, Go, groupVars, LeaderSound
<1>8. ASSUME NEW d \in Calls, Timeout(d) PROVE LeaderSound(c)'
  BY <1>1, <1>2, <1>8 DEF Timeout, Go, groupVars, LeaderSound, Attending
<1>9. ASSUME NEW d \in Calls, ThreadRaises(d) PROVE LeaderSound(c)'
  BY <1>1, <1>2, PlaceSound(d), <1>9 DEF PlaceSound, ThreadRaises, Go, groupVars, LeaderSound, Threaded
<1>10. ASSUME NEW d \in Calls, LookToWrite(d) PROVE LeaderSound(c)'
  BY <1>1, <1>2, PlaceSound(d), <1>10 DEF PlaceSound, LookToWrite, Go, groupVars, LeaderSound, Look
<1>11. ASSUME NEW d \in Calls, OpenBackup(d) PROVE LeaderSound(c)'
  BY <1>1, <1>2, PlaceSound(d), <1>11 DEF PlaceSound, OpenBackup, Go, groupVars, LeaderSound
<1>12. ASSUME NEW d \in Calls, CopyBackup(d) PROVE LeaderSound(c)'
  BY <1>1, <1>2, PlaceSound(d), <1>12 DEF PlaceSound, CopyBackup, Go, groupVars, LeaderSound
<1>13. ASSUME NEW d \in Calls, OpenFile(d) PROVE LeaderSound(c)'
  BY <1>1, <1>2, PlaceSound(d), <1>13 DEF PlaceSound, OpenFile, Go, groupVars, LeaderSound
<1>14. ASSUME NEW d \in Calls, WriteFile(d) PROVE LeaderSound(c)'
  BY <1>1, <1>2, PlaceSound(d), <1>14 DEF PlaceSound, WriteFile, Go, groupVars, LeaderSound
<1>15. ASSUME NEW d \in Calls, LookToMove(d) PROVE LeaderSound(c)'
  BY <1>1, <1>2, PlaceSound(d), <1>15 DEF PlaceSound, LookToMove, Go, groupVars, LeaderSound, Look
<1>16. ASSUME NEW d \in Calls, Move(d) PROVE LeaderSound(c)'
  BY <1>1, <1>2, PlaceSound(d), <1>16 DEF PlaceSound, Move, Go, groupVars, LeaderSound
<1>17. ASSUME NEW d \in Calls, LookToRemove(d) PROVE LeaderSound(c)'
  BY <1>1, <1>2, PlaceSound(d), <1>17 DEF PlaceSound, LookToRemove, Go, groupVars, LeaderSound, Look
<1>18. ASSUME NEW d \in Calls, Remove(d) PROVE LeaderSound(c)'
  BY <1>1, <1>2, PlaceSound(d), <1>18 DEF PlaceSound, Remove, Go, groupVars, LeaderSound
<1>19. ASSUME NEW d \in Calls, Spawn(d) PROVE LeaderSound(c)'
  BY <1>1, <1>2, <1>19 DEF Spawn, Go, groupVars, LeaderSound
<1>20. ASSUME NEW d \in Calls, SpawnRaises(d) PROVE LeaderSound(c)'
  BY <1>1, <1>2, <1>20 DEF SpawnRaises, Go, groupVars, LeaderSound
<1>21. ASSUME NEW d \in Calls, Fork(d) PROVE LeaderSound(c)'
  BY <1>1, <1>2, <1>21 DEF Fork, Go, groupVars, LeaderSound
<1>22. ASSUME NEW d \in Calls, LeaderExits(d) PROVE LeaderSound(c)'
  BY <1>1, <1>2, <1>22 DEF LeaderExits, Go, groupVars, LeaderSound
<1>23. ASSUME NEW d \in Calls, KidExits(d) PROVE LeaderSound(c)'
  BY <1>1, <1>2, <1>23 DEF KidExits, Go, groupVars, LeaderSound
<1>24. ASSUME NEW d \in Calls, Reap(d) PROVE LeaderSound(c)'
  BY <1>1, <1>2, <1>24 DEF Reap, Go, groupVars, LeaderSound
<1>25. ASSUME NEW d \in Calls, Communicated(d) PROVE LeaderSound(c)'
  BY <1>1, <1>2, <1>25 DEF Communicated, Go, groupVars, LeaderSound
<1>26. ASSUME NEW d \in Calls, Terminate(d) PROVE LeaderSound(c)'
  BY <1>1, <1>2, <1>26 DEF Terminate, Go, groupVars, LeaderSound
<1>27. ASSUME NEW d \in Calls, GiveUp(d) PROVE LeaderSound(c)'
  BY <1>1, <1>2, <1>27 DEF GiveUp, Go, groupVars, LeaderSound
<1>28. ASSUME NEW d \in Calls, WaitedFor(d) PROVE LeaderSound(c)'
  BY <1>1, <1>2, <1>28 DEF WaitedFor, Go, groupVars, LeaderSound
<1>29. ASSUME NEW d \in Calls, Kill(d) PROVE LeaderSound(c)'
  BY <1>1, <1>2, <1>29 DEF Kill, Go, groupVars, LeaderSound
<1>30. ASSUME NEW d \in Calls, Killed(d) PROVE LeaderSound(c)'
  BY <1>1, <1>2, <1>30 DEF Killed, Go, groupVars, LeaderSound
<1>31. CASE UNCHANGED vars
  BY <1>1, <1>2, <1>31 DEF vars, groupVars, LeaderSound
<1> QED
  BY <1>3, <1>4, <1>5, <1>6, <1>7, <1>8, <1>9, <1>10, <1>11, <1>12, <1>13, <1>14, <1>15, <1>16, <1>17, <1>18, <1>19, <1>20, <1>21, <1>22, <1>23, <1>24, <1>25, <1>26, <1>27, <1>28, <1>29, <1>30, <1>31 DEF Next, Call, Thread, Process, Validate

-----------------------------------------------------------------------------
(***************************************************************************)
(* What an undisturbed call relies on.                                     *)
(***************************************************************************)
\* A step that leaves a call's paths alone, or ends its "kept".
LEMMA HeldStays ==
  ASSUME NEW c \in Calls, Held(c), args' = args,
         at'[c] = at[c], found'[c] = found[c],
         kept'[c] => /\ kept[c]
                     /\ file'[args[c].path] = file[args[c].path]
                     /\ file'[args[c].dest] = file[args[c].dest]
                     /\ backup'[args[c].path] = backup[args[c].path]
                     /\ fd[c] = args[c].path => fd'[c] = args[c].path
  PROVE  Held(c)'
  BY DEF Held, WriteHeld, MoveHeld

\* A step that changes no file, of a call that has no thread.
LEMMA HeldQuiet ==
  ASSUME NEW c \in Calls, Held(c), UNCHANGED <<fileVars, args>>,
         at'[c] = at[c] \/ at[c] \notin Threaded \cup {"done", "raised"}
  PROVE  Held(c)'
<1>1. CASE at'[c] = at[c]
  BY <1>1, HeldStays DEF fileVars
<1>2. CASE at[c] \notin Threaded \cup {"done", "raised"}
  BY <1>2 DEF Held, fileVars
<1> QED
  BY <1>1, <1>2

\* What Touch does to another call.
LEMMA Touched ==
  ASSUME NEW c \in Calls, NEW d \in Calls, c # d, NEW S, Touch(d, S), kept'[c]
  PROVE  kept[c] /\ args[c].path \notin S /\ args[c].dest \notin S
  BY DEF Touch

\* The step's own call may still be undisturbed only if it was.
LEMMA TouchedOwn ==
  ASSUME NEW c \in Calls, NEW S, Touch(c, S), kept \in [Calls -> BOOLEAN]
  PROVE  kept'[c] = kept[c]
  BY DEF Touch

LEMMA StepHeld ==
  ASSUME TypeOK, \A c \in Calls : PlaceSound(c), \A c \in Calls : Held(c),
         [Next]_vars, NEW c \in Calls
  PROVE  Held(c)'
<1>1. /\ at \in [Calls -> Places] /\ found \in [Calls -> Contents]
      /\ kept \in [Calls -> BOOLEAN] /\ fd \in [Calls -> Paths \cup {Absent}]
      /\ file \in [Paths -> Contents] /\ backup \in [Paths -> Contents]
  BY DEF TypeOK
<1>2. args[c].path \in Paths /\ args[c].dest \in Paths
  BY DEF TypeOK, Args
<1>3. Held(c)
  OBVIOUS
<1>4. CASE Die
  BY <1>3, <1>4, HeldQuiet DEF Die
<1>5. ASSUME NEW d \in Calls, Begin(d) PROVE Held(c)'
  BY <1>1, <1>3, <1>5, HeldQuiet DEF Begin, Go, Threaded
<1>6. ASSUME NEW d \in Calls, ValidatePaths(d) PROVE Held(c)'
  BY <1>1, <1>3, <1>6, HeldQuiet DEF ValidatePaths, Go, Threaded
<1>7. ASSUME NEW d \in Calls, ValidateCommand(d) PROVE Held(c)'
  BY <1>1, <1>3, <1>7, HeldQuiet DEF ValidateCommand, Go, Threaded
<1>8. ASSUME NEW d \in Calls, Finish(d) PROVE Held(c)'
  BY <1>1, <1>3, <1>8, HeldQuiet DEF Finish, Go, Threaded
<1>9. ASSUME NEW d \in Calls, Timeout(d) PROVE Held(c)'
  BY <1>1, <1>3, <1>9, HeldQuiet DEF Timeout, Go, Threaded, Attending
<1>10. ASSUME NEW d \in Calls, ThreadRaises(d) PROVE Held(c)'
  <2>1. CASE c # d
    BY <1>1, <1>3, <1>10, <2>1, HeldStays DEF ThreadRaises, Go
  <2>2. CASE c = d
    BY <1>1, <1>2, <1>3, <1>10, <2>2, PlaceSound(c) DEF ThreadRaises, PlaceSound, Go, Threaded, Held, WriteHeld, MoveHeld
  <2> QED
    BY <2>1, <2>2
<1>11. ASSUME NEW d \in Calls, LookToWrite(d) PROVE Held(c)'
  <2>1. CASE c # d
    BY <1>1, <1>3, <1>11, <2>1, HeldStays DEF LookToWrite, Go, Look
  <2>2. CASE c = d
    BY <1>1, <1>2, <1>3, <1>11, <2>2, PlaceSound(c) DEF LookToWrite, PlaceSound, Go, Threaded, Held, Look, Exists, WriteHeld
  <2> QED
    BY <2>1, <2>2
<1>12. ASSUME NEW d \in Calls, OpenBackup(d) PROVE Held(c)'
  <2>1. CASE c # d
    <3>1. at'[c] = at[c] /\ found'[c] = found[c] /\ args' = args
      BY <1>1, <1>12, <2>1 DEF OpenBackup, Go
    <3>2. kept'[c] => /\ kept[c]
                      /\ file'[args[c].path] = file[args[c].path]
                      /\ file'[args[c].dest] = file[args[c].dest]
                      /\ backup'[args[c].path] = backup[args[c].path]
                      /\ fd[c] = args[c].path => fd'[c] = args[c].path
      <4>1. CASE Exists(args[d].path)
        <5>1. Touch(d, {args[d].path})
          BY <1>12, <4>1 DEF OpenBackup
        <5>2. ASSUME kept'[c]
              PROVE  kept[c] /\ args[c].path \notin {args[d].path} /\ args[c].dest \notin {args[d].path}
          BY <2>1, <5>1, <5>2, Touched
        <5> QED
          BY <1>1, <1>2, <1>12, <4>1, <5>2 DEF OpenBackup
      <4>2. CASE ~(Exists(args[d].path))
        BY <1>1, <1>2, <1>12, <2>1, <4>2 DEF OpenBackup
      <4> QED
        BY <4>1, <4>2
    <3> QED
      BY <1>3, <3>1, <3>2, HeldStays
  <2>2. CASE c = d
    <3>1. CASE Exists(args[c].path)
      BY <1>1, <1>2, <1>3, <1>12, <2>2, <3>1, PlaceSound(c), TouchedOwn DEF OpenBackup, PlaceSound, Go, Threaded, Held, WriteHeld
    <3>2. CASE ~(Exists(args[c].path))
      BY <1>1, <1>2, <1>3, <1>12, <2>2, <3>2, PlaceSound(c) DEF OpenBackup, PlaceSound, Go, Threaded, Held, WriteHeld, Exists
    <3> QED
      BY <3>1, <3>2
  <2> QED
    BY <2>1, <2>2
<1>13. ASSUME NEW d \in Calls, CopyBackup(d) PROVE Held(c)'
  <2>1. CASE c # d
    <3>1. at'[c] = at[c] /\ found'[c] = found[c] /\ args' = args
      BY <1>1, <1>13, <2>1 DEF CopyBackup, Go
    <3>2. kept'[c] => /\ kept[c]
                      /\ file'[args[c].path] = file[args[c].path]
                      /\ file'[args[c].dest] = file[args[c].dest]
                      /\ backup'[args[c].path] = backup[args[c].path]
                      /\ fd[c] = args[c].path => fd'[c] = args[c].path
      <4>1. Touch(d, {args[d].path})
        BY <1>13 DEF CopyBackup
      <4>2. ASSUME kept'[c]
            PROVE  kept[c] /\ args[c].path \notin {args[d].path} /\ args[c].dest \notin {args[d].path}
        BY <2>1, <4>1, <4>2, Touched
      <4> QED
        BY <1>1, <1>2, <1>13, <4>2 DEF CopyBackup
    <3> QED
      BY <1>3, <3>1, <3>2, HeldStays
  <2>2. CASE c = d
    BY <1>1, <1>2, <1>3, <1>13, <2>2, PlaceSound(c), TouchedOwn DEF CopyBackup, PlaceSound, Go, Threaded, Held, WriteHeld
  <2> QED
    BY <2>1, <2>2
<1>14. ASSUME NEW d \in Calls, OpenFile(d) PROVE Held(c)'
  <2>1. CASE c # d
    <3>1. at'[c] = at[c] /\ found'[c] = found[c] /\ args' = args
      BY <1>1, <1>14, <2>1 DEF OpenFile, Go
    <3>2. kept'[c] => /\ kept[c]
                      /\ file'[args[c].path] = file[args[c].path]
                      /\ file'[args[c].dest] = file[args[c].dest]
                      /\ backup'[args[c].path] = backup[args[c].path]
                      /\ fd[c] = args[c].path => fd'[c] = args[c].path
      <4>1. Touch(d, {args[d].path})
        BY <1>14 DEF OpenFile
      <4>2. ASSUME kept'[c]
            PROVE  kept[c] /\ args[c].path \notin {args[d].path} /\ args[c].dest \notin {args[d].path}
        BY <2>1, <4>1, <4>2, Touched
      <4> QED
        BY <1>1, <1>2, <1>14, <4>2 DEF OpenFile
    <3> QED
      BY <1>3, <3>1, <3>2, HeldStays
  <2>2. CASE c = d
    BY <1>1, <1>2, <1>3, <1>14, <2>2, PlaceSound(c), TouchedOwn DEF OpenFile, PlaceSound, Go, Threaded, Held, WriteHeld
  <2> QED
    BY <2>1, <2>2
<1>15. ASSUME NEW d \in Calls, WriteFile(d) PROVE Held(c)'
  <2>1. CASE c # d
    <3>1. at'[c] = at[c] /\ found'[c] = found[c] /\ args' = args
      BY <1>1, <1>15, <2>1 DEF WriteFile, Go
    <3>2. kept'[c] => /\ kept[c]
                      /\ file'[args[c].path] = file[args[c].path]
                      /\ file'[args[c].dest] = file[args[c].dest]
                      /\ backup'[args[c].path] = backup[args[c].path]
                      /\ fd[c] = args[c].path => fd'[c] = args[c].path
      <4>1. CASE fd[d] # Absent
        <5>1. Touch(d, {fd[d]})
          BY <1>15, <4>1 DEF WriteFile
        <5>2. ASSUME kept'[c]
              PROVE  kept[c] /\ args[c].path \notin {fd[d]} /\ args[c].dest \notin {fd[d]}
          BY <2>1, <5>1, <5>2, Touched
        <5> QED
          BY <1>1, <1>2, <1>15, <4>1, <5>2 DEF WriteFile
      <4>2. CASE ~(fd[d] # Absent)
        BY <1>1, <1>2, <1>15, <2>1, <4>2 DEF WriteFile
      <4> QED
        BY <4>1, <4>2
    <3> QED
      BY <1>3, <3>1, <3>2, HeldStays
  <2>2. CASE c = d
    <3>1. CASE kept[c]
      <4>1. fd[c] = args[c].path /\ (found[c] # Absent => backup[args[c].path] = found[c])
        BY <1>3, <1>15, <2>2, <3>1, PlaceSound(c) DEF WriteFile, PlaceSound, Held, WriteHeld
      <4>2. file'[args[c].path] = c /\ backup' = backup
        BY <1>1, <1>2, <1>15, <2>2, <3>1, <4>1, ToolsAssumption DEF WriteFile
      <4> QED
        BY <1>1, <1>15, <2>2, <3>1, <4>1, <4>2, PlaceSound(c) DEF WriteFile, PlaceSound, Go, Held, WriteHeld
    <3>2. CASE ~kept[c]
      <4>1. ~kept'[c]
        <5>1. CASE fd[c] = Absent
          BY <1>15, <2>2, <3>2, <5>1 DEF WriteFile
        <5>2. CASE fd[c] # Absent
          BY <1>1, <1>15, <2>2, <3>2, <5>2, TouchedOwn DEF WriteFile
        <5> QED
          BY <5>1, <5>2
      <4> QED
        BY <4>1 DEF Held
    <3> QED
      BY <3>1, <3>2
  <2> QED
    BY <2>1, <2>2
<1>16. ASSUME NEW d \in Calls, LookToMove(d) PROVE Held(c)'
  <2>1. CASE c # d
    BY <1>1, <1>3, <1>16, <2>1, HeldStays DEF LookToMove, Go, Look
  <2>2. CASE c = d
    BY <1>1, <1>2, <1>3, <1>16, <2>2, PlaceSound(c) DEF LookToMove, PlaceSound, Go, Threaded, Held, Look, Exists, MoveHeld
  <2> QED
    BY <2>1, <2>2
<1>17. ASSUME NEW d \in Calls, Move(d) PROVE Held(c)'
  <2>1. CASE c # d
    <3>1. at'[c] = at[c] /\ found'[c] = found[c] /\ args' = args
      BY <1>1, <1>17, <2>1 DEF Move, Go
    <3>2. kept'[c] => /\ kept[c]
                      /\ file'[args[c].path] = file[args[c].path]
                      /\ file'[args[c].dest] = file[args[c].dest]
                      /\ backup'[args[c].path] = backup[args[c].path]
                      /\ fd[c] = args[c].path => fd'[c] = args[c].path
      <4>1. Touch(d, {args[d].path, args[d].dest})
        BY <1>17 DEF Move
      <4>2. ASSUME kept'[c]
            PROVE  kept[c] /\ args[c].path \notin {args[d].path, args[d].dest} /\ args[c].dest \notin {args[d].path, args[d].dest}
        BY <2>1, <4>1, <4>2, Touched
      <4> QED
        BY <1>1, <1>2, <1>17, <4>2 DEF Move
    <3> QED
      BY <1>3, <3>1, <3>2, HeldStays
  <2>2. CASE c = d
    BY <1>1, <1>2, <1>3, <1>17, <2>2, PlaceSound(c), TouchedOwn DEF Move, PlaceSound, Go, Threaded, Held, MoveHeld
  <2> QED
    BY <2>1, <2>2
<1>18. ASSUME NEW d \in Calls, LookToRemove(d) PROVE Held(c)'
  <2>1. CASE c # d
    BY <1>1, <1>3, <1>18, <2>1, HeldStays DEF LookToRemove, Go, Look
  <2>2. CASE c = d
    BY <1>1, <1>2, <1>3, <1>18, <2>2, PlaceSound(c) DEF LookToRemove, PlaceSound, Go, Threaded, Held, Look, Exists
  <2> QED
    BY <2>1, <2>2
<1>19. ASSUME NEW d \in Calls, Remove(d) PROVE Held(c)'
  <2>1. CASE c # d
    <3>1. at'[c] = at[c] /\ found'[c] = found[c] /\ args' = args
      BY <1>1, <1>19, <2>1 DEF Remove, Go
    <3>2. kept'[c] => /\ kept[c]
                      /\ file'[args[c].path] = file[args[c].path]
                      /\ file'[args[c].dest] = file[args[c].dest]
                      /\ backup'[args[c].path] = backup[args[c].path]
                      /\ fd[c] = args[c].path => fd'[c] = args[c].path
      <4>1. Touch(d, {args[d].path})
        BY <1>19 DEF Remove
      <4>2. ASSUME kept'[c]
            PROVE  kept[c] /\ args[c].path \notin {args[d].path} /\ args[c].dest \notin {args[d].path}
        BY <2>1, <4>1, <4>2, Touched
      <4> QED
        BY <1>1, <1>2, <1>19, <4>2 DEF Remove
    <3> QED
      BY <1>3, <3>1, <3>2, HeldStays
  <2>2. CASE c = d
    BY <1>1, <1>2, <1>3, <1>19, <2>2, PlaceSound(c), TouchedOwn DEF Remove, PlaceSound, Go, Threaded, Held
  <2> QED
    BY <2>1, <2>2
<1>20. ASSUME NEW d \in Calls, Spawn(d) PROVE Held(c)'
  BY <1>1, <1>3, <1>20, HeldQuiet DEF Spawn, Go, Threaded
<1>21. ASSUME NEW d \in Calls, SpawnRaises(d) PROVE Held(c)'
  BY <1>1, <1>3, <1>21, HeldQuiet DEF SpawnRaises, Go, Threaded
<1>22. ASSUME NEW d \in Calls, Fork(d) PROVE Held(c)'
  BY <1>1, <1>3, <1>22, HeldQuiet DEF Fork, Go, Threaded
<1>23. ASSUME NEW d \in Calls, LeaderExits(d) PROVE Held(c)'
  BY <1>1, <1>3, <1>23, HeldQuiet DEF LeaderExits, Go, Threaded
<1>24. ASSUME NEW d \in Calls, KidExits(d) PROVE Held(c)'
  BY <1>1, <1>3, <1>24, HeldQuiet DEF KidExits, Go, Threaded
<1>25. ASSUME NEW d \in Calls, Reap(d) PROVE Held(c)'
  BY <1>1, <1>3, <1>25, HeldQuiet DEF Reap, Go, Threaded
<1>26. ASSUME NEW d \in Calls, Communicated(d) PROVE Held(c)'
  BY <1>1, <1>3, <1>26, HeldQuiet DEF Communicated, Go, Threaded
<1>27. ASSUME NEW d \in Calls, Terminate(d) PROVE Held(c)'
  BY <1>1, <1>3, <1>27, HeldQuiet DEF Terminate, Go, Threaded
<1>28. ASSUME NEW d \in Calls, GiveUp(d) PROVE Held(c)'
  BY <1>1, <1>3, <1>28, HeldQuiet DEF GiveUp, Go, Threaded
<1>29. ASSUME NEW d \in Calls, WaitedFor(d) PROVE Held(c)'
  BY <1>1, <1>3, <1>29, HeldQuiet DEF WaitedFor, Go, Threaded
<1>30. ASSUME NEW d \in Calls, Kill(d) PROVE Held(c)'
  BY <1>1, <1>3, <1>30, HeldQuiet DEF Kill, Go, Threaded
<1>31. ASSUME NEW d \in Calls, Killed(d) PROVE Held(c)'
  BY <1>1, <1>3, <1>31, HeldQuiet DEF Killed, Go, Threaded
<1>32. CASE UNCHANGED vars
  BY <1>3, <1>32, HeldQuiet DEF vars
<1> QED
  BY <1>4, <1>5, <1>6, <1>7, <1>8, <1>9, <1>10, <1>11, <1>12, <1>13, <1>14, <1>15, <1>16, <1>17, <1>18, <1>19, <1>20, <1>21, <1>22, <1>23, <1>24, <1>25, <1>26, <1>27, <1>28, <1>29, <1>30, <1>31, <1>32 DEF Next, Call, Thread, Process, Validate

-----------------------------------------------------------------------------
(***************************************************************************)
(* The theorems.                                                           *)
(***************************************************************************)
LEMMA InitIInv == Init => IInv
<1> SUFFICES ASSUME Init PROVE IInv
  OBVIOUS
<1>1. TypeOK
  BY InitTypeOK
<1>2. \A c \in Calls : PlaceSound(c)
  BY DEF Init, PlaceSound, Attending
<1>3. \A c \in Calls : Held(c)
  BY DEF Init, Held
<1>4. \A c \in Calls : LeaderSound(c)
  BY DEF Init, LeaderSound
<1> QED
  BY <1>1, <1>2, <1>3, <1>4 DEF IInv

\* Whatever threads, processes, timeouts and the daemon's death interleave, each
\* call's place, process and undisturbed finding are as IInv says.
THEOREM Invariance == Spec => []IInv
<1>1. ASSUME IInv, [Next]_vars PROVE IInv'
  <2>1. TypeOK'
    BY <1>1, StepTypeOK DEF IInv
  <2>2. \A c \in Calls : PlaceSound(c)'
    BY <1>1, StepPlaces DEF IInv
  <2>3. \A c \in Calls : Held(c)'
    BY <1>1, StepHeld DEF IInv
  <2>4. \A c \in Calls : LeaderSound(c)'
    BY <1>1, StepLeaders DEF IInv
  <2> QED
    BY <2>1, <2>2, <2>3, <2>4 DEF IInv
<1> QED
  BY InitIInv, <1>1, PTL DEF Spec

\* Every variable keeps its type (tools/filesystem.py, tools/shell.py).
THEOREM TypeCorrect == Spec => []TypeOK
<1>1. IInv => TypeOK
  BY DEF IInv
<1> QED
  BY Invariance, <1>1, PTL

\* What a write replaces is in the file or in its backup until somebody else
\* changes that path, wherever the write is, fails, or is cut off
\* (FSWriteTool._write).
THEOREM FoundStays == Spec => []FoundIsKept
<1>1. ASSUME IInv PROVE FoundIsKept
  <2> SUFFICES ASSUME NEW c \in Calls, args[c].op = "write", kept[c], found[c] # Absent
               PROVE  found[c] \in {file[args[c].path], backup[args[c].path]}
    BY DEF FoundIsKept
  <2>1. Held(c) /\ PlaceSound(c)
    BY <1>1 DEF IInv
  <2> QED
    BY <2>1 DEF Held, WriteHeld, PlaceSound, Threaded
<1> QED
  BY Invariance, <1>1, PTL

\* A file tool's answer describes what it did (FSWriteTool, FSMoveTool,
\* FSDeleteTool).
THEOREM AnswersHold == Spec => []AnswersAreTrue
<1>1. ASSUME IInv PROVE AnswersAreTrue
  <2> SUFFICES ASSUME NEW c \in Calls, answer[c] = "ok", kept[c]
               PROVE  LET p == args[c].path
                      IN  CASE args[c].op = "write"  -> file[p] = c /\ (found[c] # Absent => backup[p] = found[c])
                            [] args[c].op = "delete" -> file[p] = Absent
                            [] args[c].op = "move"   -> /\ file[args[c].dest] = found[c]
                                                        /\ p # args[c].dest => file[p] = Absent
                            [] OTHER                 -> TRUE
    BY DEF AnswersAreTrue
  <2>1. Held(c) /\ at[c] = "done"
    BY <1>1 DEF IInv, PlaceSound
  <2> QED
    BY <2>1 DEF Held, WriteHeld, MoveHeld
<1> QED
  BY Invariance, <1>1, PTL

\* shell.run comes back only when the process it started is over, if it may signal it
\* (ShellRunTool._execute, _terminate_group).
THEOREM LeadersAreGone == Spec => []LeaderIsGone
<1>1. IInv => LeaderIsGone
  BY DEF IInv, LeaderSound, LeaderIsGone
<1> QED
  BY Invariance, <1>1, PTL
==============================================================================

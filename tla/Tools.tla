--------------------------------- MODULE Tools ---------------------------------
(***************************************************************************)
(* What is behind a tool call once the executor runs it: a worker thread   *)
(* for the file tools (tools/filesystem.py), a process group for shell.run *)
(* (tools/shell.py), a process for the git tools (tools/git.py).  The      *)
(* executor's timeout ends the call and none of these: a thread that has   *)
(* begun, or a process, goes on behind a call that has failed.             *)
(*                                                                         *)
(* One step is what a thread does in one system call, what a coroutine     *)
(* does between two awaits, or a signal.  The daemon may die at any point. *)
(***************************************************************************)
EXTENDS Naturals, FiniteSets

CONSTANTS
  Calls,     \* tool calls, each run once
  Paths,     \* resolved paths of files
  Writable,  \* those inside the workspace and under no forbidden root
  Absent,    \* what a path without a file holds
  Torn       \* a file whose writing has begun and not ended

ASSUME ToolsAssumption ==
  /\ Writable \subseteq Paths
  /\ Absent # Torn /\ {Absent, Torn} \cap (Calls \cup Paths) = {}
  /\ Calls \cap Paths = {}

VARIABLES
  up,      \* whether the daemon lives
  file,    \* what a path holds: its first content, or what a call wrote
  backup,  \* what the file of the same name with .scrappy-bak holds
  args,    \* the call's tool and arguments
  at,      \* where the call's coroutine or thread is
  answer,  \* what the executor has made of the call
  found,   \* what the call's thread found when it looked
  kept,    \* nobody else has changed its paths since then
  fd,      \* the name of the file that a thread is writing
  leader,  \* the started process
  kid,     \* a process it has forked
  traits   \* how each takes a signal, and whether the kid holds the pipes

fileVars == <<file, backup, found, kept, fd>>
groupVars == <<leader, kid, traits>>
vars == <<up, fileVars, args, at, answer, groupVars>>

Contents == Calls \cup Paths \cup {Absent, Torn}
FileTools == {"write", "move", "delete"}
ProcessTools == {"shell", "git"}

Args == [op : FileTools \cup ProcessTools, path : Paths, dest : Paths, over : BOOLEAN]

\* Where a thread is; it goes on whatever becomes of its call.
Threaded == {"saving", "copying", "opening", "writing", "moving", "removing"}

\* Where a coroutine of a process tool is.
Attending == {"talking", "waiting", "killing"}

Places == {"new", "validating", "queued", "spawning", "never", "abandoned", "done", "raised"}
            \cup Threaded \cup Attending

\* How a process takes a signal: it may ignore SIGTERM; and of one that runs as
\* another user killpg may raise, which the tool suppresses.
Manners == {"heeds", "ignores", "foreign"}

NoTraits == [leader |-> "heeds", kid |-> "heeds", holds |-> FALSE]

Init ==
  /\ up = TRUE
  /\ file \in [Paths -> Contents] /\ \A p \in Paths : file[p] \in {p, Absent}
  /\ backup = [p \in Paths |-> Absent]
  /\ args \in [Calls -> Args]
  /\ at = [c \in Calls |-> "new"] /\ answer = [c \in Calls |-> "none"]
  /\ found = [c \in Calls |-> Absent] /\ kept = [c \in Calls |-> FALSE]
  /\ fd = [c \in Calls |-> Absent]
  /\ leader = [c \in Calls |-> "none"] /\ kid = [c \in Calls |-> "none"]
  /\ traits = [c \in Calls |-> NoTraits]

Exists(p) == file[p] # Absent

\* The next place of a call, when that is all that changes for it.
Go(c, place) == at' = [at EXCEPT ![c] = place]

\* Call c changes these paths under the eyes of those that have looked at them.
Touch(c, paths) ==
  kept' = [d \in Calls |->
             kept[d] /\ (d = c \/ {args[d].path, args[d].dest} \cap paths = {})]

-----------------------------------------------------------------------------
(***************************************************************************)
(* The call, as the executor sees it.                                      *)
(***************************************************************************)
Begin(c) ==
  /\ up /\ at[c] = "new"
  /\ Go(c, "validating")
  /\ UNCHANGED <<up, fileVars, args, answer, groupVars>>

\* The paths that the tool validates, those it would change.
Named(c) == IF args[c].op = "move" THEN {args[c].path, args[c].dest} ELSE {args[c].path}

\* run of a file tool: the paths, and the job for the thread pool.
ValidatePaths(c) ==
  /\ up /\ at[c] = "validating" /\ answer[c] = "none" /\ args[c].op \in FileTools
  /\ Go(c, IF Named(c) \subseteq Writable THEN "queued" ELSE "raised")
  /\ UNCHANGED <<up, fileVars, args, answer, groupVars>>

\* run of a process tool: its allowlist, its binary and its directory.
ValidateCommand(c) ==
  /\ up /\ at[c] = "validating" /\ answer[c] = "none" /\ args[c].op \in ProcessTools
  /\ \E place \in {"spawning", "raised"} : Go(c, place)
  /\ UNCHANGED <<up, fileVars, args, answer, groupVars>>

Validate(c) == ValidatePaths(c) \/ ValidateCommand(c)

\* Mutant: whatever run comes back with is a success.
FinishOk(c) ==
  /\ up /\ at[c] \in {"done", "raised"} /\ answer[c] = "none"
  /\ answer' = [answer EXCEPT ![c] = "ok"]
  /\ UNCHANGED <<up, fileVars, args, at, groupVars>>

\* The tool has returned or raised, and its call is still waited for.
Finish(c) ==
  /\ up /\ at[c] \in {"done", "raised"} /\ answer[c] = "none"
  /\ answer' = [answer EXCEPT ![c] = IF at[c] = "done" THEN "ok" ELSE "failed"]
  /\ UNCHANGED <<up, fileVars, args, at, groupVars>>

\* Mutant: the timeout waits for the thread or the process.
TimeoutWaits(c) ==
  /\ up /\ answer[c] = "none" /\ at[c] \in {"done", "raised"}
  /\ answer' = [answer EXCEPT ![c] = "timeout"]
  /\ UNCHANGED <<up, fileVars, args, at, groupVars>>

\* The executor's wait_for cancels the tool: a job that has not begun is taken
\* back, a coroutine is left where it is, a thread notices nothing.
Timeout(c) ==
  /\ up /\ answer[c] = "none" /\ at[c] # "new"
  /\ answer' = [answer EXCEPT ![c] = "timeout"]
  /\ Go(c, IF at[c] = "queued" THEN "never"
           ELSE IF at[c] \in Attending \cup {"validating", "spawning"} THEN "abandoned"
           ELSE at[c])
  /\ UNCHANGED <<up, fileVars, args, groupVars>>

\* The daemon dies; processes in sessions of their own do not.
Die ==
  /\ up
  /\ up' = FALSE
  /\ UNCHANGED <<fileVars, args, at, answer, groupVars>>

-----------------------------------------------------------------------------
(***************************************************************************)
(* fs.write.                                                               *)
(***************************************************************************)
\* Any of the thread's system calls may raise, and leaves the files as they are.
ThreadRaises(c) ==
  /\ up /\ at[c] \in Threaded
  /\ Go(c, "raised")
  /\ fd' = [fd EXCEPT ![c] = Absent]
  /\ UNCHANGED <<up, file, backup, found, kept, args, answer, groupVars>>

\* What the thread sees when it looks.
Look(c) ==
  /\ up /\ at[c] = "queued"
  /\ found' = [found EXCEPT ![c] = file[args[c].path]]
  /\ kept' = [kept EXCEPT ![c] = TRUE]
  /\ UNCHANGED <<up, file, backup, fd, args, answer, groupVars>>

\* Mutant: an earlier backup is not replaced.
LookKeepsBackup(c) ==
  /\ Look(c) /\ args[c].op = "write"
  /\ Go(c, IF ~Exists(args[c].path) \/ backup[args[c].path] # Absent THEN "opening"
           ELSE IF args[c].over THEN "saving" ELSE "raised")

LookToWrite(c) ==
  /\ Look(c) /\ args[c].op = "write"
  /\ Go(c, IF ~Exists(args[c].path) THEN "opening"
           ELSE IF args[c].over THEN "saving" ELSE "raised")

\* copy2 opens the file, and the backup, which that empties.
OpenBackup(c) ==
  /\ up /\ at[c] = "saving"
  /\ IF Exists(args[c].path)
     THEN /\ backup' = [backup EXCEPT ![args[c].path] = Torn]
          /\ Touch(c, {args[c].path})
          /\ Go(c, "copying")
     ELSE Go(c, "raised") /\ UNCHANGED <<backup, kept>>
  /\ UNCHANGED <<up, file, found, fd, args, answer, groupVars>>

\* It has copied what it found, or, with others at the file, a mixture.
CopyBackup(c) ==
  /\ up /\ at[c] = "copying"
  /\ \E content \in IF kept[c] THEN {found[c]} ELSE {found[c], file[args[c].path], Torn} :
       backup' = [backup EXCEPT ![args[c].path] = IF content = Absent THEN Torn ELSE content]
  /\ Touch(c, {args[c].path})
  /\ Go(c, "opening")
  /\ UNCHANGED <<up, file, found, fd, args, answer, groupVars>>

\* write_bytes opens the file, and empties it.
OpenFile(c) ==
  /\ up /\ at[c] = "opening"
  /\ file' = [file EXCEPT ![args[c].path] = Torn]
  /\ fd' = [fd EXCEPT ![c] = args[c].path]
  /\ Touch(c, {args[c].path})
  /\ Go(c, "writing")
  /\ UNCHANGED <<up, backup, found, args, answer, groupVars>>

\* The content is written to what is open, also where that has lost its name.
WriteFile(c) ==
  /\ up /\ at[c] = "writing"
  /\ IF fd[c] = Absent THEN UNCHANGED <<file, kept>>
     ELSE /\ \E content \in IF kept[c] THEN {c} ELSE {c, Torn} :
               file' = [file EXCEPT ![fd[c]] = content]
          /\ Touch(c, {fd[c]})
  /\ fd' = [fd EXCEPT ![c] = Absent]
  /\ Go(c, "done")
  /\ UNCHANGED <<up, backup, found, args, answer, groupVars>>

-----------------------------------------------------------------------------
(***************************************************************************)
(* fs.move and fs.delete, of files.                                        *)
(***************************************************************************)
LookToMove(c) ==
  /\ Look(c) /\ args[c].op = "move"
  /\ Go(c, IF Exists(args[c].path) /\ (Exists(args[c].dest) => args[c].over) THEN "moving"
           ELSE "raised")

\* rename: files that are open move with their names, or lose them.
Move(c) ==
  /\ up /\ at[c] = "moving" /\ Exists(args[c].path)
  /\ LET from == args[c].path
         to == args[c].dest
     IN  /\ file' = [p \in Paths |-> IF p = to THEN file[from]
                                     ELSE IF p = from THEN Absent ELSE file[p]]
         /\ fd' = [d \in Calls |-> IF fd[d] = from THEN to
                                   ELSE IF fd[d] = to THEN Absent ELSE fd[d]]
         /\ Touch(c, {from, to})
  /\ Go(c, "done")
  /\ UNCHANGED <<up, backup, found, args, answer, groupVars>>

LookToRemove(c) ==
  /\ Look(c) /\ args[c].op = "delete"
  /\ Go(c, IF Exists(args[c].path) THEN "removing" ELSE "raised")

Remove(c) ==
  /\ up /\ at[c] = "removing" /\ Exists(args[c].path)
  /\ file' = [file EXCEPT ![args[c].path] = Absent]
  /\ fd' = [d \in Calls |-> IF fd[d] = args[c].path THEN Absent ELSE fd[d]]
  /\ Touch(c, {args[c].path})
  /\ Go(c, "done")
  /\ UNCHANGED <<up, backup, found, args, answer, groupVars>>

-----------------------------------------------------------------------------
(***************************************************************************)
(* shell.run, and the git tools' processes.                                *)
(***************************************************************************)
Spawn(c) ==
  /\ up /\ at[c] = "spawning"
  /\ leader' = [leader EXCEPT ![c] = "alive"]
  /\ \E own, kids \in Manners, holds \in BOOLEAN :
       traits' = [traits EXCEPT ![c] = [leader |-> own, kid |-> kids, holds |-> holds]]
  /\ Go(c, "talking")
  /\ UNCHANGED <<up, fileVars, args, answer, kid>>

SpawnRaises(c) ==
  /\ up /\ at[c] = "spawning"
  /\ Go(c, "raised")
  /\ UNCHANGED <<up, fileVars, args, answer, groupVars>>

Fork(c) ==
  /\ leader[c] = "alive" /\ kid[c] = "none"
  /\ kid' = [kid EXCEPT ![c] = "alive"]
  /\ UNCHANGED <<up, fileVars, args, at, answer, leader, traits>>

LeaderExits(c) ==
  /\ leader[c] = "alive"
  /\ leader' = [leader EXCEPT ![c] = "exited"]
  /\ UNCHANGED <<up, fileVars, args, at, answer, kid, traits>>

KidExits(c) ==
  /\ kid[c] = "alive"
  /\ kid' = [kid EXCEPT ![c] = "exited"]
  /\ UNCHANGED <<up, fileVars, args, at, answer, leader, traits>>

\* The event loop learns of it: returncode is set, and the pid is free.
Reap(c) ==
  /\ up /\ leader[c] = "exited"
  /\ leader' = [leader EXCEPT ![c] = "reaped"]
  /\ UNCHANGED <<up, fileVars, args, at, answer, kid, traits>>

\* communicate returns when the process is over and both pipes are at their end.
Communicated(c) ==
  /\ up /\ at[c] = "talking"
  /\ leader[c] = "reaped" /\ ~(kid[c] = "alive" /\ traits[c].holds)
  /\ \E place \in IF args[c].op = "shell" THEN {"done"} ELSE {"done", "raised"} : Go(c, place)
  /\ UNCHANGED <<up, fileVars, args, answer, groupVars>>

\* The tool's own budget is over: SIGTERM to the group, unless the process has
\* been reaped, which is taken for the end of the group.
Terminate(c) ==
  /\ up /\ at[c] = "talking" /\ args[c].op = "shell"
  /\ IF leader[c] = "reaped"
     THEN Go(c, "raised") /\ UNCHANGED <<leader, kid>>
     ELSE /\ Go(c, "waiting")
          /\ leader' = [leader EXCEPT ![c] = IF traits[c].leader = "heeds" THEN "exited" ELSE @]
          /\ kid' = [kid EXCEPT ![c] =
                       IF @ = "alive" /\ traits[c].kid = "heeds" THEN "exited" ELSE @]
  /\ UNCHANGED <<up, fileVars, args, answer, traits>>

\* The git tools raise, and signal nobody.
GiveUp(c) ==
  /\ up /\ at[c] = "talking" /\ args[c].op = "git"
  /\ Go(c, "raised")
  /\ UNCHANGED <<up, fileVars, args, answer, groupVars>>

\* process.wait has returned.
WaitedFor(c) ==
  /\ up /\ at[c] \in {"waiting", "killing"} /\ leader[c] = "reaped"
  /\ Go(c, "raised")
  /\ UNCHANGED <<up, fileVars, args, answer, groupVars>>

\* Mutant: after the grace period the process is given up and not killed.
KillSkipped(c) ==
  /\ up /\ at[c] = "waiting"
  /\ Go(c, "killing")
  /\ UNCHANGED <<up, fileVars, args, answer, groupVars>>

\* Three seconds later: SIGKILL, if the group can still be found by the pid.
Kill(c) ==
  /\ up /\ at[c] = "waiting"
  /\ Go(c, "killing")
  /\ IF leader[c] = "reaped" THEN UNCHANGED <<leader, kid>>
     ELSE /\ leader' = [leader EXCEPT ![c] = IF traits[c].leader # "foreign" THEN "exited" ELSE @]
          /\ kid' = [kid EXCEPT ![c] =
                       IF @ = "alive" /\ traits[c].kid # "foreign" THEN "exited" ELSE @]
  /\ UNCHANGED <<up, fileVars, args, answer, traits>>

\* Another three seconds later, reaped or not.
Killed(c) ==
  /\ up /\ at[c] = "killing"
  /\ Go(c, "raised")
  /\ UNCHANGED <<up, fileVars, args, answer, groupVars>>

-----------------------------------------------------------------------------
Call(c) == Begin(c) \/ Validate(c) \/ Finish(c) \/ Timeout(c)

Thread(c) ==
  \/ ThreadRaises(c)
  \/ LookToWrite(c) \/ OpenBackup(c) \/ CopyBackup(c) \/ OpenFile(c) \/ WriteFile(c)
  \/ LookToMove(c) \/ Move(c) \/ LookToRemove(c) \/ Remove(c)

Process(c) ==
  \/ Spawn(c) \/ SpawnRaises(c) \/ Fork(c) \/ LeaderExits(c) \/ KidExits(c) \/ Reap(c)
  \/ Communicated(c) \/ Terminate(c) \/ GiveUp(c) \/ WaitedFor(c) \/ Kill(c) \/ Killed(c)

Next == Die \/ \E c \in Calls : Call(c) \/ Thread(c) \/ Process(c)

Spec == Init /\ [][Next]_vars

\* The event loop validates what has begun and fires the executor's timer; no
\* thread, no process and no signal need ever get anywhere.
FairSpec == Spec /\ \A c \in Calls : WF_vars(Validate(c)) /\ WF_vars(Timeout(c))

-----------------------------------------------------------------------------
\* Every variable keeps its type (tools/filesystem.py, tools/shell.py).
TypeOK ==
  /\ up \in BOOLEAN
  /\ file \in [Paths -> Contents] /\ backup \in [Paths -> Contents]
  /\ args \in [Calls -> Args]
  /\ at \in [Calls -> Places]
  /\ answer \in [Calls -> {"none", "ok", "failed", "timeout"}]
  /\ found \in [Calls -> Contents] /\ kept \in [Calls -> BOOLEAN]
  /\ fd \in [Calls -> Paths \cup {Absent}]
  /\ leader \in [Calls -> {"none", "alive", "exited", "reaped"}]
  /\ kid \in [Calls -> {"none", "alive", "exited"}]
  /\ traits \in [Calls -> [leader : Manners, kid : Manners, holds : BOOLEAN]]

\* What a write found is whole, in the file or in its backup, until somebody
\* else changes that path: at every point of the write, when it raises, when its
\* call is long over, and when the daemon dies.
FoundIsKept ==
  \A c \in Calls :
    args[c].op = "write" /\ kept[c] /\ found[c] # Absent =>
      found[c] \in {file[args[c].path], backup[args[c].path]}

\* What a call claims to have done is done, until somebody else changes it.
AnswersAreTrue ==
  \A c \in Calls :
    answer[c] = "ok" /\ kept[c] =>
      LET p == args[c].path
      IN  CASE args[c].op = "write"  -> file[p] = c /\ (found[c] # Absent => backup[p] = found[c])
            [] args[c].op = "delete" -> file[p] = Absent
            [] args[c].op = "move"   -> /\ file[args[c].dest] = found[c]
                                        /\ p # args[c].dest => file[p] = Absent
            [] OTHER                 -> TRUE

\* When shell.run itself has come back, with a result or with its timeout, the
\* command it started is over, if the daemon may signal it: an error of killpg is
\* suppressed, and the timeout then claims an end that there was not.
LeaderIsGone ==
  \A c \in Calls :
    args[c].op = "shell" /\ at[c] \in {"done", "raised"} /\ traits[c].leader # "foreign" =>
      leader[c] # "alive"

\* Every call that has begun is answered, whatever its thread or its processes
\* do, unless the daemon dies.
CallsAnswer == \A c \in Calls : at[c] # "new" ~> (answer[c] # "none" \/ ~up)

\* What the header of tools/shell.py says of a timeout: nobody of the process
\* group lingers.
GroupIsGone ==
  \A c \in Calls : args[c].op = "shell" /\ at[c] = "raised" => kid[c] # "alive"
=============================================================================

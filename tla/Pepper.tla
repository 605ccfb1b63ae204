-------------------------------- MODULE Pepper --------------------------------
(***************************************************************************)
(* The token pepper (security/pepper.py): several processes, the daemon    *)
(* and the commands an operator runs, resolve the key that tokens are      *)
(* verified with.  A process uses the configured key if it has one, and    *)
(* else the one in the data directory, which the first to need it creates. *)
(*                                                                         *)
(* The file appears at os.open and gets its content when the handle is     *)
(* closed; a process may look, lose the race or die in between.  The key a *)
(* process generates is named by the process: one that dies before it      *)
(* wrote its key has shown it to nobody.                                   *)
(***************************************************************************)
EXTENDS Naturals

CONSTANTS
  Procs,    \* processes
  Keys,     \* configured keys of at least MIN_PEPPER_LENGTH characters
  Unset,    \* SCRAPPY_TOKEN_PEPPER is not set, or is blank
  Short,    \* it is set to something shorter
  Absent,   \* there is no file
  Empty,    \* there is one, with nothing in it
  None      \* this process has no pepper

ASSUME PepperAssumption ==
  /\ Procs \cap Keys = {}
  /\ {Absent, Empty, None} \cap (Procs \cup Keys) = {}
  /\ {Unset, Short} \cap Keys = {}
  /\ Absent # Empty /\ Unset # Short

VARIABLES
  run,     \* per process: where it is
  env,     \* per process: what it found configured when it started
  file,    \* the file: Absent, Empty, or the key in it
  pepper   \* per process: the key it resolved

pepperVars == <<run, env, file, pepper>>

PepperInit ==
  /\ run = [p \in Procs |-> "down"]
  /\ env = [p \in Procs |-> Unset]
  /\ file = Absent
  /\ pepper = [p \in Procs |-> None]

Goto(p, where) == run' = [run EXCEPT ![p] = where]

Settle(p, value) == Goto(p, "up") /\ pepper' = [pepper EXCEPT ![p] = value]

Start(p) ==
  /\ run[p] = "down"
  /\ \E found \in Keys \cup {Unset, Short} : env' = [env EXCEPT ![p] = found]
  /\ Goto(p, "resolving")
  /\ UNCHANGED <<file, pepper>>

\* resolve_pepper with a key configured: a short one is refused.
UseConfigured(p) ==
  /\ run[p] = "resolving" /\ env[p] # Unset
  /\ IF env[p] = Short THEN Goto(p, "refused") /\ UNCHANGED pepper
                       ELSE Settle(p, env[p])
  /\ UNCHANGED <<env, file>>

\* path.exists(), and the read if it does: an empty file is refused.
LookAtFile(p) ==
  /\ run[p] = "resolving" /\ env[p] = Unset
  /\ \/ file = Absent /\ Goto(p, "creating") /\ UNCHANGED pepper
     \/ file = Empty /\ Goto(p, "refused") /\ UNCHANGED pepper
     \/ file \notin {Absent, Empty} /\ Settle(p, file)
  /\ UNCHANGED <<env, file>>

\* Mutant: the file is opened without O_EXCL, and truncated.
CreateAnyway(p) ==
  /\ run[p] = "creating"
  /\ Goto(p, "writing") /\ file' = Empty
  /\ UNCHANGED <<env, pepper>>

\* os.open with O_CREAT and O_EXCL: FileExistsError if another was faster.
Create(p) ==
  /\ run[p] = "creating"
  /\ IF file = Absent THEN Goto(p, "writing") /\ file' = Empty
                      ELSE Goto(p, "refused") /\ UNCHANGED file
  /\ UNCHANGED <<env, pepper>>

\* The generated key reaches the file as the handle is closed.
Fill(p) ==
  /\ run[p] = "writing"
  /\ file' = p
  /\ Settle(p, p)
  /\ UNCHANGED env

\* The disk is full: the file stays as it was created.
FillRaises(p) ==
  /\ run[p] = "writing"
  /\ Goto(p, "refused")
  /\ UNCHANGED <<env, file, pepper>>

\* The process ends, by itself or not.
Exit(p) ==
  /\ run[p] # "down"
  /\ Goto(p, "down")
  /\ env' = [env EXCEPT ![p] = Unset]
  /\ pepper' = [pepper EXCEPT ![p] = None]
  /\ UNCHANGED file

PepperStep(p) ==
  Start(p) \/ UseConfigured(p) \/ LookAtFile(p) \/ Create(p) \/ Fill(p) \/ FillRaises(p)

PepperNext == \E p \in Procs : PepperStep(p) \/ Exit(p)

PepperSpec == PepperInit /\ [][PepperNext]_pepperVars

-----------------------------------------------------------------------------
\* Every variable keeps its type (security/pepper.py, resolve_pepper).
PepperTypeOK ==
  /\ run \in [Procs -> {"down", "resolving", "creating", "writing", "refused", "up"}]
  /\ env \in [Procs -> Keys \cup {Unset, Short}]
  /\ file \in Procs \cup {Absent, Empty}
  /\ pepper \in [Procs -> Procs \cup Keys \cup {None}]

\* Whoever is up without a configured key has the one in the file, however many
\* processes started at once and wherever any of them died: no two of them
\* ever verify with different keys.
OnePepper == \A p \in Procs : run[p] = "up" /\ env[p] = Unset => pepper[p] = file

\* The first key that reaches the file is the only one that ever does.
FirstKeyStays == [][(file \in Procs) => (file' = file)]_pepperVars

-----------------------------------------------------------------------------
\* What makes them inductive: one process at a time has the file open to fill.
FillsAlone ==
  \A p \in Procs : run[p] = "writing" =>
    file = Empty /\ env[p] = Unset /\ \A q \in Procs \ {p} : run[q] # "writing"

Resolved ==
  \A p \in Procs :
    /\ run[p] = "creating" => env[p] = Unset
    /\ run[p] = "up" => env[p] # Short
    /\ run[p] = "up" => pepper[p] = IF env[p] = Unset THEN file ELSE env[p]
    /\ run[p] = "up" /\ env[p] = Unset => file \in Procs

PepperInv == PepperTypeOK /\ FillsAlone /\ Resolved
=============================================================================

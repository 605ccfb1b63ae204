-------------------------------- MODULE MCTools --------------------------------
(***************************************************************************)
(* Tools with two calls, two writable paths and one that is not.  The      *)
(* calls' arguments are those that can tell something apart: only a move   *)
(* has a destination, what is not writable is refused whatever else is     *)
(* asked, the first path that anybody names is called a, and a process     *)
(* tool, which shares nothing with the other calls, has little company.    *)
(***************************************************************************)
EXTENDS Tools, TLC

CONSTANTS a, b, x, first

Deleting(p) == [op |-> "delete", path |-> p, dest |-> p, over |-> FALSE]

Telling(arg) ==
  /\ arg.op \in ProcessTools => arg.path = a /\ arg.dest = a /\ ~arg.over
  /\ arg.op \in {"write", "delete"} => arg.dest = arg.path
  /\ arg.op = "delete" => ~arg.over
  /\ arg.path = x \/ arg.dest = x => ~arg.over

MCInit ==
  /\ Init
  /\ Exists(x)
  /\ \A c \in Calls : Telling(args[c])
  /\ args[first].path = a /\ args[first].dest # x
  /\ \A c \in Calls \ {first} :
       /\ args[c].op \notin ProcessTools
       /\ args[first].op \in ProcessTools => args[c] \in {Deleting(a), Deleting(x)}

MCSpec == MCInit /\ [][Next]_vars
MCFairSpec == MCSpec /\ \A c \in Calls : WF_vars(Validate(c)) /\ WF_vars(Timeout(c))
=============================================================================

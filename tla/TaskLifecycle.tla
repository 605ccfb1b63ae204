--------------------------- MODULE TaskLifecycle ---------------------------
(***************************************************************************)
(* What a task promises to everyone who watches it (the API, the CLI, the  *)
(* runtime's counters): it moves only along TASK_TRANSITIONS, and whoever  *)
(* finds it in a final state finds the one event that belongs to that      *)
(* state in the history.  The orchestration loop, the agents, the budgets  *)
(* and the executor are all hidden; Orchestrator.tla implements this.      *)
(***************************************************************************)

VARIABLES
  state,     \* Task.state
  reported   \* the terminal event published for the task, or "nothing"

TaskState == {"CREATED", "PLANNING", "AWAITING_APPROVAL", "EXECUTING",
              "VERIFYING", "ROLLING_BACK", "COMPLETED", "FAILED", "CANCELLED"}

Terminal == {"COMPLETED", "FAILED", "CANCELLED"}

\* The successors of each state in TASK_TRANSITIONS.
TaskTransitions ==
  [s \in TaskState |->
    CASE s = "CREATED"           -> {"PLANNING", "CANCELLED", "FAILED"}
      [] s = "PLANNING"          -> {"EXECUTING", "AWAITING_APPROVAL",
                                     "COMPLETED", "FAILED", "CANCELLED"}
      [] s = "AWAITING_APPROVAL" -> {"EXECUTING", "PLANNING", "FAILED",
                                     "CANCELLED"}
      [] s = "EXECUTING"         -> {"VERIFYING", "AWAITING_APPROVAL", "PLANNING",
                                     "ROLLING_BACK", "FAILED", "CANCELLED"}
      [] s = "VERIFYING"         -> {"EXECUTING", "PLANNING", "COMPLETED",
                                     "ROLLING_BACK", "FAILED", "CANCELLED"}
      [] s = "ROLLING_BACK"      -> {"FAILED", "COMPLETED", "CANCELLED"}
      [] OTHER                   -> {}]

CanTransition(current, target) == target \in TaskTransitions[current]

TerminalEvent(s) ==
  CASE s = "COMPLETED" -> "task_completed"
    [] s = "FAILED"    -> "task_failed"
    [] s = "CANCELLED" -> "task_cancelled"

vars == <<state, reported>>

Init ==
  /\ state = "CREATED"
  /\ reported = "nothing"

\* Task.transition_to with a target that is neither the current state (a no-op)
\* nor refused.
TransitionTo(target) == CanTransition(state, target) /\ state' = target

\* On the way nothing is reported.
Move(target) ==
  /\ target \notin Terminal
  /\ TransitionTo(target)
  /\ UNCHANGED reported

\* The end and its event are one step to everybody else.
Finish(target) ==
  /\ target \in Terminal
  /\ TransitionTo(target)
  /\ reported' = TerminalEvent(target)

Next == \E target \in TaskState : Move(target) \/ Finish(target)

Spec == Init /\ [][Next]_vars
=============================================================================

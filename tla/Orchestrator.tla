---------------------------- MODULE Orchestrator ----------------------------
(***************************************************************************)
(* One run of Orchestrator.run (brain/orchestrator.py) with its TaskBudget *)
(* (brain/limits.py): plan, review, execute, verify, and then another      *)
(* cycle, a rollback, or the end.                                          *)
(*                                                                         *)
(* The agents are external: what the model answers is any answer the       *)
(* schemas admit, and any turn may raise ProviderError.  The executor is   *)
(* reduced to the four outcomes the loop distinguishes and the StoreError  *)
(* that escapes it.  Between two awaits the coroutine runs alone, so one   *)
(* action is one stretch of code up to the next model turn, tool call or   *)
(* terminal event; the clock and a cancellation may intervene anywhere.    *)
(***************************************************************************)
EXTENDS Integers, Sequences

CONSTANTS
  Steps,                   \* the distinct steps an agent can propose
  MaxPlanSteps,            \* settings.max_plan_steps
  MaxReplans,              \* settings.max_replans
  MaxConsecutiveFailures,  \* settings.max_consecutive_tool_failures
  MaxModelCalls,           \* settings.max_model_calls
  PlanLimit,               \* longest step list a plan schema admits (50 in the code)
  RecoveryLimit            \* longest recovery plan (20 in the code)

\* The bounds core/config.py puts on the settings.
ASSUME BudgetAssumption ==
  /\ MaxPlanSteps \in Nat \ {0}
  /\ MaxReplans \in Nat
  /\ MaxConsecutiveFailures \in Nat \ {0}
  /\ MaxModelCalls \in Nat \ {0}

ASSUME SchemaAssumption ==
  /\ PlanLimit \in Nat
  /\ RecoveryLimit \in Nat

VARIABLES
  state,                \* Task.state
  at,                   \* where the coroutine is suspended
  timeUp,               \* elapsed_seconds >= max_task_seconds
  stepsExecuted,        \* TaskBudget.steps_executed
  replans,              \* TaskBudget.replans (task.replan_count moves with it)
  consecutiveFailures,  \* TaskBudget.consecutive_failures
  modelCalls,           \* TaskBudget.model_calls
  plan,                 \* the plan under review, being executed or undone
  pos,                  \* index in plan of the next step to run
  executed,             \* executed_steps of the current cycle
  handed,               \* the executed_steps Mahesh was given
  succeeded,            \* outcome.succeeded
  reported,             \* the last terminal event in the bus's history, or "nothing"
  reports,              \* history: how many terminal events have been put there
  cycles,               \* history: how many PLAN_CREATED events were published
  attempted,            \* history: steps handed to the executor, with their cycle
  ran                   \* history: of these, the ones whose tool really ran

budget == <<timeUp, stepsExecuted, replans, consecutiveFailures, modelCalls>>
work == <<plan, pos, executed, handed>>
result == <<succeeded, reported, reports>>
history == <<cycles, attempted, ran>>
vars == <<state, at, budget, work, result, history>>

Lifecycle == INSTANCE TaskLifecycle

Points == {"new", "cycle", "planning", "reviewing", "executing", "verifying",
           "recovering", "undoing", "closing", "done", "cancelled"}

\* Sequences of at most n steps: the step lists an agent may return.
StepLists(n) == UNION {[1..k -> Steps] : k \in 0..n}

StepsOf(list) == {list[i] : i \in DOMAIN list}

RemainingSteps ==
  IF MaxPlanSteps - stepsExecuted > 1 THEN MaxPlanSteps - stepsExecuted ELSE 1

-----------------------------------------------------------------------------
\* TaskBudget: the conditions under which each check raises LimitExceeded.

OutOfSteps == stepsExecuted >= MaxPlanSteps
OutOfModelCalls == modelCalls >= MaxModelCalls
OutOfFailures == consecutiveFailures >= MaxConsecutiveFailures
OutOfReplans == replans >= MaxReplans
\* Mutant: check_all forgets check_failures.
AnyLimitButFailures == timeUp \/ OutOfSteps \/ OutOfModelCalls

AnyLimit == timeUp \/ OutOfSteps \/ OutOfModelCalls \/ OutOfFailures

RecordStep(success) ==
  /\ stepsExecuted' = stepsExecuted + 1
  /\ consecutiveFailures' = IF success THEN 0 ELSE consecutiveFailures + 1

RecordModelCall == modelCalls' = modelCalls + 1

RecordReplan == replans' = replans + 1

Init ==
  /\ state = "CREATED"
  /\ at = "new"
  /\ timeUp = FALSE
  /\ stepsExecuted = 0 /\ replans = 0 /\ consecutiveFailures = 0 /\ modelCalls = 0
  /\ plan = <<>> /\ pos = 1 /\ executed = {} /\ handed = {}
  /\ succeeded = FALSE /\ reported = "nothing" /\ reports = 0
  /\ cycles = 0 /\ attempted = {} /\ ran = {}

\* run: the task exists and TASK_CREATED is out; _drive is about to loop.
Submit ==
  /\ at = "new"
  /\ at' = "cycle"
  /\ UNCHANGED <<state, budget, work, result, history>>

-----------------------------------------------------------------------------
\* The exits.  publish puts the event in the history before its first await, so a
\* task is reported in the step that ends it; it is "closing" while the handlers
\* of its terminal event run.

Emit(event) == reported' = event /\ reports' = reports + 1

Fail ==
  /\ state' = IF state \in Lifecycle!Terminal THEN state ELSE "FAILED"
  /\ succeeded' = FALSE
  /\ Emit("task_failed")
  /\ at' = "closing"

\* LimitExceeded, ProviderError or another ScrappyError reaching run.
Raise == Fail

\* Mutant: publish lets a handler's exception through, and run fails the task.
ConcludeRaises ==
  /\ at = "closing"
  /\ Raise
  /\ UNCHANGED <<budget, work, history>>

\* The handlers are through; what one of them raised was caught by publish.
Conclude ==
  /\ at = "closing"
  /\ at' = "done"
  /\ UNCHANGED <<state, budget, work, result, history>>

-----------------------------------------------------------------------------
\* Planning and review.

\* Mutant: the inference budget is not checked at the top of the loop.
BeginCycleUnchecked ==
  /\ at = "cycle"
  /\ ~timeUp
  /\ state' = "PLANNING"
  /\ at' = "planning"
  /\ UNCHANGED <<budget, work, result, history>>

BeginCycle ==
  /\ at = "cycle"
  /\ ~timeUp /\ ~OutOfModelCalls
  /\ state' = "PLANNING"
  /\ at' = "planning"
  /\ UNCHANGED <<budget, work, result, history>>

\* Mutant: LimitExceeded is swallowed and the loop tries again.
RefuseCycleForever ==
  /\ at = "cycle"
  /\ timeUp \/ OutOfModelCalls
  /\ UNCHANGED vars

RefuseCycle ==
  /\ at = "cycle"
  /\ timeUp \/ OutOfModelCalls
  /\ Raise
  /\ UNCHANGED <<budget, work, history>>

\* What Brahma may return: its proposal, cut to the steps that are left.
ProposedPlans == {p \in StepLists(PlanLimit) : Len(p) <= RemainingSteps}

\* What Vishnu may approve: any non-empty list its schema admits, copied step by
\* step from its own answer and not selected from the proposal.
ReviewedPlans == StepLists(PlanLimit) \ {<<>>}

Propose ==
  /\ at = "planning"
  /\ plan' \in ProposedPlans
  /\ RecordModelCall
  /\ cycles' = cycles + 1
  /\ at' = "reviewing"
  /\ UNCHANGED <<state, timeUp, stepsExecuted, replans, consecutiveFailures,
                 pos, executed, handed, result, attempted, ran>>

\* Mutant: executed_steps is made once and not once a cycle.
ApproveKeeping ==
  /\ at = "reviewing"
  /\ plan' \in ReviewedPlans
  /\ pos' = 1
  /\ RecordModelCall
  /\ state' = "EXECUTING"
  /\ at' = "executing"
  /\ UNCHANGED <<timeUp, stepsExecuted, replans, consecutiveFailures, executed, handed,
                 result, history>>

\* Mutant: execution starts without the transition to EXECUTING.
ApproveInPlace ==
  /\ at = "reviewing"
  /\ plan' \in ReviewedPlans
  /\ pos' = 1
  /\ executed' = {}
  /\ RecordModelCall
  /\ at' = "executing"
  /\ UNCHANGED <<state, timeUp, stepsExecuted, replans, consecutiveFailures,
                 handed, result, history>>

\* Approved, with steps.
Approve ==
  /\ at = "reviewing"
  /\ plan' \in ReviewedPlans
  /\ pos' = 1
  /\ executed' = {}
  /\ RecordModelCall
  /\ state' = "EXECUTING"
  /\ at' = "executing"
  /\ UNCHANGED <<timeUp, stepsExecuted, replans, consecutiveFailures, handed,
                 result, history>>

\* Back to the top of the loop, if the replan budget still allows it.
NextCycle ==
  \/ /\ ~OutOfReplans
     /\ RecordReplan
     /\ at' = "cycle"
     /\ UNCHANGED <<state, result>>
  \/ /\ OutOfReplans
     /\ Raise
     /\ UNCHANGED replans

\* Not approved, or approved with no step left.
Reject ==
  /\ at = "reviewing"
  /\ RecordModelCall
  /\ plan' = <<>>
  /\ NextCycle
  /\ UNCHANGED <<timeUp, stepsExecuted, consecutiveFailures, pos, executed,
                 handed, history>>

\* A turn raises ProviderError (unreachable, timed out, or no valid structure
\* after one repair).  A turn that fails is not recorded.
ModelFails ==
  /\ at \in {"planning", "reviewing", "verifying", "recovering"}
  /\ Raise
  /\ UNCHANGED <<budget, work, history>>

-----------------------------------------------------------------------------
\* Execution.  What the executor can answer, as far as the loop looks:
\*   ok          the tool ran and succeeded
\*   error       the tool ran and failed, or timed out
\*   unapproved  policy asked for an approval that was not given: not run
\*   denied      refused by policy, an unknown tool, or invalid arguments: not run

Outcomes == {"ok", "error", "unapproved", "denied"}

Really(outcome) == outcome \in {"ok", "error"}

\* _execute_step and the bookkeeping after it, common to both loops.
ExecuteStep(outcome) ==
  /\ attempted' = attempted \cup {<<cycles, plan[pos]>>}
  /\ ran' = IF Really(outcome) THEN ran \cup {<<cycles, plan[pos]>>} ELSE ran
  /\ RecordStep(outcome = "ok")
  /\ UNCHANGED <<timeUp, replans, modelCalls, cycles>>

\* Leaving the step loop: the plan is spent, the task verifies.
Observed ==
  /\ state' = "VERIFYING"
  /\ at' = "verifying"
  /\ plan' = <<>>
  /\ pos' = 1

RunStep(outcome) ==
  /\ at = "executing"
  /\ pos <= Len(plan)
  /\ ~AnyLimit
  /\ ExecuteStep(outcome)
  /\ executed' = executed \cup {plan[pos]}
  /\ IF outcome = "denied"
     THEN Observed
     ELSE pos' = pos + 1 /\ UNCHANGED <<state, at, plan>>
  /\ UNCHANGED <<handed, result>>

EndSteps ==
  /\ at = "executing"
  /\ pos > Len(plan) \/ AnyLimit
  /\ Observed
  /\ UNCHANGED <<budget, executed, handed, result, history>>

-----------------------------------------------------------------------------
\* Verification: Vishnu's decision.

Verified == at = "verifying" /\ RecordModelCall

Complete ==
  /\ Verified
  /\ state' = "COMPLETED"
  /\ succeeded' = TRUE
  /\ Emit("task_completed")
  /\ at' = "closing"
  /\ UNCHANGED <<timeUp, stepsExecuted, replans, consecutiveFailures, work, history>>

Abort ==
  /\ Verified
  /\ Fail
  /\ UNCHANGED <<timeUp, stepsExecuted, replans, consecutiveFailures, work,
                 history>>

\* "continue" and "replan" are the same to the loop.
Replan ==
  /\ Verified
  /\ NextCycle
  /\ UNCHANGED <<timeUp, stepsExecuted, consecutiveFailures, work, history>>

Rollback ==
  /\ Verified
  /\ state' = "ROLLING_BACK"
  /\ handed' = executed
  /\ at' = "recovering"
  /\ UNCHANGED <<timeUp, stepsExecuted, replans, consecutiveFailures,
                 plan, pos, executed, result, history>>

-----------------------------------------------------------------------------
\* Recovery: Mahesh's plan, unreviewed, through the same executor.

\* What Mahesh may return; it is not cut to the steps that are left.
RecoveryPlans == StepLists(RecoveryLimit)

Recover ==
  /\ at = "recovering"
  /\ plan' \in RecoveryPlans
  /\ pos' = 1
  /\ RecordModelCall
  /\ at' = "undoing"
  /\ UNCHANGED <<state, timeUp, stepsExecuted, replans, consecutiveFailures,
                 executed, handed, result, history>>

\* Mutant: recovery is exempt from the step budget.
UndoStepUnlimited(outcome) ==
  /\ at = "undoing"
  /\ pos <= Len(plan)
  /\ ~timeUp
  /\ ExecuteStep(outcome)
  /\ pos' = pos + 1
  /\ UNCHANGED <<state, at, plan, executed, handed, result>>

\* A refused recovery step does not stop the others.
UndoStep(outcome) ==
  /\ at = "undoing"
  /\ pos <= Len(plan)
  /\ ~timeUp /\ ~OutOfSteps
  /\ ExecuteStep(outcome)
  /\ pos' = pos + 1
  /\ UNCHANGED <<state, at, plan, executed, handed, result>>

EndUndo ==
  /\ at = "undoing"
  /\ pos > Len(plan) \/ timeUp \/ OutOfSteps
  /\ state' = "FAILED"
  /\ succeeded' = FALSE
  /\ Emit("task_failed")
  /\ at' = "closing"
  /\ UNCHANGED <<budget, work, history>>

\* A StoreError from the ledger or from episodic memory escapes the step, after
\* the tool ran or before; neither executed_steps nor the budget learns of it.
StepRaises ==
  /\ at \in {"executing", "undoing"}
  /\ pos <= Len(plan)
  /\ ~timeUp /\ ~OutOfSteps
  /\ at = "executing" => ~AnyLimit
  /\ attempted' = attempted \cup {<<cycles, plan[pos]>>}
  /\ ran' \in {ran, ran \cup {<<cycles, plan[pos]>>}}
  /\ Raise
  /\ UNCHANGED <<budget, work, cycles>>

-----------------------------------------------------------------------------
\* The surroundings: the clock, and CancelledError from the runtime's shutdown,
\* which run does not catch.  A task cancelled while it is closing has ended and is
\* in the history already; its handlers are cut short.

Running == at \notin {"done", "cancelled"}

DeadlinePasses ==
  /\ Running
  /\ ~timeUp
  /\ timeUp' = TRUE
  /\ UNCHANGED <<state, at, stepsExecuted, replans, consecutiveFailures,
                 modelCalls, work, result, history>>

Cancel ==
  /\ Running
  /\ at' = "cancelled"
  /\ UNCHANGED <<state, budget, work, result, history>>

Loop ==
  \/ Submit
  \/ BeginCycle
  \/ RefuseCycle
  \/ Propose
  \/ Approve
  \/ Reject
  \/ ModelFails
  \/ \E outcome \in Outcomes : RunStep(outcome)
  \/ EndSteps
  \/ Complete
  \/ Abort
  \/ Replan
  \/ Rollback
  \/ Recover
  \/ \E outcome \in Outcomes : UndoStep(outcome)
  \/ EndUndo
  \/ StepRaises
  \/ Conclude

Next == Loop \/ DeadlinePasses \/ Cancel

\* Every await of the loop returns or raises: provider calls and tools run
\* under a timeout, and the event loop resumes a ready coroutine.  Nothing is
\* assumed of the clock or of cancellation.
Spec == Init /\ [][Next]_vars /\ WF_vars(Loop)
-----------------------------------------------------------------------------
\* Types, and while steps run the cursor is never past the step after the last.
TypeOK ==
  /\ state \in Lifecycle!TaskState
  /\ at \in Points
  /\ timeUp \in BOOLEAN
  /\ stepsExecuted \in Nat /\ replans \in Nat
  /\ consecutiveFailures \in Nat /\ modelCalls \in Nat
  /\ plan \in Seq(Steps) /\ pos \in Nat \ {0}
  /\ at \in {"executing", "undoing"} => pos <= Len(plan) + 1
  /\ executed \subseteq Steps /\ handed \subseteq Steps
  /\ succeeded \in BOOLEAN
  /\ reported \in {"nothing", "task_completed", "task_failed"}
  /\ reports \in Nat /\ cycles \in Nat
  /\ attempted \subseteq Nat \X Steps /\ ran \subseteq attempted

\* No task executes more than max_plan_steps steps, whatever plan Vishnu sends
\* back and whatever Mahesh adds in recovery: both loops share one counter.
StepBudget == stepsExecuted <= MaxPlanSteps

\* Every trip round the loop is paid for by a replan: with PLAN_CREATED counted
\* as a cycle, a task plans at most max_replans + 1 times.
CyclesPaidFor ==
  /\ replans <= MaxReplans
  /\ cycles \in {replans, replans + 1}

\* The inference budget is checked at the top of a cycle and before each step,
\* never before review, verification or recovery: it can be overrun, by those
\* three turns and no more.
ModelCallOverrun == modelCalls <= MaxModelCalls + 3

\* Whatever max_model_calls is, the replan budget alone bounds the inference of
\* a task: three turns a cycle and one recovery.
ModelCallsPerCycle == modelCalls <= 3 * (MaxReplans + 1) + 1

\* Once max_consecutive_tool_failures is reached no further planned step runs,
\* in this cycle or after a replan: the counter survives the cycle.  Recovery
\* steps are not subject to it.
FailureCap ==
  state \notin {"ROLLING_BACK", "FAILED"} =>
    consecutiveFailures <= MaxConsecutiveFailures

\* A task is in a final state exactly when its terminal event is in the history:
\* one event, of the kind of that state and of outcome.succeeded, whatever was
\* raised on the way and wherever the run was cancelled.  A run that returns has it.
OneTruthfulReport ==
  /\ reports = IF state \in Lifecycle!Terminal THEN 1 ELSE 0
  /\ reports = 1 => /\ reported = Lifecycle!TerminalEvent(state)
                    /\ succeeded <=> state = "COMPLETED"
  /\ at = "done" => reports = 1

\* The steps of the present cycle in a history.
OfThisCycle(steps) == {s \in Steps : <<cycles, s>> \in steps}

\* What Mahesh is asked to undo is the cycle that is rolled back: every step of it
\* whose tool ran is there, however the step loop was left, and none that the cycle
\* did not hand to the executor, whatever an earlier cycle or the plan had.
HandedIsTheCycle ==
  at = "recovering" =>
    OfThisCycle(ran) \subseteq handed /\ handed \subseteq OfThisCycle(attempted)

\* What the orchestration loop does to a task is what TaskLifecycle promises;
\* in particular transition_to never raises InvalidStateTransition.
ImplementsLifecycle == Lifecycle!Spec

\* The budgets end every run: unless it is cancelled, a submitted task returns,
\* whatever the agents keep answering.
Terminates == <>(at \in {"done", "cancelled"})

-----------------------------------------------------------------------------
\* The inductive strengthening: the same facts at every point where the
\* coroutine can be suspended.

Looping == at \in {"new", "cycle", "planning"}
InCycle == at \in {"reviewing", "executing", "verifying", "recovering", "undoing"}
Ended == at \in {"closing", "done", "cancelled"}

\* Task.state at each suspension point.
StateByPoint ==
  /\ at = "new" => state = "CREATED"
  /\ at = "cycle" => state \in {"CREATED", "PLANNING", "VERIFYING"}
  /\ at \in {"planning", "reviewing"} => state = "PLANNING"
  /\ at = "executing" => state = "EXECUTING"
  /\ at = "verifying" => state = "VERIFYING"
  /\ at \in {"recovering", "undoing"} => state = "ROLLING_BACK"

CyclesByPoint ==
  /\ replans <= MaxReplans
  /\ Looping => cycles = replans
  /\ InCycle => cycles = replans + 1
  /\ Ended => cycles \in {replans, replans + 1}

\* How far the inference counter may have got past its limit ...
OverrunByPoint ==
  /\ at = "new" => modelCalls = 0
  /\ at = "cycle" => modelCalls <= MaxModelCalls + 2
  /\ at = "planning" => modelCalls < MaxModelCalls
  /\ at = "reviewing" => modelCalls <= MaxModelCalls
  /\ at \in {"executing", "verifying"} => modelCalls <= MaxModelCalls + 1
  /\ at = "recovering" => modelCalls <= MaxModelCalls + 2
  /\ at = "undoing" \/ Ended => modelCalls <= MaxModelCalls + 3

\* ... and how it follows the cycles.
CallsByPoint ==
  /\ at \in {"new", "cycle", "planning", "recovering"} => modelCalls <= 3 * cycles
  /\ at = "reviewing" => modelCalls <= 3 * cycles - 2
  /\ at \in {"executing", "verifying"} => modelCalls <= 3 * cycles - 1
  /\ at = "undoing" \/ Ended => modelCalls <= 3 * cycles + 1

ReportsByPoint ==
  /\ ~Ended => ~succeeded
  /\ ~Ended => state \notin Lifecycle!Terminal
  /\ at \in {"closing", "done"} => state \in Lifecycle!Terminal

\* executed_steps while it is in use: the present cycle, and nothing of another.
HandedByPoint ==
  /\ \A r \in attempted : r[1] <= cycles
  /\ at = "reviewing" => \A r \in attempted : r[1] < cycles
  /\ at \in {"executing", "verifying", "recovering"} =>
       OfThisCycle(ran) \subseteq executed /\ executed \subseteq OfThisCycle(attempted)
  /\ at = "recovering" => handed = executed

\* The conjunction that every step of the loop preserves.
IInv ==
  /\ StateByPoint
  /\ StepBudget
  /\ CyclesByPoint
  /\ OverrunByPoint
  /\ CallsByPoint
  /\ FailureCap
  /\ ReportsByPoint
  /\ OneTruthfulReport
  /\ HandedByPoint

-----------------------------------------------------------------------------
\* Why Terminates holds: what the budgets leave of a run, in steps of the loop.

\* How many points are still ahead in this cycle, if it executes nothing.
Ahead ==
  CASE at = "new" -> 9
    [] at = "cycle" -> 8
    [] at = "planning" -> 7
    [] at = "reviewing" -> 6
    [] at = "executing" -> 5
    [] at = "verifying" -> 4
    [] at = "recovering" -> 3
    [] at = "undoing" -> 2
    [] at = "closing" -> 1
    [] OTHER -> 0

\* A replan pays for the way back to the top of the loop.
Fuel == 5 * (MaxReplans - replans) + (MaxPlanSteps - stepsExecuted) + Ahead

\* Every step of the loop uses up some of it, and nothing else adds to it; the
\* time limit, the inference budget and the failure cap only end a run earlier.
LoopDescends == [][IF Loop THEN Fuel' < Fuel ELSE Fuel' <= Fuel]_vars

-----------------------------------------------------------------------------
\* What the documentation says, and the code does not do.

\* docs/AGENT_PROTOCOL.md: removing a step is the only power Vishnu has.
ReviewOnlyRemoves ==
  [][at = "reviewing" /\ at' = "executing" => StepsOf(plan') \subseteq StepsOf(plan)]_vars

\* docs/AGENT_PROTOCOL.md: Mahesh's input is the steps that ran; all of them.
MaheshSeesEveryRunStep == at = "recovering" => {r[2] : r \in ran} \subseteq handed
=============================================================================

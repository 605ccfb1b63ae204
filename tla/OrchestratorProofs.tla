------------------------- MODULE OrchestratorProofs -------------------------
(***************************************************************************)
(* Machine-checked proofs about Orchestrator, for every value of the       *)
(* budgets and any set of steps: type correctness, the budgets, the        *)
(* failure cap, the single truthful report, and that the loop implements   *)
(* TaskLifecycle.                                                          *)
(*                                                                         *)
(* Most safety properties are about one counter, but none is inductive by  *)
(* itself: how far a counter may still grow depends on where the coroutine *)
(* is suspended.  IInv says so point by point.                             *)
(***************************************************************************)
EXTENDS Orchestrator, TLAPS

USE BudgetAssumption, SchemaAssumption

-----------------------------------------------------------------------------
\* A list an agent may return is a finite sequence of steps, no longer than
\* its schema admits.
LEMMA StepListType ==
  ASSUME NEW n \in Nat, NEW p \in StepLists(n)
  PROVE  p \in Seq(Steps) /\ Len(p) \in 0..n
<1>1. PICK k \in 0..n : p \in [1..k -> Steps]
  BY DEF StepLists
<1>2. QED
  BY <1>1

\* The cursor is on a step whenever it is not past the end of the plan.
LEMMA CurrentStep ==
  ASSUME TypeOK, pos <= Len(plan)
  PROVE  plan[pos] \in Steps /\ pos + 1 \in Nat \ {0} /\ pos + 1 <= Len(plan) + 1
BY DEF TypeOK

\* The empty plan the loop leaves behind.
LEMMA EmptyPlan == <<>> \in Seq(Steps) /\ Len(<<>>) = 0
OBVIOUS

\* Failing a task leaves it well typed and outside every step loop.
LEMMA FailType ==
  ASSUME TypeOK, Fail
  PROVE  /\ state' \in Lifecycle!TaskState /\ at' \in Points \ {"executing", "undoing"}
         /\ succeeded' \in BOOLEAN
         /\ reported' \in {"nothing", "task_completed", "task_failed"} /\ reports' \in Nat
<1>1. state' \in Lifecycle!TaskState
  BY DEF Fail, TypeOK, Lifecycle!TaskState
<1>2. succeeded' \in BOOLEAN
  BY Zenon DEF Fail
<1>3. at' \in Points \ {"executing", "undoing"} /\ reported' = "task_failed"
  BY DEF Fail, Emit, Points
<1>4. reports' \in Nat
  BY DEF Fail, Emit, TypeOK
<1>5. QED
  BY <1>1, <1>2, <1>3, <1>4

\* So does going round the loop, or failing for want of a replan.
LEMMA NextCycleType ==
  ASSUME TypeOK, NextCycle
  PROVE  /\ state' \in Lifecycle!TaskState /\ at' \in Points \ {"executing", "undoing"}
         /\ succeeded' \in BOOLEAN
         /\ reported' \in {"nothing", "task_completed", "task_failed"} /\ reports' \in Nat
         /\ replans' \in Nat
<1>1. CASE Raise /\ UNCHANGED replans
  BY <1>1, FailType DEF Raise, TypeOK
<1>2. CASE RecordReplan /\ at' = "cycle" /\ UNCHANGED <<state, result>>
  BY <1>2 DEF RecordReplan, result, TypeOK, Points
<1>3. QED
  BY <1>1, <1>2 DEF NextCycle

-----------------------------------------------------------------------------
\* Type correctness: every variable keeps its type and, while steps run, the
\* cursor stays within the plan (Orchestrator._drive and _rollback).
THEOREM TypeCorrect == Spec => []TypeOK
<1>1. Init => TypeOK
  <2>1. Init => timeUp \in BOOLEAN /\ succeeded \in BOOLEAN
    BY Zenon DEF Init
  <2>2. QED
    BY <2>1, EmptyPlan DEF Init, TypeOK, Points, Lifecycle!TaskState
<1>2. TypeOK /\ [Next]_vars => TypeOK'
  <2> SUFFICES ASSUME TypeOK, [Next]_vars
               PROVE  TypeOK'
    OBVIOUS
  <2> USE DEF budget, work, result, history, RecordModelCall, RecordReplan
  <2>1. CASE Submit
    BY <2>1 DEF Submit, TypeOK, Points
  <2>2. CASE BeginCycle
    BY <2>2 DEF BeginCycle, TypeOK, Points, Lifecycle!TaskState
  <2>3. CASE RefuseCycle
    BY <2>3, FailType DEF RefuseCycle, Raise, TypeOK
  <2>4. CASE Propose
    <3>1. plan' \in Seq(Steps)
      BY <2>4, StepListType DEF Propose, ProposedPlans
    <3>2. QED
      BY <2>4, <3>1 DEF Propose, TypeOK, Points
  <2>5. CASE Approve
    <3>1. plan' \in Seq(Steps) /\ pos' <= Len(plan') + 1
      BY <2>5, StepListType DEF Approve, ReviewedPlans
    <3>2. QED
      BY <2>5, <3>1 DEF Approve, TypeOK, Points, Lifecycle!TaskState
  <2>6. CASE Reject
    BY <2>6, NextCycleType, EmptyPlan DEF Reject, TypeOK
  <2>7. CASE ModelFails
    BY <2>7, FailType DEF ModelFails, Raise, TypeOK
  <2>8. ASSUME NEW outcome \in Outcomes, RunStep(outcome)
        PROVE  TypeOK'
    <3>1. plan[pos] \in Steps /\ pos + 1 \in Nat \ {0} /\ pos + 1 <= Len(plan) + 1
      BY <2>8, CurrentStep DEF RunStep
    <3>2. stepsExecuted' \in Nat /\ consecutiveFailures' \in Nat
      BY <2>8 DEF RunStep, ExecuteStep, RecordStep, TypeOK
    <3>3. executed' \subseteq Steps /\ attempted' \subseteq Nat \X Steps /\ ran' \subseteq attempted'
      BY <2>8, <3>1 DEF RunStep, ExecuteStep, TypeOK
    <3>4. CASE outcome = "denied"
      <4>1. /\ state' \in Lifecycle!TaskState
            /\ at' \in Points \ {"executing", "undoing"}
            /\ plan' \in Seq(Steps) /\ pos' \in Nat \ {0}
        BY <2>8, <3>4, EmptyPlan DEF RunStep, Observed, Points, Lifecycle!TaskState
      <4>2. QED
        BY <2>8, <3>2, <3>3, <4>1 DEF RunStep, ExecuteStep, TypeOK
    <3>5. CASE outcome # "denied"
      <4>1. UNCHANGED <<state, at, plan>> /\ pos' = pos + 1
        BY <2>8, <3>5 DEF RunStep
      <4>2. UNCHANGED <<timeUp, replans, modelCalls, cycles, handed, result>>
        BY <2>8 DEF RunStep, ExecuteStep
      <4>3. QED
        BY <3>1, <3>2, <3>3, <4>1, <4>2 DEF TypeOK
    <3>6. QED
      BY <3>4, <3>5
  <2>9. CASE EndSteps
    BY <2>9, EmptyPlan DEF EndSteps, Observed, TypeOK, Points, Lifecycle!TaskState
  <2>10. CASE Complete
    BY <2>10 DEF Complete, Emit, Verified, TypeOK, Points, Lifecycle!TaskState
  <2>11. CASE Abort
    BY <2>11, FailType DEF Abort, Verified, TypeOK
  <2>12. CASE Replan
    BY <2>12, NextCycleType DEF Replan, Verified, TypeOK
  <2>13. CASE Rollback
    BY <2>13 DEF Rollback, Verified, TypeOK, Points, Lifecycle!TaskState
  <2>14. CASE Recover
    <3>1. plan' \in Seq(Steps) /\ pos' <= Len(plan') + 1
      BY <2>14, StepListType DEF Recover, RecoveryPlans
    <3>2. QED
      BY <2>14, <3>1 DEF Recover, TypeOK, Points
  <2>15. ASSUME NEW outcome \in Outcomes, UndoStep(outcome)
         PROVE  TypeOK'
    <3>1. plan[pos] \in Steps /\ pos + 1 \in Nat \ {0} /\ pos + 1 <= Len(plan) + 1
      BY <2>15, CurrentStep DEF UndoStep
    <3>2. QED
      BY <2>15, <3>1 DEF UndoStep, ExecuteStep, RecordStep, TypeOK
  <2>16. CASE EndUndo
    <3>1. succeeded' \in BOOLEAN
      BY <2>16, Zenon DEF EndUndo
    <3>2. state' \in Lifecycle!TaskState /\ at' \in Points \ {"executing", "undoing"}
      BY <2>16 DEF EndUndo, Points, Lifecycle!TaskState
    <3>3. reported' = "task_failed" /\ reports' = reports + 1
      BY <2>16 DEF EndUndo, Emit
    <3>4. QED
      BY <2>16, <3>1, <3>2, <3>3 DEF EndUndo, TypeOK
  <2>17. CASE StepRaises
    <3>1. plan[pos] \in Steps
      BY <2>17, CurrentStep DEF StepRaises
    <3>2. QED
      BY <2>17, <3>1, FailType DEF StepRaises, Raise, TypeOK
  <2>18. CASE Conclude
    BY <2>18 DEF Conclude, TypeOK, Points
  <2>19. CASE DeadlinePasses
    BY <2>19 DEF DeadlinePasses, TypeOK
  <2>20. CASE Cancel
    BY <2>20 DEF Cancel, TypeOK, Points
  <2>21. CASE UNCHANGED vars
    BY <2>21 DEF vars, TypeOK
  <2>22. QED
    BY <2>1, <2>2, <2>3, <2>4, <2>5, <2>6, <2>7, <2>8, <2>9, <2>10, <2>11, <2>12,
       <2>13, <2>14, <2>15, <2>16, <2>17, <2>18, <2>19, <2>20, <2>21 DEF Next, Loop
<1>3. QED
  BY <1>1, <1>2, PTL DEF Spec

-----------------------------------------------------------------------------
\* The strengthened invariant, conjunct by conjunct.  Each lemma is one
\* conjunct across one step, from the type invariant and the conjuncts named.

\* Task.state agrees with the point where the coroutine is suspended.
LEMMA StateStep == TypeOK /\ StateByPoint /\ [Next]_vars => StateByPoint'
<1> SUFFICES ASSUME TypeOK, StateByPoint, [Next]_vars
             PROVE  StateByPoint'
  OBVIOUS
<1> USE DEF StateByPoint, TypeOK, Points
<1>1. CASE Submit \/ BeginCycle \/ RefuseCycle \/ Propose \/ Approve
  BY <1>1 DEF Submit, BeginCycle, RefuseCycle, Raise, Fail, Propose, Approve
<1>2. CASE Reject \/ ModelFails
  BY <1>2 DEF Reject, NextCycle, Raise, Fail, ModelFails
<1>3. CASE EndSteps \/ \E outcome \in Outcomes : RunStep(outcome)
  BY <1>3 DEF EndSteps, RunStep, Observed
<1>4. CASE Complete \/ Abort \/ Replan \/ Rollback
  BY <1>4 DEF Complete, Abort, Replan, Rollback, Verified, NextCycle, Raise, Fail
<1>5. CASE Recover \/ EndUndo \/ \E outcome \in Outcomes : UndoStep(outcome)
  BY <1>5 DEF Recover, EndUndo, UndoStep
<1>6. CASE StepRaises \/ Conclude \/ DeadlinePasses \/ Cancel \/ UNCHANGED vars
  BY <1>6 DEF StepRaises, Raise, Fail, Conclude, DeadlinePasses, Cancel, vars
<1>7. QED
  BY <1>1, <1>2, <1>3, <1>4, <1>5, <1>6 DEF Next, Loop

\* Both step loops check the step budget before they spend it.
LEMMA StepBudgetStep == TypeOK /\ StepBudget /\ [Next]_vars => StepBudget'
<1> SUFFICES ASSUME TypeOK, StepBudget, [Next]_vars
             PROVE  StepBudget'
  OBVIOUS
<1> USE DEF StepBudget, TypeOK, budget
<1>1. CASE \E outcome \in Outcomes : RunStep(outcome) \/ UndoStep(outcome)
  BY <1>1 DEF RunStep, UndoStep, ExecuteStep, RecordStep, AnyLimit, OutOfSteps
<1>2. CASE UNCHANGED stepsExecuted
  BY <1>2
<1>3. QED
  BY <1>1, <1>2 DEF Next, Loop, Submit, BeginCycle, RefuseCycle, Propose,
     Approve, Reject, ModelFails, EndSteps, Complete, Abort, Replan, Rollback,
     Recover, EndUndo, StepRaises, Conclude, DeadlinePasses, Cancel, vars

\* A cycle is planned for each replan, and for the first attempt.
LEMMA CyclesStep == TypeOK /\ CyclesByPoint /\ [Next]_vars => CyclesByPoint'
<1> SUFFICES ASSUME TypeOK, CyclesByPoint, [Next]_vars
             PROVE  CyclesByPoint'
  OBVIOUS
<1> USE DEF CyclesByPoint, Looping, InCycle, Ended, TypeOK, Points, budget, history
<1>1. CASE Submit \/ BeginCycle \/ RefuseCycle \/ Propose \/ Approve
  BY <1>1 DEF Submit, BeginCycle, RefuseCycle, Raise, Fail, Propose, Approve
<1>2. CASE Reject \/ ModelFails
  BY <1>2 DEF Reject, NextCycle, RecordReplan, OutOfReplans, Raise, Fail, ModelFails
<1>3. CASE EndSteps \/ \E outcome \in Outcomes : RunStep(outcome)
  BY <1>3 DEF EndSteps, RunStep, Observed, ExecuteStep
<1>4. CASE Complete \/ Abort \/ Replan \/ Rollback
  BY <1>4 DEF Complete, Abort, Replan, Rollback, Verified, NextCycle,
     RecordReplan, OutOfReplans, Raise, Fail
<1>5. CASE Recover \/ EndUndo \/ \E outcome \in Outcomes : UndoStep(outcome)
  BY <1>5 DEF Recover, EndUndo, UndoStep, ExecuteStep
<1>6. CASE StepRaises \/ Conclude \/ DeadlinePasses \/ Cancel \/ UNCHANGED vars
  BY <1>6 DEF StepRaises, Raise, Fail, Conclude, DeadlinePasses, Cancel, vars
<1>7. QED
  BY <1>1, <1>2, <1>3, <1>4, <1>5, <1>6 DEF Next, Loop

\* The inference counter passes its limit only after the top of a cycle.
LEMMA OverrunStep == TypeOK /\ OverrunByPoint /\ [Next]_vars => OverrunByPoint'
<1> SUFFICES ASSUME TypeOK, OverrunByPoint, [Next]_vars
             PROVE  OverrunByPoint'
  OBVIOUS
<1> USE DEF OverrunByPoint, Ended, TypeOK, Points, budget, RecordModelCall
<1>1. CASE Submit \/ BeginCycle \/ RefuseCycle \/ Propose \/ Approve
  BY <1>1 DEF Submit, BeginCycle, RefuseCycle, OutOfModelCalls, Raise, Fail,
     Propose, Approve
<1>2. CASE Reject \/ ModelFails
  BY <1>2 DEF Reject, NextCycle, Raise, Fail, ModelFails
<1>3. CASE EndSteps \/ \E outcome \in Outcomes : RunStep(outcome)
  BY <1>3 DEF EndSteps, RunStep, Observed, ExecuteStep
<1>4. CASE Complete \/ Abort \/ Replan \/ Rollback
  BY <1>4 DEF Complete, Abort, Replan, Rollback, Verified, NextCycle, Raise, Fail
<1>5. CASE Recover \/ EndUndo \/ \E outcome \in Outcomes : UndoStep(outcome)
  BY <1>5 DEF Recover, EndUndo, UndoStep, ExecuteStep
<1>6. CASE StepRaises \/ Conclude \/ DeadlinePasses \/ Cancel \/ UNCHANGED vars
  BY <1>6 DEF StepRaises, Raise, Fail, Conclude, DeadlinePasses, Cancel, vars
<1>7. QED
  BY <1>1, <1>2, <1>3, <1>4, <1>5, <1>6 DEF Next, Loop

\* No cycle makes more than its three turns, and recovery one more.
LEMMA CallsStep == TypeOK /\ CallsByPoint /\ [Next]_vars => CallsByPoint'
<1> SUFFICES ASSUME TypeOK, CallsByPoint, [Next]_vars
             PROVE  CallsByPoint'
  OBVIOUS
<1> USE DEF CallsByPoint, Ended, TypeOK, Points, budget, history, RecordModelCall
<1>1. CASE Submit \/ BeginCycle \/ RefuseCycle \/ Propose \/ Approve
  <2>1. CASE Submit \/ BeginCycle
    BY <2>1 DEF Submit, BeginCycle
  <2>2. CASE RefuseCycle
    BY <2>2 DEF RefuseCycle, Raise, Fail
  <2>3. CASE Propose \/ Approve
    BY <2>3 DEF Propose, Approve
  <2> QED
    BY <1>1, <2>1, <2>2, <2>3
<1>2. CASE Reject \/ ModelFails
  <2>1. CASE Reject
    BY <2>1 DEF Reject, NextCycle, Raise, Fail
  <2>2. CASE ModelFails
    BY <2>2 DEF ModelFails, Raise, Fail
  <2> QED
    BY <1>2, <2>1, <2>2
<1>3. CASE EndSteps \/ \E outcome \in Outcomes : RunStep(outcome)
  <2>1. CASE EndSteps
    BY <2>1 DEF EndSteps, Observed
  <2>2. CASE \E outcome \in Outcomes : RunStep(outcome)
    BY <2>2 DEF RunStep, Observed, ExecuteStep
  <2> QED
    BY <1>3, <2>1, <2>2
<1>4. CASE Complete \/ Abort \/ Replan \/ Rollback
  <2>1. CASE Complete \/ Abort
    BY <2>1 DEF Complete, Abort, Verified, Raise, Fail
  <2>2. CASE Replan \/ Rollback
    BY <2>2 DEF Replan, Rollback, Verified, NextCycle, Raise, Fail
  <2> QED
    BY <1>4, <2>1, <2>2
<1>5. CASE Recover \/ EndUndo \/ \E outcome \in Outcomes : UndoStep(outcome)
  <2>1. CASE Recover
    BY <2>1 DEF Recover
  <2>2. CASE EndUndo
    BY <2>2 DEF EndUndo
  <2>3. CASE \E outcome \in Outcomes : UndoStep(outcome)
    BY <2>3 DEF UndoStep, ExecuteStep
  <2> QED
    BY <1>5, <2>1, <2>2, <2>3
<1>6. CASE StepRaises \/ Conclude \/ DeadlinePasses \/ Cancel \/ UNCHANGED vars
  <2>1. CASE StepRaises
    BY <2>1 DEF StepRaises, Raise, Fail
  <2>2. CASE Conclude \/ DeadlinePasses \/ Cancel
    BY <2>2 DEF Conclude, DeadlinePasses, Cancel
  <2>3. CASE UNCHANGED vars
    BY <2>3 DEF vars
  <2> QED
    BY <1>6, <2>1, <2>2, <2>3
<1>7. QED
  BY <1>1, <1>2, <1>3, <1>4, <1>5, <1>6 DEF Next, Loop

\* A planned step starts only below the cap on consecutive failures.
LEMMA FailureStep ==
  TypeOK /\ StateByPoint /\ FailureCap /\ [Next]_vars => FailureCap'
<1> SUFFICES ASSUME TypeOK, StateByPoint, FailureCap, [Next]_vars
             PROVE  FailureCap'
  OBVIOUS
<1> USE DEF FailureCap, StateByPoint, TypeOK, Points, budget
<1>1. CASE \E outcome \in Outcomes : RunStep(outcome)
  BY <1>1 DEF RunStep, ExecuteStep, RecordStep, AnyLimit, OutOfFailures
<1>2. CASE \E outcome \in Outcomes : UndoStep(outcome)
  BY <1>2 DEF UndoStep
<1>3. CASE /\ UNCHANGED consecutiveFailures
           /\ state \in {"ROLLING_BACK", "FAILED"} => state' \in {"ROLLING_BACK", "FAILED"}
  BY <1>3
<1>4. CASE Submit \/ BeginCycle \/ RefuseCycle \/ Propose \/ Approve
  BY <1>4, <1>3 DEF Submit, BeginCycle, RefuseCycle, Raise, Fail, Propose, Approve
<1>5. CASE Reject \/ ModelFails
  BY <1>5, <1>3 DEF Reject, NextCycle, Raise, Fail, ModelFails
<1>6. CASE EndSteps \/ Complete \/ Abort \/ Replan \/ Rollback
  BY <1>6, <1>3 DEF EndSteps, Observed, Complete, Abort, Replan, Rollback,
     Verified, NextCycle, Raise, Fail
<1>7. CASE Recover \/ EndUndo
  BY <1>7, <1>3 DEF Recover, EndUndo
<1>8. CASE StepRaises \/ Conclude \/ DeadlinePasses \/ Cancel \/ UNCHANGED vars
  BY <1>8, <1>3 DEF StepRaises, Raise, Fail, Conclude, DeadlinePasses, Cancel, vars
<1>9. QED
  BY <1>1, <1>2, <1>4, <1>5, <1>6, <1>7, <1>8 DEF Next, Loop

\* A task that fails was not yet terminal, so it fails into FAILED and is reported
\* for the first time.
LEMMA FailIsFailed ==
  ASSUME StateByPoint, TypeOK, ~Ended, Fail
  PROVE  /\ state \notin Lifecycle!Terminal
         /\ state' = "FAILED" /\ at' = "closing" /\ ~succeeded'
         /\ reported' = "task_failed" /\ reports' = reports + 1
BY DEF StateByPoint, TypeOK, Points, Ended, Fail, Emit, Lifecycle!Terminal

\* The steps that end a task, and the others.
Ending == state' \in {"COMPLETED", "FAILED"} /\ ~Ended /\ at' = "closing"
          /\ (succeeded' <=> state' = "COMPLETED")
          /\ reported' = Lifecycle!TerminalEvent(state') /\ reports' = reports + 1

LEMMA FailEnds == ASSUME StateByPoint, TypeOK, ~Ended, Fail PROVE Ending
BY FailIsFailed DEF Ending, Lifecycle!TerminalEvent

\* Whatever ends a task reports it, and whatever reports it ends it.
LEMMA EndingOrNot ==
  ASSUME TypeOK, StateByPoint, [Next]_vars
  PROVE  \/ Ending
         \/ /\ UNCHANGED result
            /\ \/ state' \notin Lifecycle!Terminal /\ ~Ended /\ ~Ended'
               \/ UNCHANGED state /\ (Ended' <=> Ended) /\ (at' = "done" => at \in {"closing", "done"})
                    /\ (at' = "closing" => at = "closing")
               \/ UNCHANGED state /\ at' = "cancelled"
<1> USE DEF result, Ended
<1>1. CASE Submit \/ BeginCycle \/ Propose \/ Approve \/ Recover \/ Rollback
  <2>1. UNCHANGED result /\ ~Ended /\ ~Ended'
    BY <1>1 DEF Submit, BeginCycle, Propose, Approve, Recover, Rollback, Verified
  <2>2. state' \notin Lifecycle!Terminal
    BY <1>1 DEF Submit, BeginCycle, Propose, Approve, Recover, Rollback, Verified,
       StateByPoint, Lifecycle!Terminal
  <2>3. QED
    BY <2>1, <2>2
<1>2. CASE Fail /\ ~Ended
  BY <1>2, FailEnds
<1>3. CASE RefuseCycle \/ ModelFails \/ Abort \/ StepRaises
  BY <1>3, <1>2 DEF RefuseCycle, ModelFails, Abort, StepRaises, Raise, Verified
<1>4. CASE Reject \/ Replan
  <2>1. ~Ended /\ NextCycle
    BY <1>4 DEF Reject, Replan, Verified
  <2>2. CASE at' = "cycle" /\ UNCHANGED <<state, result>>
    <3>1. state \notin Lifecycle!Terminal
      BY <1>4 DEF Reject, Replan, Verified, StateByPoint, Lifecycle!Terminal
    <3>2. QED
      BY <2>1, <2>2, <3>1
  <2>3. QED
    BY <1>2, <2>1, <2>2 DEF NextCycle, Raise
<1>5. CASE EndSteps \/ \E outcome \in Outcomes : RunStep(outcome) \/ UndoStep(outcome)
  <2>1. UNCHANGED result /\ ~Ended /\ ~Ended'
    BY <1>5 DEF EndSteps, RunStep, Observed, UndoStep
  <2>2. state' \notin Lifecycle!Terminal
    BY <1>5 DEF EndSteps, RunStep, Observed, UndoStep, StateByPoint, Lifecycle!Terminal
  <2>3. QED
    BY <2>1, <2>2
<1>6. CASE Complete \/ EndUndo
  BY <1>6 DEF Complete, Verified, EndUndo, Emit, Ending, Lifecycle!TerminalEvent
<1>7. CASE Conclude \/ DeadlinePasses \/ UNCHANGED vars
  BY <1>7 DEF Conclude, DeadlinePasses, vars
<1>8. CASE Cancel
  BY <1>8 DEF Cancel
<1>9. QED
  BY <1>1, <1>3, <1>4, <1>5, <1>6, <1>7, <1>8 DEF Next, Loop

\* A task ends once, with its report.
LEMMA ReportsStep ==
  ASSUME TypeOK, StateByPoint, ReportsByPoint, OneTruthfulReport, [Next]_vars
  PROVE  ReportsByPoint' /\ OneTruthfulReport'
<1>1. CASE Ending
  <2>1. reports = 0
    BY <1>1 DEF Ending, ReportsByPoint, OneTruthfulReport
  <2>2. state' \in Lifecycle!Terminal /\ reports' = 1
    BY <1>1, <2>1 DEF Ending, Lifecycle!Terminal
  <2>3. QED
    BY <1>1, <2>2 DEF Ending, ReportsByPoint, OneTruthfulReport, Ended
<1>2. CASE UNCHANGED result /\ state' \notin Lifecycle!Terminal /\ ~Ended /\ ~Ended'
  BY <1>2 DEF result, ReportsByPoint, OneTruthfulReport, Ended
<1>3. CASE UNCHANGED <<state, result>> /\ (Ended' <=> Ended)
           /\ (at' = "done" => at \in {"closing", "done"}) /\ (at' = "closing" => at = "closing")
  BY <1>3 DEF result, ReportsByPoint, OneTruthfulReport, Lifecycle!TerminalEvent
<1>4. CASE UNCHANGED <<state, result>> /\ at' = "cancelled"
  BY <1>4 DEF result, ReportsByPoint, OneTruthfulReport, Ended, Lifecycle!TerminalEvent
<1>5. QED
  BY <1>1, <1>2, <1>3, <1>4, EndingOrNot

\* executed_steps is made anew in each cycle, and has every step the executor took
\* since: only what raises is not appended, and that ends the task.
LEMMA HandedStep ==
  ASSUME TypeOK, HandedByPoint, [Next]_vars PROVE HandedByPoint'
<1> USE DEF work, history
<1>1. CASE Approve
  <2>1. cycles \in Nat /\ ran \subseteq attempted /\ at = "reviewing" /\ at' = "executing"
        /\ executed' = {} /\ UNCHANGED <<cycles, attempted, ran>>
    BY <1>1 DEF Approve, TypeOK
  <2>2. \A r \in attempted : r[1] < cycles
    BY <2>1 DEF HandedByPoint
  <2>3. OfThisCycle(ran') = {} /\ OfThisCycle(ran)' = {}
    BY <2>1, <2>2 DEF OfThisCycle
  <2>4. QED
    BY <2>1, <2>2, <2>3 DEF HandedByPoint
<1>2. ASSUME NEW outcome \in Outcomes, RunStep(outcome)
      PROVE  HandedByPoint'
  <2> DEFINE s == plan[pos]
  <2>1. s \in Steps /\ at = "executing" /\ cycles \in Nat
    BY <1>2, CurrentStep DEF RunStep, TypeOK
  <2>2. /\ attempted' = attempted \cup {<<cycles, s>>}
        /\ ran' = ran \/ ran' = ran \cup {<<cycles, s>>}
        /\ executed' = executed \cup {s} /\ UNCHANGED <<cycles, handed>>
        /\ at' \in {"executing", "verifying"}
    BY <1>2, <2>1 DEF RunStep, ExecuteStep, Observed
  <2>3. /\ OfThisCycle(attempted)' = OfThisCycle(attempted) \cup {s}
        /\ OfThisCycle(ran)' \subseteq OfThisCycle(ran) \cup {s}
    BY <2>1, <2>2 DEF OfThisCycle
  <2>4. \A r \in attempted' : r[1] <= cycles'
    BY <2>1, <2>2 DEF HandedByPoint
  <2>5. QED
    BY <2>1, <2>2, <2>3, <2>4 DEF HandedByPoint
<1>3. CASE StepRaises \/ \E outcome \in Outcomes : UndoStep(outcome)
  <2> DEFINE s == plan[pos]
  <2>1. cycles \in Nat
    BY DEF TypeOK
  <2>2. /\ attempted' = attempted \cup {<<cycles, s>>} /\ UNCHANGED cycles
        /\ at' \in {"closing", "undoing"}
    BY <1>3 DEF StepRaises, Raise, Fail, UndoStep, ExecuteStep
  <2>3. \A r \in attempted' : r[1] <= cycles'
    BY <2>1, <2>2 DEF HandedByPoint
  <2>4. QED
    BY <2>2, <2>3 DEF HandedByPoint
<1>4. CASE Propose
  <2>1. cycles \in Nat /\ \A r \in attempted : r[1] \in Nat
    BY DEF TypeOK
  <2>2. QED
    BY <1>4, <2>1 DEF Propose, HandedByPoint
<1>5. CASE Rollback
  BY <1>5 DEF Rollback, Verified, HandedByPoint, OfThisCycle
<1>6. CASE EndSteps
  BY <1>6 DEF EndSteps, Observed, HandedByPoint, OfThisCycle
<1>7. CASE /\ UNCHANGED <<cycles, attempted>>
           /\ at' \notin {"reviewing", "executing", "verifying", "recovering"}
  BY <1>7 DEF HandedByPoint
<1>8. CASE DeadlinePasses \/ UNCHANGED vars
  BY <1>8 DEF DeadlinePasses, vars, HandedByPoint, OfThisCycle
<1>9. CASE Submit \/ BeginCycle \/ RefuseCycle \/ Reject \/ ModelFails
  BY <1>7, <1>9 DEF Submit, BeginCycle, RefuseCycle, Reject, ModelFails, NextCycle, Raise, Fail
<1>10. CASE Complete \/ Abort \/ Replan \/ Recover \/ EndUndo \/ Conclude \/ Cancel
  BY <1>7, <1>10 DEF Complete, Abort, Replan, Recover, EndUndo, Conclude, Cancel, Verified,
     NextCycle, Raise, Fail
<1>11. QED
  BY <1>1, <1>2, <1>3, <1>4, <1>5, <1>6, <1>8, <1>9, <1>10 DEF Next, Loop

-----------------------------------------------------------------------------
\* The strengthened invariant holds in every reachable state of
\* Orchestrator.run: what the other theorems are read off.
THEOREM Invariance == Spec => []IInv
<1>1. Init => IInv
  <2>1. Init => StateByPoint /\ ReportsByPoint /\ OneTruthfulReport
    BY DEF Init, StateByPoint, ReportsByPoint, OneTruthfulReport, Ended, Lifecycle!Terminal
  <2>2. Init => StepBudget /\ CyclesByPoint /\ OverrunByPoint /\ CallsByPoint
    BY DEF Init, StepBudget, CyclesByPoint, OverrunByPoint, CallsByPoint,
       Looping, InCycle, Ended
  <2>3. Init => FailureCap /\ HandedByPoint
    BY DEF Init, FailureCap, HandedByPoint
  <2>4. QED
    BY <2>1, <2>2, <2>3 DEF IInv
<1>2. TypeOK /\ IInv /\ [Next]_vars => IInv'
  BY StateStep, StepBudgetStep, CyclesStep, OverrunStep, CallsStep, FailureStep,
     ReportsStep, HandedStep DEF IInv
<1>3. QED
  BY <1>1, <1>2, TypeCorrect, PTL DEF Spec

\* The budgets of TaskBudget: what a task can spend, for any settings.
THEOREM Budgets == Spec => [](StepBudget /\ CyclesPaidFor)
<1>1. TypeOK /\ IInv => StepBudget /\ CyclesPaidFor
  BY DEF TypeOK, IInv, CyclesByPoint, CyclesPaidFor, Looping, InCycle, Ended, Points
<1>2. QED
  BY <1>1, TypeCorrect, Invariance, PTL

\* The inference limit, which is looked at once a cycle and before each step, is
\* passed by three turns at most: review, verification and recovery.
THEOREM Overrun == Spec => []ModelCallOverrun
<1>1. TypeOK /\ IInv => ModelCallOverrun
  BY DEF TypeOK, IInv, OverrunByPoint, ModelCallOverrun, Looping, InCycle, Ended, Points
<1>2. QED
  BY <1>1, TypeCorrect, Invariance, PTL

\* The replan budget bounds the inference of a task whatever max_model_calls is.
THEOREM InferencePerCycle == Spec => []ModelCallsPerCycle
<1>1. TypeOK /\ IInv => ModelCallsPerCycle
  BY DEF TypeOK, IInv, CyclesByPoint, CallsByPoint, ModelCallsPerCycle,
     Looping, InCycle, Ended, Points
<1>2. QED
  BY <1>1, TypeCorrect, Invariance, PTL

\* Once the tools failed too often in a row no planned step runs again.
THEOREM FailuresCapped == Spec => []FailureCap
BY Invariance, PTL DEF IInv

\* A task is in a final state exactly when its one terminal event, of that state, is
\* in the history, also when it is cancelled in a handler of that event; a run that
\* returns has it (Orchestrator._complete, _fail and _rollback, publish in
\* core/events.py).
THEOREM TruthfulReport == Spec => []OneTruthfulReport
BY Invariance, PTL DEF IInv

\* Mahesh is handed the cycle that is rolled back: all of it that ran, and nothing
\* that it did not give to the executor.
THEOREM RecoveryInput == Spec => []HandedIsTheCycle
<1>1. IInv => HandedIsTheCycle
  BY DEF IInv, HandedByPoint, HandedIsTheCycle
<1>2. QED
  BY <1>1, Invariance, PTL

-----------------------------------------------------------------------------
\* A step of the loop that moves the task follows TASK_TRANSITIONS, and reports it
\* exactly if it ends it.
LEMMA LifecycleStep ==
  TypeOK /\ IInv /\ [Next]_vars => [Lifecycle!Next]_(Lifecycle!vars)
<1> SUFFICES ASSUME TypeOK, IInv, [Next]_vars
             PROVE  [Lifecycle!Next]_(Lifecycle!vars)
  OBVIOUS
<1> USE DEF result
<1>1. StateByPoint
  BY DEF IInv
<1>2. CASE /\ state' \in Lifecycle!TaskTransitions[state] \ Lifecycle!Terminal
           /\ UNCHANGED reported
  <2>1. state' \in Lifecycle!TaskState
    BY <1>2 DEF TypeOK, Lifecycle!TaskState, Lifecycle!TaskTransitions
  <2>2. Lifecycle!Move(state')
    BY <1>2 DEF Lifecycle!Move, Lifecycle!TransitionTo, Lifecycle!CanTransition
  <2>3. QED
    BY <2>1, <2>2 DEF Lifecycle!Next
<1>3. CASE UNCHANGED <<state, reported>>
  BY <1>3 DEF Lifecycle!vars
<1>4. CASE Ending /\ state' \in Lifecycle!TaskTransitions[state]
  <2>1. Lifecycle!Finish(state')
    BY <1>4 DEF Ending, Lifecycle!Finish, Lifecycle!TransitionTo, Lifecycle!CanTransition,
       Lifecycle!Terminal
  <2>2. QED
    BY <1>4, <2>1 DEF Ending, Lifecycle!Next, Lifecycle!TaskState
<1>5. CASE Fail /\ ~Ended
  <2>1. state' = "FAILED"
    BY <1>5, <1>1, FailIsFailed
  <2>2. state \in {"CREATED", "PLANNING", "EXECUTING", "VERIFYING", "ROLLING_BACK"}
    BY <1>5, <1>1 DEF StateByPoint, TypeOK, Points, Ended
  <2>3. "FAILED" \in Lifecycle!TaskTransitions[state]
    BY <2>2 DEF Lifecycle!TaskTransitions, Lifecycle!TaskState
  <2>4. QED
    BY <1>1, <1>4, <1>5, <2>1, <2>3, FailEnds
<1>6. CASE BeginCycle
  <2>1. state \in {"CREATED", "PLANNING", "VERIFYING"}
    BY <1>6, <1>1 DEF BeginCycle, StateByPoint
  <2>2. state = "PLANNING" \/ "PLANNING" \in Lifecycle!TaskTransitions[state] \ Lifecycle!Terminal
    BY <2>1 DEF Lifecycle!TaskTransitions, Lifecycle!TaskState, Lifecycle!Terminal
  <2>3. QED
    BY <1>2, <1>3, <1>6, <2>1, <2>2 DEF BeginCycle
<1>7. CASE Approve
  <2>1. state = "PLANNING"
    BY <1>7, <1>1 DEF Approve, StateByPoint
  <2>2. "EXECUTING" \in Lifecycle!TaskTransitions["PLANNING"] \ Lifecycle!Terminal
    BY DEF Lifecycle!TaskTransitions, Lifecycle!TaskState, Lifecycle!Terminal
  <2>3. QED
    BY <1>2, <1>7, <2>1, <2>2 DEF Approve
<1>8. CASE EndSteps \/ \E outcome \in Outcomes : RunStep(outcome)
  <2>1. state = "EXECUTING"
    BY <1>8, <1>1 DEF EndSteps, RunStep, StateByPoint
  <2>2. "VERIFYING" \in Lifecycle!TaskTransitions["EXECUTING"] \ Lifecycle!Terminal
    BY DEF Lifecycle!TaskTransitions, Lifecycle!TaskState, Lifecycle!Terminal
  <2>3. UNCHANGED reported /\ (state' = "VERIFYING" \/ UNCHANGED state)
    BY <1>8 DEF EndSteps, RunStep, Observed
  <2>4. QED
    BY <1>2, <1>3, <2>1, <2>2, <2>3
<1>9. CASE Rollback
  <2>1. state = "VERIFYING"
    BY <1>9, <1>1 DEF Rollback, Verified, StateByPoint
  <2>2. "ROLLING_BACK" \in Lifecycle!TaskTransitions["VERIFYING"] \ Lifecycle!Terminal
    BY DEF Lifecycle!TaskTransitions, Lifecycle!TaskState, Lifecycle!Terminal
  <2>3. QED
    BY <1>2, <1>9, <2>1, <2>2 DEF Rollback
<1>10. CASE Complete \/ EndUndo
  <2>1. Ending
    BY <1>10 DEF Complete, Verified, EndUndo, Emit, Ending, Ended, Lifecycle!TerminalEvent
  <2>2. state' \in Lifecycle!TaskTransitions[state]
    <3>1. \/ state = "VERIFYING" /\ state' = "COMPLETED"
          \/ state = "ROLLING_BACK" /\ state' = "FAILED"
      BY <1>10, <1>1 DEF Complete, EndUndo, Verified, StateByPoint
    <3>2. QED
      BY <3>1 DEF Lifecycle!TaskTransitions, Lifecycle!TaskState
  <2>3. QED
    BY <1>4, <2>1, <2>2
<1>11. CASE RefuseCycle \/ Reject \/ ModelFails \/ Abort \/ Replan \/ StepRaises
  BY <1>3, <1>5, <1>11 DEF RefuseCycle, Reject, NextCycle, ModelFails, Abort,
     Replan, Verified, StepRaises, Raise, Ended
<1>12. CASE Submit \/ Propose \/ Recover \/ Conclude \/ DeadlinePasses \/ Cancel \/ UNCHANGED vars
  BY <1>3, <1>12 DEF Submit, Propose, Recover, Conclude, DeadlinePasses, Cancel, vars
<1>13. CASE \E outcome \in Outcomes : UndoStep(outcome)
  BY <1>3, <1>13 DEF UndoStep
<1>14. QED
  BY <1>6, <1>7, <1>8, <1>9, <1>10, <1>11, <1>12, <1>13 DEF Next, Loop

\* Orchestrator implements TaskLifecycle: for any budgets, the loop moves a task
\* only along TASK_TRANSITIONS (so transition_to never raises) and reports it in the
\* step that ends it, by the event of its final state.
THEOREM LifecycleImplemented == Spec => ImplementsLifecycle
<1>1. Init => Lifecycle!Init
  BY DEF Init, Lifecycle!Init
<1>2. QED
  BY <1>1, LifecycleStep, TypeCorrect, Invariance, PTL
  DEF Spec, ImplementsLifecycle, Lifecycle!Spec

-----------------------------------------------------------------------------
\* Arithmetic of Fuel.
LEMMA LessAhead ==
  ASSUME NEW r \in Int, NEW s \in Int, NEW a \in Int, NEW b \in Int
  PROVE  /\ b < a => 5 * (MaxReplans - r) + (MaxPlanSteps - s) + b
                       < 5 * (MaxReplans - r) + (MaxPlanSteps - s) + a
         /\ b <= a => 5 * (MaxReplans - r) + (MaxPlanSteps - (s + 1)) + b
                       < 5 * (MaxReplans - r) + (MaxPlanSteps - s) + a
         /\ b < a + 5 => 5 * (MaxReplans - (r + 1)) + (MaxPlanSteps - s) + b
                           < 5 * (MaxReplans - r) + (MaxPlanSteps - s) + a
OBVIOUS

\* What is left of a run is a number.
LEMMA FuelType == TypeOK /\ IInv => Ahead \in 0..9 /\ Fuel \in Nat
<1> SUFFICES ASSUME TypeOK, IInv
             PROVE  Ahead \in 0..9 /\ Fuel \in Nat
  OBVIOUS
<1>1. Ahead \in 0..9
  BY DEF TypeOK, Points, Ahead
<1>2. MaxReplans - replans \in Nat /\ MaxPlanSteps - stepsExecuted \in Nat
  BY DEF TypeOK, IInv, CyclesByPoint, StepBudget
<1>3. QED
  BY <1>1, <1>2 DEF Fuel

\* A move that spends neither budget comes nearer to the end, or stays.
LEMMA AheadOnly ==
  ASSUME TypeOK, IInv, UNCHANGED <<replans, stepsExecuted>>, Ahead' \in 0..9
  PROVE  /\ Ahead' < Ahead => Fuel' < Fuel
         /\ Ahead' = Ahead => Fuel' = Fuel
         /\ Ahead' <= Ahead => Fuel' <= Fuel
<1>1. Ahead \in Int /\ Ahead' \in Int
  BY FuelType
<1>2. replans \in Int /\ stepsExecuted \in Int
  BY DEF TypeOK
<1>3. replans' = replans /\ stepsExecuted' = stepsExecuted
  OBVIOUS
<1>4. Ahead' < Ahead => Fuel' < Fuel
  BY <1>1, <1>2, <1>3, LessAhead DEF Fuel
<1>5. Ahead' = Ahead => Fuel' = Fuel
  BY <1>3 DEF Fuel
<1>6. Fuel \in Int /\ Fuel' \in Int
  BY <1>1, <1>2, <1>3, FuelType DEF Fuel
<1>7. QED
  BY <1>1, <1>4, <1>5, <1>6

\* Going round again costs a replan, which is worth more than the way back.
LEMMA NextCycleDescends ==
  ASSUME TypeOK, IInv, NextCycle, UNCHANGED stepsExecuted,
         at \in {"reviewing", "verifying"}
  PROVE  Fuel' < Fuel
<1>1. Ahead \in {4, 6}
  BY DEF Ahead
<1>2. replans \in Int /\ stepsExecuted \in Int
  BY DEF TypeOK
<1>3. CASE RecordReplan /\ at' = "cycle"
  <2>1. replans' = replans + 1 /\ Ahead' = 8
    BY <1>3 DEF RecordReplan, Ahead
  <2>2. QED
    BY <1>1, <1>2, <2>1, LessAhead DEF Fuel
<1>4. CASE Raise /\ UNCHANGED replans
  <2>1. Ahead' = 1
    BY <1>4 DEF Raise, Fail, Ahead
  <2>2. QED
    BY <1>1, <1>2, <1>4, <2>1, LessAhead DEF Fuel
<1>5. QED
  BY <1>3, <1>4 DEF NextCycle

\* An executed step costs one of max_plan_steps, whatever comes of it.
LEMMA ExecutedDescends ==
  ASSUME TypeOK, IInv, UNCHANGED replans, stepsExecuted' = stepsExecuted + 1,
         Ahead' \in 0..9, Ahead' <= Ahead
  PROVE  Fuel' < Fuel
<1>1. Ahead \in Int /\ Ahead' \in Int
  BY FuelType
<1>2. replans \in Int /\ stepsExecuted \in Int
  BY DEF TypeOK
<1>3. QED
  BY <1>1, <1>2, LessAhead DEF Fuel

LEMMA FuelStep ==
  ASSUME TypeOK, IInv, [Next]_vars
  PROVE  [IF Loop THEN Fuel' < Fuel ELSE Fuel' <= Fuel]_vars
<1> USE DEF budget
<1>1. ASSUME Submit \/ BeginCycle \/ RefuseCycle \/ Propose \/ Approve \/ ModelFails
      PROVE  Fuel' < Fuel
  <2>1. UNCHANGED <<replans, stepsExecuted>>
    BY <1>1 DEF Submit, BeginCycle, RefuseCycle, Propose, Approve, ModelFails
  <2>2. Ahead' \in 0..9 /\ Ahead' < Ahead
    BY <1>1 DEF Submit, BeginCycle, RefuseCycle, Propose, Approve, ModelFails, Raise,
       Fail, Ahead
  <2>3. QED
    BY <2>1, <2>2, AheadOnly
<1>2. ASSUME EndSteps \/ Complete \/ Abort \/ Rollback \/ Recover \/ EndUndo
      PROVE  Fuel' < Fuel
  <2>1. UNCHANGED <<replans, stepsExecuted>>
    BY <1>2 DEF EndSteps, Complete, Abort, Rollback, Recover, EndUndo
  <2>2. Ahead' \in 0..9 /\ Ahead' < Ahead
    BY <1>2 DEF EndSteps, Observed, Complete, Abort, Rollback, Recover, EndUndo,
       Verified, Fail, Ahead
  <2>3. QED
    BY <2>1, <2>2, AheadOnly
<1>3. ASSUME StepRaises \/ Conclude
      PROVE  Fuel' < Fuel
  <2>1. UNCHANGED <<replans, stepsExecuted>>
    BY <1>3 DEF StepRaises, Conclude
  <2>2. Ahead' \in 0..9 /\ Ahead' < Ahead
    BY <1>3 DEF StepRaises, Conclude, Raise, Fail, Ahead
  <2>3. QED
    BY <2>1, <2>2, AheadOnly
<1>4. ASSUME Reject \/ Replan
      PROVE  Fuel' < Fuel
  BY <1>4, NextCycleDescends DEF Reject, Replan, Verified
<1>5. ASSUME NEW outcome \in Outcomes, RunStep(outcome) \/ UndoStep(outcome)
      PROVE  Fuel' < Fuel
  <2>1. UNCHANGED replans /\ stepsExecuted' = stepsExecuted + 1
    BY <1>5 DEF RunStep, UndoStep, ExecuteStep, RecordStep
  <2>2. Ahead' \in 0..9 /\ Ahead' <= Ahead
    BY <1>5 DEF RunStep, UndoStep, Observed, Ahead
  <2>3. QED
    BY <2>1, <2>2, ExecutedDescends
<1>6. ASSUME DeadlinePasses \/ Cancel
      PROVE  Fuel' <= Fuel
  <2>1. UNCHANGED <<replans, stepsExecuted>>
    BY <1>6 DEF DeadlinePasses, Cancel
  <2>2. Ahead' \in 0..9 /\ Ahead' <= Ahead
    BY <1>6 DEF DeadlinePasses, Cancel, Ahead
  <2>3. QED
    BY <2>1, <2>2, AheadOnly
<1>7. Loop => Fuel' < Fuel
  BY <1>1, <1>2, <1>3, <1>4, <1>5 DEF Loop
<1>8. QED
  BY <1>6, <1>7 DEF Next

\* The loop descends: for any budgets, each of its steps uses up one of at most
\* 5 * max_replans + max_plan_steps + 9, whatever the agents and the tools answer
\* (Orchestrator._drive, _rollback and TaskBudget).  With the fairness of Spec
\* this is what ends every run.
THEOREM RunIsBounded ==
  Spec => LoopDescends /\ [](Fuel \in 0..(5 * MaxReplans + MaxPlanSteps + 9))
<1>1. TypeOK /\ IInv => Fuel \in 0..(5 * MaxReplans + MaxPlanSteps + 9)
  <2> SUFFICES ASSUME TypeOK, IInv
               PROVE  Fuel \in 0..(5 * MaxReplans + MaxPlanSteps + 9)
    OBVIOUS
  <2>1. Ahead \in 0..9 /\ Fuel \in Nat
    BY FuelType
  <2>2. replans \in Nat /\ stepsExecuted \in Nat
    BY DEF TypeOK
  <2>3. QED
    BY <2>1, <2>2 DEF Fuel
<1>2. QED
  BY <1>1, FuelStep, TypeCorrect, Invariance, PTL DEF Spec, LoopDescends
=============================================================================

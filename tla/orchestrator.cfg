SPECIFICATION Spec
CONSTANTS
  s1 = s1
  s2 = s2
  Steps = {s1, s2}
  MaxPlanSteps = 4
  MaxReplans = 2
  MaxConsecutiveFailures = 2
  MaxModelCalls = 6
  PlanLimit = 3
  RecoveryLimit = 2
INVARIANTS
  StepBudget
  ModelCallOverrun
  FailureCap
  OneTruthfulReport
  HandedIsTheCycle
PROPERTIES
  ImplementsLifecycle
  Terminates
CHECK_DEADLOCK FALSE

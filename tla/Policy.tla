------------------------------- MODULE Policy -------------------------------
(***************************************************************************)
(* PolicyEngine.evaluate (security/policy.py) and the risk order it uses   *)
(* (core/enums.py): a pure function from one call's effective risk and its *)
(* context to a rule, a decision, and whether the typed phrase is needed.  *)
(*                                                                         *)
(* A request r is what the engine and the executor look at:                *)
(*   known      the registry has the tool      enabled    not disabled     *)
(*   valid      the arguments fit its schema   outside    a path leaves    *)
(*   static     the tool's declared risk                  the workspace    *)
(*   dynamic    the risk of these arguments    dryRun     the task's flag  *)
(*   ceiling    the task's max_risk            approvals  allow_approvals  *)
(***************************************************************************)
EXTENDS Integers

RiskLevels == {"read", "write", "privileged", "destructive"}

Rank(risk) == CASE risk = "read" -> 0
                [] risk = "write" -> 1
                [] risk = "privileged" -> 2
                [] risk = "destructive" -> 3

AtLeast(risk, other) == Rank(risk) >= Rank(other)

Worse(risk, other) == IF AtLeast(risk, other) THEN risk ELSE other

RequestType ==
  [known: BOOLEAN, valid: BOOLEAN, enabled: BOOLEAN, static: RiskLevels,
   dynamic: RiskLevels, outside: BOOLEAN, ceiling: RiskLevels,
   dryRun: BOOLEAN, approvals: BOOLEAN]

-----------------------------------------------------------------------------
\* Mutant: the ceiling is consulted only for calls that would need approval.
RuleReadsFirst(risk, r) ==
  IF ~r.known THEN "unknown-tool"
  ELSE IF ~r.enabled THEN "tool-disabled"
  ELSE IF risk = "read" THEN "read-allowed"
  ELSE IF risk = "write" /\ ~r.outside THEN "write-in-workspace"
  ELSE IF AtLeast(risk, "write") /\ r.dryRun THEN "dry-run"
  ELSE IF Rank(risk) > Rank(r.ceiling) THEN "risk-ceiling"
  ELSE IF ~r.approvals /\ AtLeast(risk, "privileged") THEN "approvals-disabled"
  ELSE IF risk = "write" THEN "write-outside-workspace"
  ELSE IF risk = "privileged" THEN "privileged-requires-approval"
  ELSE IF risk = "destructive" THEN "destructive-requires-confirmation"
  ELSE "default-deny"

\* The ordered rules: the first that matches names the verdict.
Rule(risk, r) ==
  IF ~r.known THEN "unknown-tool"
  ELSE IF ~r.enabled THEN "tool-disabled"
  ELSE IF AtLeast(risk, "write") /\ r.dryRun THEN "dry-run"
  ELSE IF Rank(risk) > Rank(r.ceiling) THEN "risk-ceiling"
  ELSE IF risk = "read" THEN "read-allowed"
  ELSE IF ~r.approvals /\ AtLeast(risk, "privileged") THEN "approvals-disabled"
  ELSE IF risk = "write"
       THEN IF r.outside THEN "write-outside-workspace" ELSE "write-in-workspace"
  ELSE IF risk = "privileged" THEN "privileged-requires-approval"
  ELSE IF risk = "destructive" THEN "destructive-requires-confirmation"
  ELSE "default-deny"

Allowing == {"read-allowed", "write-in-workspace"}

Asking == {"write-outside-workspace", "privileged-requires-approval",
           "destructive-requires-confirmation"}

Decision(risk, r) ==
  IF Rule(risk, r) \in Allowing THEN "allow"
  ELSE IF Rule(risk, r) \in Asking THEN "require_approval"
  ELSE "deny"

RequiresPhrase(risk, r) == Rule(risk, r) = "destructive-requires-confirmation"

-----------------------------------------------------------------------------
\* Properties of the function.

\* How far a decision is from "go ahead".
Strictness(decision) == CASE decision = "allow" -> 0
                          [] decision = "require_approval" -> 1
                          [] decision = "deny" -> 2

\* In one context a worse risk never gets an easier decision: rules that are
\* tried in order could well make an exception of a level in the middle.
MonotoneIn(r) ==
  \A risk, worse \in RiskLevels :
    AtLeast(worse, risk) =>
      Strictness(Decision(worse, r)) >= Strictness(Decision(risk, r))

\* What the documents promise of any call that is not denied: the tool exists
\* and is enabled, the risk is within the task's ceiling, a dry run changes
\* nothing, and nothing above WRITE goes ahead without a human.
Contained(risk, r) ==
  Decision(risk, r) # "deny" =>
    /\ r.known /\ r.enabled
    /\ AtLeast(r.ceiling, risk)
    /\ r.dryRun => risk = "read"
    /\ Decision(risk, r) = "allow" => AtLeast("write", risk)
    /\ risk = "destructive" => RequiresPhrase(risk, r)
=============================================================================

------------------------------ MODULE Executor ------------------------------
(***************************************************************************)
(* ToolExecutor.execute (tools/executor.py): resolve, validate, classify,  *)
(* evaluate policy, obtain and spend an approval, run, record.  Each call  *)
(* is one coroutine; the approvals rows it shares with everyone who may    *)
(* answer are in Approvals.                                                *)
(*                                                                         *)
(* An action is a stretch of code between two accesses to the approvals    *)
(* table, or up to the tool's own run.  The ledger writes and the events   *)
(* inside a stretch concern this call alone and belong to its action.      *)
(***************************************************************************)
EXTENDS Policy, Approvals

CONSTANTS
  Requests,   \* the requests a call may be made with
  Prompting   \* an interactive approver is attached (the CLI's, never the API's)

ASSUME RequestAssumption == Requests \subseteq RequestType

ASSUME PromptingAssumption == Prompting \in BOOLEAN

VARIABLES
  request,        \* the call, its tool, its task and the settings
  at,             \* where the coroutine is
  decision,       \* verdict.decision, "none" before there is a verdict
  approvalState,  \* call.approval_state, "none" while it is None
  result,         \* "ok", "failed" (both ran), "unrun", or "none" before
  ledger,         \* tool_calls: whether the row is there and completed, and the
                  \* approval_state it was filed with
  ran             \* history: calls whose tool was started

execVars == <<request, at, decision, approvalState, result, ledger, ran>>
vars == <<approvalVars, execVars>>

Points == {"new", "judged", "asking", "answering", "granted", "spending",
           "cleared", "running", "done", "raised"}

ApprovalStates == {"none", "PENDING", "DENIED", "EXPIRED", "CONSUMED"}

Unfiled == [status |-> "absent", approval |-> "none"]

Init ==
  /\ ApprovalInit
  /\ request \in [Calls -> Requests]
  /\ at = [c \in Calls |-> "new"]
  /\ decision = [c \in Calls |-> "none"]
  /\ approvalState = [c \in Calls |-> "none"]
  /\ result = [c \in Calls |-> "none"]
  /\ ledger = [c \in Calls |-> Unfiled]
  /\ ran = {}

\* The risk policy is asked about: the classification of the arguments alone.
EffectiveRisk(r) == Worse(r.dynamic, "read")

-----------------------------------------------------------------------------
\* Bookkeeping.

\* audit.record_call: the row as the call stands now.
File(c) == [status |-> "requested", approval |-> approvalState[c]]

Goto(c, point) == at' = [at EXCEPT ![c] = point]

\* execute returns: audit.record_result completes the ledger row.
Return(c, outcome) ==
  /\ Goto(c, "done")
  /\ result' = [result EXCEPT ![c] = outcome]
  /\ ledger' = [ledger EXCEPT ![c].status = "completed"]

SetApproval(c, value) == approvalState' = [approvalState EXCEPT ![c] = value]

Continue(c, point) == Goto(c, point) /\ UNCHANGED <<result, ledger>>

-----------------------------------------------------------------------------
\* Steps 1 to 4: nothing here waits for anyone.

\* The registry does not have the tool.
RefuseUnknown(c) ==
  /\ at[c] = "new"
  /\ ~request[c].known
  /\ decision' = [decision EXCEPT ![c] = "deny"]
  /\ Goto(c, "done")
  /\ result' = [result EXCEPT ![c] = "unrun"]
  /\ ledger' = [ledger EXCEPT ![c] = [File(c) EXCEPT !.status = "completed"]]
  /\ UNCHANGED <<approvalVars, request, approvalState, ran>>

\* The arguments do not validate.  The verdict returned is a denial.
RejectArguments(c) ==
  /\ at[c] = "new"
  /\ request[c].known /\ ~request[c].valid
  /\ decision' = [decision EXCEPT ![c] = "deny"]
  /\ Goto(c, "done")
  /\ result' = [result EXCEPT ![c] = "unrun"]
  /\ ledger' = [ledger EXCEPT ![c] = [File(c) EXCEPT !.status = "completed"]]
  /\ UNCHANGED <<approvalVars, request, approvalState, ran>>

\* Mutant: the call is filed only once its result is known.
JudgeUnfiled(c) ==
  /\ at[c] = "new"
  /\ request[c].known /\ request[c].valid
  /\ decision' = [decision EXCEPT ![c] = Decision(EffectiveRisk(request[c]), request[c])]
  /\ Goto(c, "judged")
  /\ UNCHANGED <<approvalVars, request, approvalState, result, ledger, ran>>

Judge(c) ==
  /\ at[c] = "new"
  /\ request[c].known /\ request[c].valid
  /\ decision' = [decision EXCEPT ![c] = Decision(EffectiveRisk(request[c]), request[c])]
  /\ ledger' = [ledger EXCEPT ![c] = File(c)]
  /\ Goto(c, "judged")
  /\ UNCHANGED <<approvalVars, request, approvalState, result, ran>>

Refuse(c) ==
  /\ at[c] = "judged"
  /\ decision[c] = "deny"
  /\ Return(c, "unrun")
  /\ UNCHANGED <<approvalVars, request, decision, approvalState, ran>>

\* Mutant: whatever is not denied goes ahead.
AllowUndenied(c) ==
  /\ at[c] = "judged"
  /\ decision[c] # "deny"
  /\ Continue(c, "cleared")
  /\ UNCHANGED <<approvalVars, request, decision, approvalState, ran>>

Allow(c) ==
  /\ at[c] = "judged"
  /\ decision[c] = "allow"
  /\ Continue(c, "cleared")
  /\ UNCHANGED <<approvalVars, request, decision, approvalState, ran>>

-----------------------------------------------------------------------------
\* Step 5: the approval.

Ask(c) ==
  /\ at[c] = "judged"
  /\ decision[c] = "require_approval"
  /\ RequestApproval(c, RequiresPhrase(EffectiveRisk(request[c]), request[c]))
  /\ SetApproval(c, "PENDING")
  /\ IF Prompting THEN Continue(c, "asking") ELSE Return(c, "unrun")
  /\ UNCHANGED <<request, decision, ran>>

\* The prompt returned.  The CLI's prompt approves a destructive operation only
\* when the phrase was typed.
AnswerPrompt(c, approved) ==
  /\ at[c] = "asking"
  /\ BeginResolve(c, c, approved, approved /\ grave[c])
  /\ Continue(c, "answering")
  /\ UNCHANGED <<request, decision, approvalState, ran>>

\* Someone else answered while the prompt was open: resolve raises.
PromptTooLate(c) ==
  /\ at[c] = "asking"
  /\ row[c] # "PENDING"
  /\ SetApproval(c, "EXPIRED")
  /\ Return(c, "unrun")
  /\ UNCHANGED <<approvalVars, request, decision, ran>>

\* Mutant: approval_state becomes CONSUMED on the answer, before consume().
SettlePromptEarly(c) ==
  /\ at[c] = "answering"
  /\ Write(c)
  /\ IF intent[c].becomes = "APPROVED"
     THEN Continue(c, "granted") /\ SetApproval(c, "CONSUMED")
     ELSE Return(c, "unrun") /\ SetApproval(c, intent[c].becomes)
  /\ UNCHANGED <<request, decision, ran>>

SettlePrompt(c) ==
  /\ at[c] = "answering"
  /\ Write(c)
  /\ IF intent[c].becomes = "APPROVED"
     THEN Continue(c, "granted") /\ UNCHANGED approvalState
     ELSE Return(c, "unrun") /\ SetApproval(c, intent[c].becomes)
  /\ UNCHANGED <<request, decision, ran>>

-----------------------------------------------------------------------------
\* Step 6: spend it.  A consume that raises leaves approval_state PENDING.

Consume(c) ==
  /\ at[c] = "granted"
  /\ BeginConsume(c)
  /\ Continue(c, "spending")
  /\ UNCHANGED <<request, decision, approvalState, ran>>

\* Mutant: a refused consume is tried again instead of ending the call.
ConsumeRefusedRetries(c) ==
  /\ at[c] = "granted"
  /\ ~Spendable(c)
  /\ UNCHANGED vars

ConsumeRefused(c) ==
  /\ at[c] = "granted"
  /\ ~Spendable(c)
  /\ Return(c, "unrun")
  /\ UNCHANGED <<approvalVars, request, decision, approvalState, ran>>

Spend(c) ==
  /\ at[c] = "spending"
  /\ Write(c)
  /\ IF intent[c].becomes = "CONSUMED"
     THEN Continue(c, "cleared") /\ SetApproval(c, "CONSUMED")
     ELSE Return(c, "unrun") /\ UNCHANGED approvalState
  /\ UNCHANGED <<request, decision, ran>>

\* A StoreError inside resolve or consume is a refusal, not an exception: the
\* call ends unrun, whether or not the row was written.
StoreRefuses(c) ==
  /\ at[c] \in {"asking", "answering", "granted", "spending"}
  /\ IF at[c] \in {"asking", "answering"}
     THEN SetApproval(c, "EXPIRED")
     ELSE UNCHANGED approvalState
  /\ Abandon(c)
  /\ Return(c, "unrun")
  /\ UNCHANGED <<request, decision, ran>>

-----------------------------------------------------------------------------
\* Step 7: run and record.

Start(c) ==
  /\ at[c] = "cleared"
  /\ ran' = ran \cup {c}
  /\ Continue(c, "running")
  /\ UNCHANGED <<approvalVars, request, decision, approvalState>>

\* The tool succeeded, raised, or ran out of its time budget.
Finish(c, outcome) ==
  /\ at[c] = "running"
  /\ Return(c, outcome)
  /\ UNCHANGED <<approvalVars, request, decision, approvalState, ran>>

\* Cancellation, a StoreError outside resolve and consume, or the end of the
\* process: execute does not return.
Raise(c) ==
  /\ at[c] \notin {"new", "done", "raised"}
  /\ Abandon(c)
  /\ Continue(c, "raised")
  /\ UNCHANGED <<request, decision, approvalState, ran>>

Step(c) ==
  \/ RefuseUnknown(c)
  \/ RejectArguments(c)
  \/ Judge(c)
  \/ Refuse(c)
  \/ Allow(c)
  \/ Ask(c)
  \/ PromptTooLate(c)
  \/ SettlePrompt(c)
  \/ Consume(c)
  \/ ConsumeRefused(c)
  \/ Spend(c)
  \/ Start(c)
  \/ \E outcome \in {"ok", "failed"} : Finish(c, outcome)

Surroundings ==
  \/ \E c \in Calls : \/ \E approved \in BOOLEAN : AnswerPrompt(c, approved)
                      \/ StoreRefuses(c)
                      \/ Raise(c)
                      \/ Lapse(c) /\ UNCHANGED execVars
  \/ \E d \in Deciders : (Look(d) \/ Decide(d)) /\ UNCHANGED execVars

Next == (\E c \in Calls : Step(c)) \/ Surroundings

\* The executor never stops by itself: the event loop runs it, and the tool is
\* under wait_for.  Nobody has to answer a prompt, and nothing has to fail.
Fairness == \A c \in Calls : WF_vars(Step(c))

Spec == Init /\ [][Next]_vars /\ Fairness

-----------------------------------------------------------------------------
\* Properties.

ExecTypeOK ==
  /\ request \in [Calls -> Requests]
  /\ at \in [Calls -> Points]
  /\ decision \in [Calls -> {"none", "allow", "require_approval", "deny"}]
  /\ approvalState \in [Calls -> ApprovalStates]
  /\ result \in [Calls -> {"none", "ok", "failed", "unrun"}]
  /\ ledger \in [Calls -> [status: {"absent", "requested", "completed"},
                           approval: ApprovalStates]]
  /\ ran \subseteq Calls

TypeOK == ApprovalTypeOK /\ ExecTypeOK

\* ExecutionOutcome.executed and .refused.
Executed(c) == result[c] \in {"ok", "failed"}

Refused(c) ==
  \/ decision[c] = "deny"
  \/ approvalState[c] \in {"DENIED", "EXPIRED", "PENDING"}

\* The gate: whatever the others write and whenever they write it, a tool runs
\* only if policy allowed its risk outright, or a human's "yes" was recorded for
\* this very call - with the phrase typed, when the operation is destructive.
Cleared(c) ==
  \/ decision[c] = "allow"
  \/ /\ decision[c] = "require_approval"
     /\ "yes" \in said[c]
     /\ EffectiveRisk(request[c]) = "destructive" => "typed" \in said[c]

RunsOnlyWhenCleared == \A c \in ran : Cleared(c)

\* The two flags a caller reads off an outcome never contradict each other or
\* what happened, on any of the ways execute can return.
FlagsAgree ==
  \A c \in Calls : at[c] = "done" =>
    /\ Executed(c) <=> c \in ran
    /\ Refused(c) <=> c \notin ran

\* No tool runs before the ledger has its call, and no call returns, by any of
\* the paths through execute, without its outcome in the ledger.
LedgerKeepsUp ==
  \A c \in Calls :
    /\ c \in ran => ledger[c].status # "absent"
    /\ at[c] = "done" => ledger[c].status = "completed"

\* Once call c has come too late for its approval its tool does not run.
StaysUnspent(c) == [](at[c] = "granted" /\ overdue[c] => [](c \notin ran))

\* An approval that was granted but is past its expiry when the executor comes
\* to spend it is never spent: the tool does not run.
LapsedIsNeverSpent == \A c \in Calls : StaysUnspent(c)

\* The order of the rules leaves no hole: see Policy.
PolicyContains == \A c \in Calls, risk \in RiskLevels : Contained(risk, request[c])

PolicyMonotone == \A c \in Calls : MonotoneIn(request[c])

\* Only one party answers: the prompt of a process that serves no API, or one
\* person answering the requests of a process that prompts nobody.
OneParty == Deciders = {} \/ (~Prompting /\ \A d, e \in Deciders : d = e)

\* While only one party answers, each request keeps the approval's promise: one
\* answer, spent once.
Lifecycle == INSTANCE ApprovalLifecycle WITH state <- row

ImplementsApproval == Lifecycle!Spec

\* A call ends, unless its human never answers.
EndsUnlessAsking ==
  \A c \in Calls : <>(at[c] \in {"done", "raised"}) \/ <>[](at[c] = "asking")

-----------------------------------------------------------------------------
\* The inductive invariant behind TypeOK, RunsOnlyWhenCleared, FlagsAgree and
\* LedgerKeepsUp.

Gate == {"asking", "answering", "granted", "spending"}

\* The answers recorded for c are enough for it to run.
Consented(c) == "yes" \in said[c] /\ (grave[c] => "typed" \in said[c])

\* A settled answer concerns a request that exists, and an approval of a grave
\* one carries the phrase; the executor writes its own row only.
IntentsSound ==
  /\ \A w \in Writers : intent[w] # Idle =>
       /\ row[intent[w].call] # "none"
       /\ intent[w].becomes = "APPROVED" /\ grave[intent[w].call] => intent[w].typed
  /\ \A c \in Calls :
       /\ intent[c] # Idle => intent[c].call = c
       /\ at[c] = "answering" =>
            intent[c] # Idle /\ intent[c].becomes \in {"APPROVED", "DENIED", "EXPIRED"}
       /\ at[c] = "spending" =>
            intent[c] # Idle /\ intent[c].becomes \in {"CONSUMED", "EXPIRED"}

\* The verdict is what policy says, and the row asks for what the verdict asks.
VerdictSound ==
  \A c \in Calls :
    /\ at[c] = "new" => decision[c] = "none"
    /\ decision[c] = "require_approval" =>
         Decision(EffectiveRisk(request[c]), request[c]) = "require_approval"
    /\ at[c] \in {"new", "judged"} => row[c] = "none"
    /\ row[c] # "none" =>
         /\ decision[c] = "require_approval"
         /\ grave[c] = RequiresPhrase(EffectiveRisk(request[c]), request[c])

\* Where a call is says what it has obtained.
PlacesSound ==
  \A c \in Calls :
    /\ at[c] \in {"new", "judged"} => approvalState[c] = "none"
    /\ at[c] \in Gate => row[c] # "none" /\ approvalState[c] = "PENDING"
    /\ at[c] \in {"granted", "spending"} => Consented(c)
    /\ at[c] \in {"cleared", "running"} \/ c \in ran =>
         \/ decision[c] = "allow" /\ approvalState[c] = "none"
         \/ row[c] # "none" /\ Consented(c) /\ approvalState[c] = "CONSUMED"
    /\ c \in ran => at[c] \in {"running", "done", "raised"}
    /\ at[c] = "running" => c \in ran

\* The ledger row exists from the verdict on.
LedgerSound ==
  \A c \in Calls : at[c] # "new" => ledger[c].status # "absent"

IInv ==
  /\ TypeOK
  /\ IntentsSound
  /\ VerdictSound
  /\ PlacesSound
  /\ LedgerSound
  /\ FlagsAgree
  /\ LedgerKeepsUp

\* A write that was settled still fits the row when it is made.
Fits(w) ==
  intent[w] # Idle =>
    \/ /\ row[intent[w].call] = "PENDING"
       /\ intent[w].becomes \in {"APPROVED", "DENIED", "EXPIRED"}
    \/ /\ row[intent[w].call] = "APPROVED"
       /\ intent[w].becomes \in {"CONSUMED", "EXPIRED"}

\* What keeps the approval's promise while only one party answers: settled writes
\* fit, a call settles one only where it waits for it, and does not get there when
\* nobody is prompted.
Unraced ==
  /\ \A w \in Writers : Fits(w)
  /\ \A c \in Calls : intent[c] # Idle => at[c] \in {"answering", "spending"}
  /\ ~Prompting => \A c \in Calls : at[c] \notin Gate

-----------------------------------------------------------------------------
\* What the repository says, and the code does not do.

\* tools/executor.py:8, "taking the worse of static and dynamic".
WorseRiskJudged ==
  \A c \in Calls : decision[c] = "allow" =>
    Decision(Worse(request[c].static, request[c].dynamic), request[c]) = "allow"

\* security/approvals.py:105, resolve "Raises if the request is [...] already
\* resolved": an answer that was written is not replaced by another answer.
AnswersAreFinal ==
  [][\A c \in Calls :
       row[c] \in {"DENIED", "EXPIRED", "CONSUMED"} => row'[c] = row[c]]_row

\* docs/SECURITY.md:185-188, every tool call is recorded with "approval state";
\* core/models.py:240, "under whose approval".
LedgerNamesApproval ==
  \A c \in ran : decision[c] = "require_approval" => ledger[c].approval = "CONSUMED"
=============================================================================

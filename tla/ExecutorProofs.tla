--------------------------- MODULE ExecutorProofs ---------------------------
(***************************************************************************)
(* Theorems about Policy, Approvals and Executor, for any calls, any       *)
(* people answering, and any set of requests.                              *)
(***************************************************************************)
EXTENDS Executor, TLAPS

\* A decision is one of three.
LEMMA DecisionType ==
  ASSUME NEW r, NEW risk
  PROVE  Decision(risk, r) \in {"allow", "require_approval", "deny"}
BY DEF Decision


\* The UPDATE touches one row that exists, adds to what was said, and is done once.
LEMMA WriteEffect ==
  ASSUME ApprovalTypeOK, IntentsSound, NEW w \in Writers, intent[w] # Idle, Write(w)
  PROVE  /\ ApprovalTypeOK'
         /\ intent' = [intent EXCEPT ![w] = Idle]
         /\ UNCHANGED <<grave, overdue>>
         /\ \A c \in Calls : said[c] \subseteq said'[c]
         /\ \A c \in Calls : row[c] = "none" <=> row'[c] = "none"
         /\ \A c \in Calls : c # intent[w].call => row'[c] = row[c]
<1>1. intent[w] \in Intents
  BY DEF ApprovalTypeOK
<1>2. /\ intent[w].call \in Calls
      /\ intent[w].becomes \in {"APPROVED", "DENIED", "EXPIRED", "CONSUMED"}
  BY <1>1 DEF Intents
<1>3. row[intent[w].call] # "none"
  BY DEF IntentsSound
<1>4. Says(intent[w]) \in SUBSET {"no", "yes", "typed"}
  BY <1>1 DEF Says
<1>5. /\ row' = [row EXCEPT ![intent[w].call] = intent[w].becomes]
      /\ said' = [said EXCEPT ![intent[w].call] = @ \cup Says(intent[w])]
      /\ intent' = [intent EXCEPT ![w] = Idle]
      /\ UNCHANGED <<grave, overdue>>
  BY DEF Write
<1>6. row' \in [Calls -> RowStates]
  BY <1>2, <1>5 DEF ApprovalTypeOK, RowStates
<1>7. said' \in [Calls -> SUBSET {"no", "yes", "typed"}]
  BY <1>2, <1>4, <1>5 DEF ApprovalTypeOK
<1>8. intent' \in [Writers -> Intents \cup {Idle}]
  BY <1>5 DEF ApprovalTypeOK
<1>9. \A c \in Calls : said[c] \subseteq said'[c]
  BY <1>2, <1>5 DEF ApprovalTypeOK
<1>10. \A c \in Calls : /\ row[c] = "none" <=> row'[c] = "none"
                        /\ c # intent[w].call => row'[c] = row[c]
  BY <1>2, <1>3, <1>5 DEF ApprovalTypeOK
<1> QED
  BY <1>5, <1>6, <1>7, <1>8, <1>9, <1>10 DEF ApprovalTypeOK

\* An await that raises leaves the same, whether or not the UPDATE was applied.
LEMMA AbandonEffect ==
  ASSUME ApprovalTypeOK, IntentsSound, NEW w \in Writers, Abandon(w)
  PROVE  /\ ApprovalTypeOK'
         /\ intent' = [intent EXCEPT ![w] = Idle]
         /\ UNCHANGED <<grave, overdue>>
         /\ \A c \in Calls : said[c] \subseteq said'[c]
         /\ \A c \in Calls : row[c] = "none" <=> row'[c] = "none"
<1>1. CASE intent[w] # Idle /\ Write(w)
  BY <1>1, WriteEffect
<1>2. CASE intent' = [intent EXCEPT ![w] = Idle] /\ UNCHANGED <<row, grave, overdue, said>>
  BY <1>2 DEF ApprovalTypeOK
<1> QED
  BY <1>1, <1>2 DEF Abandon
\* What resolve settles, having read the row.
LEMMA ResolveEffect ==
  ASSUME ApprovalTypeOK, NEW w \in Writers, NEW c \in Calls,
         NEW approved \in BOOLEAN, NEW typed \in BOOLEAN,
         BeginResolve(w, c, approved, typed)
  PROVE  /\ ApprovalTypeOK'
         /\ intent' = [intent EXCEPT ![w] = intent'[w]]
         /\ intent'[w] # Idle /\ intent'[w].call = c /\ row[c] # "none"
         /\ intent'[w].becomes \in {"APPROVED", "DENIED", "EXPIRED"}
         /\ intent'[w].becomes = "APPROVED" /\ grave[c] => intent'[w].typed
         /\ UNCHANGED <<row, grave>>
<1> DEFINE i == [call |-> c, becomes |-> Answer(c, approved), typed |-> typed]
<1>1. overdue[c] \in BOOLEAN /\ grave[c] \in BOOLEAN
  BY DEF ApprovalTypeOK
<1>2. Answer(c, approved) \in {"APPROVED", "DENIED", "EXPIRED"}
  BY <1>1 DEF Answer
<1>3. i \in Intents
  BY <1>2 DEF Intents
<1>4. Answer(c, approved) = "APPROVED" => approved /\ ~overdue[c]
  BY <1>1 DEF Answer
<1>5. intent' = [intent EXCEPT ![w] = i] /\ UNCHANGED <<row, grave, overdue, said>>
  BY DEF BeginResolve
<1>6. intent'[w] = i /\ intent' \in [Writers -> Intents \cup {Idle}]
  BY <1>3, <1>5 DEF ApprovalTypeOK
<1>7. row[c] = "PENDING" /\ (overdue[c] \/ (approved /\ grave[c] => typed))
  BY DEF BeginResolve, Answerable
<1>8. i # Idle
  BY <1>3, IdleIsNoIntent
<1>9. i.call = c /\ i.becomes = Answer(c, approved) /\ i.typed = typed
  OBVIOUS
<1>10. ApprovalTypeOK'
  BY <1>5, <1>6 DEF ApprovalTypeOK
<1>11. i.becomes = "APPROVED" /\ grave[c] => i.typed
  BY <1>4, <1>7, <1>9
<1> QED
  BY <1>2, <1>5, <1>6, <1>7, <1>8, <1>9, <1>10, <1>11

\* What consume settles, having read the row.
LEMMA ConsumeEffect ==
  ASSUME ApprovalTypeOK, NEW c \in Calls, BeginConsume(c)
  PROVE  /\ ApprovalTypeOK'
         /\ intent' = [intent EXCEPT ![c] = intent'[c]]
         /\ intent'[c] # Idle /\ intent'[c].call = c /\ row[c] # "none"
         /\ intent'[c].becomes \in {"CONSUMED", "EXPIRED"}
         /\ UNCHANGED <<row, grave>>
<1> DEFINE i == [call |-> c, becomes |-> IF overdue[c] THEN "EXPIRED" ELSE "CONSUMED",
                 typed |-> FALSE]
<1>1. i \in Intents
  BY DEF Intents
<1>2. intent' = [intent EXCEPT ![c] = i] /\ UNCHANGED <<row, grave, overdue, said>>
  BY DEF BeginConsume
<1>3. intent'[c] = i /\ intent' \in [Writers -> Intents \cup {Idle}]
  BY <1>1, <1>2 DEF ApprovalTypeOK, Writers
<1>4. i # Idle
  BY <1>1, IdleIsNoIntent
<1>5. i.call = c /\ i.becomes \in {"CONSUMED", "EXPIRED"}
  OBVIOUS
<1>6. row[c] # "none"
  BY DEF BeginConsume, Spendable
<1>7. ApprovalTypeOK'
  BY <1>2, <1>3 DEF ApprovalTypeOK
<1> QED
  BY <1>2, <1>3, <1>4, <1>5, <1>6, <1>7

\* Whether the phrase is required is a Boolean.
LEMMA PhraseType ==
  ASSUME NEW r, NEW risk
  PROVE  RequiresPhrase(risk, r) \in BOOLEAN
BY DEF RequiresPhrase

\* No rule lets through what the documents rule out.
LEMMA Containment ==
  ASSUME NEW r \in RequestType, NEW risk \in RiskLevels
  PROVE  Contained(risk, r)
BY DEF Contained, Decision, Rule, RequiresPhrase, Allowing, Asking, AtLeast, Rank,
       RequestType, RiskLevels

\* In one context, a worse risk never gets an easier decision.
LEMMA Monotonicity ==
  ASSUME NEW r \in RequestType
  PROVE  MonotoneIn(r)
<1> SUFFICES ASSUME NEW risk \in RiskLevels, NEW worse \in RiskLevels, AtLeast(worse, risk)
             PROVE  Strictness(Decision(worse, r)) >= Strictness(Decision(risk, r))
  BY DEF MonotoneIn
<1>1. CASE risk = "read"
  BY <1>1 DEF Decision, Rule, Allowing, Asking, AtLeast, Rank, RequestType, RiskLevels, Strictness
<1>2. CASE risk = "write"
  BY <1>2 DEF Decision, Rule, Allowing, Asking, AtLeast, Rank, RequestType, RiskLevels, Strictness
<1>3. CASE risk = "privileged"
  BY <1>3 DEF Decision, Rule, Allowing, Asking, AtLeast, Rank, RequestType, RiskLevels, Strictness
<1>4. CASE risk = "destructive"
  BY <1>4 DEF Decision, Rule, Allowing, Asking, AtLeast, Rank, RequestType, RiskLevels, Strictness
<1> QED
  BY <1>1, <1>2, <1>3, <1>4 DEF RiskLevels
\* Every step keeps the types of the rows and of the writers.
LEMMA ApprovalTypeStep ==
  ASSUME IInv, [Next]_vars
  PROVE  ApprovalTypeOK'
<1> USE DEF IInv, TypeOK, vars, approvalVars, execVars
<1>1. ASSUME NEW c \in Calls, RefuseUnknown(c)
      PROVE  ApprovalTypeOK'
  BY <1>1 DEF RefuseUnknown, ApprovalTypeOK
<1>2. ASSUME NEW c \in Calls, RejectArguments(c)
      PROVE  ApprovalTypeOK'
  BY <1>2 DEF RejectArguments, ApprovalTypeOK
<1>3. ASSUME NEW c \in Calls, Judge(c)
      PROVE  ApprovalTypeOK'
  BY <1>3 DEF Judge, ApprovalTypeOK
<1>4. ASSUME NEW c \in Calls, Refuse(c)
      PROVE  ApprovalTypeOK'
  BY <1>4 DEF Refuse, ApprovalTypeOK
<1>5. ASSUME NEW c \in Calls, Allow(c)
      PROVE  ApprovalTypeOK'
  BY <1>5 DEF Allow, ApprovalTypeOK
<1>6. ASSUME NEW c \in Calls, Ask(c)
      PROVE  ApprovalTypeOK'
  BY <1>6, PhraseType DEF Ask, RequestApproval, ApprovalTypeOK, RowStates
<1>7. ASSUME NEW c \in Calls, PromptTooLate(c)
      PROVE  ApprovalTypeOK'
  BY <1>7 DEF PromptTooLate, ApprovalTypeOK
<1>8. ASSUME NEW c \in Calls, SettlePrompt(c)
      PROVE  ApprovalTypeOK'
  BY <1>8, WriteEffect DEF SettlePrompt, IntentsSound, Writers
<1>9. ASSUME NEW c \in Calls, Consume(c)
      PROVE  ApprovalTypeOK'
  BY <1>9, ConsumeEffect DEF Consume
<1>10. ASSUME NEW c \in Calls, ConsumeRefused(c)
      PROVE  ApprovalTypeOK'
  BY <1>10 DEF ConsumeRefused, ApprovalTypeOK
<1>11. ASSUME NEW c \in Calls, Spend(c)
      PROVE  ApprovalTypeOK'
  BY <1>11, WriteEffect DEF Spend, IntentsSound, Writers
<1>12. ASSUME NEW c \in Calls, Start(c)
      PROVE  ApprovalTypeOK'
  BY <1>12 DEF Start, ApprovalTypeOK
<1>13. ASSUME NEW c \in Calls, NEW outcome \in {"ok", "failed"}, Finish(c, outcome)
      PROVE  ApprovalTypeOK'
  BY <1>13 DEF Finish, ApprovalTypeOK
<1>14. ASSUME NEW c \in Calls, NEW approved \in BOOLEAN, AnswerPrompt(c, approved)
      PROVE  ApprovalTypeOK'
  <2>1. (approved /\ grave[c]) \in BOOLEAN /\ c \in Writers
    BY DEF Writers
  <2>2. BeginResolve(c, c, approved, approved /\ grave[c])
    BY <1>14 DEF AnswerPrompt
  <2> QED
    BY <2>1, <2>2, ResolveEffect
<1>15. ASSUME NEW c \in Calls, StoreRefuses(c)
      PROVE  ApprovalTypeOK'
  BY <1>15, AbandonEffect DEF StoreRefuses, Writers
<1>16. ASSUME NEW c \in Calls, Raise(c)
      PROVE  ApprovalTypeOK'
  BY <1>16, AbandonEffect DEF Raise, Writers
<1>17. ASSUME NEW c \in Calls, Lapse(c), UNCHANGED execVars
      PROVE  ApprovalTypeOK'
  BY <1>17 DEF Lapse, ApprovalTypeOK
<1>18. ASSUME NEW d \in Deciders, Look(d), UNCHANGED execVars
      PROVE  ApprovalTypeOK'
  BY <1>18, ResolveEffect DEF Look, Writers
<1>19. ASSUME NEW d \in Deciders, Decide(d), UNCHANGED execVars
      PROVE  ApprovalTypeOK'
  BY <1>19, AbandonEffect DEF Decide, Writers
<1>20. CASE UNCHANGED vars
  BY <1>20 DEF ApprovalTypeOK
<1> HIDE DEF ApprovalTypeOK
<1> QED BY <1>1, <1>2, <1>3, <1>4, <1>5, <1>6, <1>7, <1>8, <1>9, <1>10, <1>11,
   <1>12, <1>13, <1>14, <1>15, <1>16, <1>17, <1>18, <1>19, <1>20 DEF Next, Step,
   Surroundings

\* Every step keeps the types of the executor's own variables.
LEMMA ExecTypeStep ==
  ASSUME IInv, [Next]_vars
  PROVE  ExecTypeOK'
<1> USE DEF IInv, TypeOK, ExecTypeOK, IntentsSound, Points, ApprovalStates, vars,
   approvalVars, execVars
<1>1. ASSUME NEW c \in Calls, RefuseUnknown(c)
      PROVE  ExecTypeOK'
  BY <1>1 DEF RefuseUnknown, Goto, File
<1>2. ASSUME NEW c \in Calls, RejectArguments(c)
      PROVE  ExecTypeOK'
  BY <1>2 DEF RejectArguments, Goto, File
<1>3. ASSUME NEW c \in Calls, Judge(c)
      PROVE  ExecTypeOK'
  BY <1>3, DecisionType DEF Judge, Goto, File
<1>4. ASSUME NEW c \in Calls, Refuse(c)
      PROVE  ExecTypeOK'
  BY <1>4 DEF Refuse, Return, Goto
<1>5. ASSUME NEW c \in Calls, Allow(c)
      PROVE  ExecTypeOK'
  BY <1>5 DEF Allow, Continue, Goto
<1>6. ASSUME NEW c \in Calls, Ask(c)
      PROVE  ExecTypeOK'
  <2>1. approvalState' \in [Calls -> ApprovalStates]
    BY <1>6 DEF Ask, SetApproval
  <2>2. UNCHANGED <<request, decision, ran>>
    BY <1>6 DEF Ask
  <2>3. Continue(c, "asking") \/ Return(c, "unrun")
    BY <1>6 DEF Ask
  <2>4. CASE Continue(c, "asking")
    BY <2>1, <2>2, <2>4 DEF Continue, Goto
  <2>5. CASE Return(c, "unrun")
    <3> HIDE <1>6
    <3> QED
      BY <2>1, <2>2, <2>5 DEF Return, Goto
  <2> QED
    BY <2>3, <2>4, <2>5
<1>7. ASSUME NEW c \in Calls, PromptTooLate(c)
      PROVE  ExecTypeOK'
  BY <1>7 DEF PromptTooLate, SetApproval, Return, Goto
<1>8. ASSUME NEW c \in Calls, SettlePrompt(c)
      PROVE  ExecTypeOK'
  <2>1. CASE intent[c].becomes = "APPROVED"
    BY <1>8, <2>1 DEF SettlePrompt, Continue, Goto
  <2>2. CASE intent[c].becomes # "APPROVED"
    <3>1. intent[c].becomes \in ApprovalStates
      BY <1>8, <2>2 DEF SettlePrompt
    <3>2. approvalState' \in [Calls -> ApprovalStates]
      BY <1>8, <2>2, <3>1 DEF SettlePrompt, SetApproval
    <3>3. Return(c, "unrun") /\ UNCHANGED <<request, decision, ran>>
      BY <1>8, <2>2 DEF SettlePrompt
    <3> QED
      BY <3>2, <3>3 DEF Return, Goto
  <2> QED
    BY <2>1, <2>2
<1>9. ASSUME NEW c \in Calls, Consume(c)
      PROVE  ExecTypeOK'
  BY <1>9 DEF Consume, BeginConsume, Spendable, Continue, Goto
<1>10. ASSUME NEW c \in Calls, ConsumeRefused(c)
      PROVE  ExecTypeOK'
  BY <1>10 DEF ConsumeRefused, Spendable, Return, Goto
<1>11. ASSUME NEW c \in Calls, Spend(c)
      PROVE  ExecTypeOK'
  <2>1. CASE intent[c].becomes = "CONSUMED"
    BY <1>11, <2>1 DEF Spend, Continue, Goto, SetApproval
  <2>2. CASE intent[c].becomes # "CONSUMED"
    <3>1. Return(c, "unrun") /\ UNCHANGED <<request, decision, approvalState, ran>>
      BY <1>11, <2>2 DEF Spend
    <3> QED
      BY <3>1 DEF Return, Goto
  <2> QED
    BY <2>1, <2>2
<1>12. ASSUME NEW c \in Calls, Start(c)
      PROVE  ExecTypeOK'
  BY <1>12 DEF Start, Continue, Goto
<1>13. ASSUME NEW c \in Calls, NEW outcome \in {"ok", "failed"}, Finish(c, outcome)
      PROVE  ExecTypeOK'
  BY <1>13 DEF Finish, Return, Goto
<1>14. ASSUME NEW c \in Calls, NEW approved \in BOOLEAN, AnswerPrompt(c, approved)
      PROVE  ExecTypeOK'
  BY <1>14 DEF AnswerPrompt, BeginResolve, Answerable, Answer, Continue, Goto
<1>15. ASSUME NEW c \in Calls, StoreRefuses(c)
      PROVE  ExecTypeOK'
  <2>1. /\ approvalState' \in {approvalState, [approvalState EXCEPT ![c] = "EXPIRED"]}
        /\ at' = [at EXCEPT ![c] = "done"]
        /\ result' = [result EXCEPT ![c] = "unrun"]
        /\ ledger' = [ledger EXCEPT ![c].status = "completed"]
        /\ UNCHANGED <<request, decision, ran>>
    BY <1>15 DEF StoreRefuses, SetApproval, Return, Goto
  <2> QED
    BY <2>1
<1>16. ASSUME NEW c \in Calls, Raise(c)
      PROVE  ExecTypeOK'
  BY <1>16 DEF Raise, Continue, Goto
<1>17. ASSUME NEW c \in Calls, Lapse(c), UNCHANGED execVars
      PROVE  ExecTypeOK'
  BY <1>17 DEF Lapse
<1>18. ASSUME NEW d \in Deciders, Look(d), UNCHANGED execVars
      PROVE  ExecTypeOK'
  BY <1>18 DEF Look, BeginResolve, Answerable, Answer
<1>19. ASSUME NEW d \in Deciders, Decide(d), UNCHANGED execVars
      PROVE  ExecTypeOK'
  BY <1>19 DEF Decide
<1>20. CASE UNCHANGED vars
  BY <1>20
<1> HIDE DEF ExecTypeOK
<1> QED BY <1>1, <1>2, <1>3, <1>4, <1>5, <1>6, <1>7, <1>8, <1>9, <1>10, <1>11,
   <1>12, <1>13, <1>14, <1>15, <1>16, <1>17, <1>18, <1>19, <1>20 DEF Next, Step,
   Surroundings

\* What a writer has settled stays sound while others write.
LEMMA IntentsStep ==
  ASSUME IInv, [Next]_vars
  PROVE  IntentsSound'
<1> USE DEF IInv, TypeOK, ExecTypeOK, ApprovalTypeOK, IntentsSound, Intents,
   Writers, VerdictSound, PlacesSound, Gate, vars, approvalVars, execVars
<1>1. ASSUME NEW c \in Calls, RefuseUnknown(c)
      PROVE  IntentsSound'
  BY <1>1 DEF RefuseUnknown, Goto, File
<1>2. ASSUME NEW c \in Calls, RejectArguments(c)
      PROVE  IntentsSound'
  BY <1>2 DEF RejectArguments, Goto, File
<1>3. ASSUME NEW c \in Calls, Judge(c)
      PROVE  IntentsSound'
  BY <1>3 DEF Judge, Goto, File
<1>4. ASSUME NEW c \in Calls, Refuse(c)
      PROVE  IntentsSound'
  BY <1>4 DEF Refuse, Return, Goto
<1>5. ASSUME NEW c \in Calls, Allow(c)
      PROVE  IntentsSound'
  BY <1>5 DEF Allow, Continue, Goto
<1>6. ASSUME NEW c \in Calls, Ask(c)
      PROVE  IntentsSound'
  BY <1>6 DEF Ask, RequestApproval, SetApproval, Continue, Return, Goto
<1>7. ASSUME NEW c \in Calls, PromptTooLate(c)
      PROVE  IntentsSound'
  BY <1>7 DEF PromptTooLate, SetApproval, Return, Goto
<1>8. ASSUME NEW c \in Calls, SettlePrompt(c)
      PROVE  IntentsSound'
  BY <1>8, WritersDiffer DEF SettlePrompt, Write, Says, Continue, Return, Goto,
     SetApproval
<1>9. ASSUME NEW c \in Calls, Consume(c)
      PROVE  IntentsSound'
  <2>1. /\ intent' = [intent EXCEPT ![c] = intent'[c]]
        /\ intent'[c] # Idle /\ intent'[c].call = c
        /\ intent'[c].becomes \in {"CONSUMED", "EXPIRED"}
        /\ row[c] # "none"
        /\ UNCHANGED <<row, grave>>
    BY <1>9, ConsumeEffect DEF Consume
  <2>2. at' = [at EXCEPT ![c] = "spending"]
    BY <1>9 DEF Consume, Continue, Goto
  <2>3. intent'[c].becomes # "APPROVED"
    BY <2>1
  <2>4. ASSUME NEW w \in Writers, intent'[w] # Idle
        PROVE  /\ row'[intent'[w].call] # "none"
               /\ intent'[w].becomes = "APPROVED" /\ grave'[intent'[w].call]
                    => intent'[w].typed
    <3>1. CASE w = c
      BY <3>1, <2>1, <2>3
    <3>2. CASE w # c
      <4>1. intent'[w] = intent[w]
        BY <3>2, <2>1
      <4> QED
        BY <4>1, <2>4, <2>1
    <3> QED
      BY <3>1, <3>2
  <2>5. ASSUME NEW d \in Calls
        PROVE  /\ intent'[d] # Idle => intent'[d].call = d
               /\ at'[d] = "answering" =>
                    intent'[d] # Idle /\ intent'[d].becomes \in {"APPROVED", "DENIED", "EXPIRED"}
               /\ at'[d] = "spending" =>
                    intent'[d] # Idle /\ intent'[d].becomes \in {"CONSUMED", "EXPIRED"}
    <3>1. CASE d = c
      BY <3>1, <2>1, <2>2
    <3>2. CASE d # c
      <4>1. intent'[d] = intent[d] /\ at'[d] = at[d]
        BY <3>2, <2>1, <2>2
      <4> QED
        BY <4>1
    <3> QED
      BY <3>1, <3>2
  <2> HIDE DEF IInv
  <2> QED
    BY <2>4, <2>5 DEF IntentsSound
<1>10. ASSUME NEW c \in Calls, ConsumeRefused(c)
      PROVE  IntentsSound'
  BY <1>10 DEF ConsumeRefused, Spendable, Return, Goto
<1>11. ASSUME NEW c \in Calls, Spend(c)
      PROVE  IntentsSound'
  BY <1>11, WritersDiffer DEF Spend, Write, Says, Continue, Return, Goto,
     SetApproval
<1>12. ASSUME NEW c \in Calls, Start(c)
      PROVE  IntentsSound'
  BY <1>12 DEF Start, Continue, Goto
<1>13. ASSUME NEW c \in Calls, NEW outcome \in {"ok", "failed"}, Finish(c, outcome)
      PROVE  IntentsSound'
  BY <1>13 DEF Finish, Return, Goto
<1>14. ASSUME NEW c \in Calls, NEW approved \in BOOLEAN, AnswerPrompt(c, approved)
      PROVE  IntentsSound'
  BY <1>14, WritersDiffer, IdleIsNoIntent DEF AnswerPrompt, BeginResolve,
     Answerable, Answer, Continue, Goto
<1>15. ASSUME NEW c \in Calls, StoreRefuses(c)
      PROVE  IntentsSound'
  <2>1. /\ intent' = [intent EXCEPT ![c] = Idle]
        /\ grave' = grave
        /\ \A x \in Calls : row[x] = "none" <=> row'[x] = "none"
    BY <1>15, AbandonEffect DEF StoreRefuses
  <2>2. \A w \in Writers : intent'[w] # Idle => intent'[w] = intent[w] /\ intent[w].call \in Calls
    BY <2>1
  <2> QED
    BY <1>15, <2>1, <2>2, WritersDiffer DEF StoreRefuses, Return, Goto
<1>16. ASSUME NEW c \in Calls, Raise(c)
      PROVE  IntentsSound'
  <2>1. /\ intent' = [intent EXCEPT ![c] = Idle]
        /\ grave' = grave
        /\ \A x \in Calls : row[x] = "none" <=> row'[x] = "none"
    BY <1>16, AbandonEffect DEF Raise
  <2>2. \A w \in Writers : intent'[w] # Idle => intent'[w] = intent[w] /\ intent[w].call \in Calls
    BY <2>1
  <2> QED
    BY <1>16, <2>1, <2>2, WritersDiffer DEF Raise, Continue, Goto
<1>17. ASSUME NEW c \in Calls, Lapse(c), UNCHANGED execVars
      PROVE  IntentsSound'
  BY <1>17 DEF Lapse
<1>18. ASSUME NEW d \in Deciders, Look(d), UNCHANGED execVars
      PROVE  IntentsSound'
  BY <1>18, WritersDiffer, IdleIsNoIntent DEF Look, BeginResolve, Answerable,
     Answer
<1>19. ASSUME NEW d \in Deciders, Decide(d), UNCHANGED execVars
      PROVE  IntentsSound'
  <2>1. /\ intent' = [intent EXCEPT ![d] = Idle]
        /\ grave' = grave
        /\ \A x \in Calls : row[x] = "none" <=> row'[x] = "none"
    BY <1>19, AbandonEffect DEF Decide
  <2>2. \A w \in Writers : intent'[w] # Idle => intent'[w] = intent[w] /\ intent[w].call \in Calls
    BY <2>1
  <2> QED
    BY <1>19, <2>1, <2>2, WritersDiffer DEF Decide
<1>20. CASE UNCHANGED vars
  BY <1>20
<1> HIDE DEF IntentsSound
<1> QED BY <1>1, <1>2, <1>3, <1>4, <1>5, <1>6, <1>7, <1>8, <1>9, <1>10, <1>11,
   <1>12, <1>13, <1>14, <1>15, <1>16, <1>17, <1>18, <1>19, <1>20 DEF Next, Step,
   Surroundings

\* The verdict, and what the row asks for, stay what policy says.
LEMMA VerdictStep ==
  ASSUME IInv, [Next]_vars
  PROVE  VerdictSound'
<1> USE DEF IInv, TypeOK, ExecTypeOK, ApprovalTypeOK, IntentsSound, Intents,
   Writers, VerdictSound, PlacesSound, Gate, vars, approvalVars, execVars
<1>1. ASSUME NEW c \in Calls, RefuseUnknown(c)
      PROVE  VerdictSound'
  BY <1>1 DEF RefuseUnknown, Goto, File
<1>2. ASSUME NEW c \in Calls, RejectArguments(c)
      PROVE  VerdictSound'
  BY <1>2 DEF RejectArguments, Goto, File
<1>3. ASSUME NEW c \in Calls, Judge(c)
      PROVE  VerdictSound'
  BY <1>3, DecisionType DEF Judge, Goto, File
<1>4. ASSUME NEW c \in Calls, Refuse(c)
      PROVE  VerdictSound'
  BY <1>4 DEF Refuse, Return, Goto
<1>5. ASSUME NEW c \in Calls, Allow(c)
      PROVE  VerdictSound'
  BY <1>5 DEF Allow, Continue, Goto
<1>6. ASSUME NEW c \in Calls, Ask(c)
      PROVE  VerdictSound'
  BY <1>6 DEF Ask, RequestApproval, SetApproval, Continue, Return, Goto
<1>7. ASSUME NEW c \in Calls, PromptTooLate(c)
      PROVE  VerdictSound'
  BY <1>7 DEF PromptTooLate, SetApproval, Return, Goto
<1>8. ASSUME NEW c \in Calls, SettlePrompt(c)
      PROVE  VerdictSound'
  BY <1>8 DEF SettlePrompt, Write, Says, Continue, Return, Goto, SetApproval
<1>9. ASSUME NEW c \in Calls, Consume(c)
      PROVE  VerdictSound'
  BY <1>9 DEF Consume, BeginConsume, Spendable, Continue, Goto
<1>10. ASSUME NEW c \in Calls, ConsumeRefused(c)
      PROVE  VerdictSound'
  BY <1>10 DEF ConsumeRefused, Spendable, Return, Goto
<1>11. ASSUME NEW c \in Calls, Spend(c)
      PROVE  VerdictSound'
  BY <1>11 DEF Spend, Write, Says, Continue, Return, Goto, SetApproval
<1>12. ASSUME NEW c \in Calls, Start(c)
      PROVE  VerdictSound'
  BY <1>12 DEF Start, Continue, Goto
<1>13. ASSUME NEW c \in Calls, NEW outcome \in {"ok", "failed"}, Finish(c, outcome)
      PROVE  VerdictSound'
  BY <1>13 DEF Finish, Return, Goto
<1>14. ASSUME NEW c \in Calls, NEW approved \in BOOLEAN, AnswerPrompt(c, approved)
      PROVE  VerdictSound'
  BY <1>14 DEF AnswerPrompt, BeginResolve, Answerable, Answer, Continue, Goto
<1>15. ASSUME NEW c \in Calls, StoreRefuses(c)
      PROVE  VerdictSound'
  BY <1>15, AbandonEffect DEF StoreRefuses, SetApproval, Return, Goto
<1>16. ASSUME NEW c \in Calls, Raise(c)
      PROVE  VerdictSound'
  BY <1>16, AbandonEffect DEF Raise, Continue, Goto
<1>17. ASSUME NEW c \in Calls, Lapse(c), UNCHANGED execVars
      PROVE  VerdictSound'
  BY <1>17 DEF Lapse
<1>18. ASSUME NEW d \in Deciders, Look(d), UNCHANGED execVars
      PROVE  VerdictSound'
  BY <1>18 DEF Look, BeginResolve, Answerable, Answer
<1>19. ASSUME NEW d \in Deciders, Decide(d), UNCHANGED execVars
      PROVE  VerdictSound'
  BY <1>19, AbandonEffect DEF Decide
<1>20. CASE UNCHANGED vars
  BY <1>20
<1> HIDE DEF VerdictSound
<1> QED BY <1>1, <1>2, <1>3, <1>4, <1>5, <1>6, <1>7, <1>8, <1>9, <1>10, <1>11,
   <1>12, <1>13, <1>14, <1>15, <1>16, <1>17, <1>18, <1>19, <1>20 DEF Next, Step,
   Surroundings

\* A call is never further than what it has obtained.
LEMMA PlacesStep ==
  ASSUME IInv, [Next]_vars
  PROVE  PlacesSound'
<1> USE DEF IInv, TypeOK, ExecTypeOK, ApprovalTypeOK, IntentsSound, Intents,
   Writers, VerdictSound, PlacesSound, Gate, Consented, vars, approvalVars,
   execVars
<1>1. ASSUME NEW c \in Calls, RefuseUnknown(c)
      PROVE  PlacesSound'
  BY <1>1 DEF RefuseUnknown, Goto, File
<1>2. ASSUME NEW c \in Calls, RejectArguments(c)
      PROVE  PlacesSound'
  BY <1>2 DEF RejectArguments, Goto, File
<1>3. ASSUME NEW c \in Calls, Judge(c)
      PROVE  PlacesSound'
  BY <1>3, DecisionType DEF Judge, Goto, File
<1>4. ASSUME NEW c \in Calls, Refuse(c)
      PROVE  PlacesSound'
  BY <1>4 DEF Refuse, Return, Goto
<1>5. ASSUME NEW c \in Calls, Allow(c)
      PROVE  PlacesSound'
  BY <1>5 DEF Allow, Continue, Goto
<1>6. ASSUME NEW c \in Calls, Ask(c)
      PROVE  PlacesSound'
  BY <1>6 DEF Ask, RequestApproval, SetApproval, Continue, Return, Goto
<1>7. ASSUME NEW c \in Calls, PromptTooLate(c)
      PROVE  PlacesSound'
  BY <1>7 DEF PromptTooLate, SetApproval, Return, Goto
<1>8. ASSUME NEW c \in Calls, SettlePrompt(c)
      PROVE  PlacesSound'
  BY <1>8 DEF SettlePrompt, Write, Says, Continue, Return, Goto, SetApproval
<1>9. ASSUME NEW c \in Calls, Consume(c)
      PROVE  PlacesSound'
  BY <1>9 DEF Consume, BeginConsume, Spendable, Continue, Goto
<1>10. ASSUME NEW c \in Calls, ConsumeRefused(c)
      PROVE  PlacesSound'
  BY <1>10 DEF ConsumeRefused, Spendable, Return, Goto
<1>11. ASSUME NEW c \in Calls, Spend(c)
      PROVE  PlacesSound'
  BY <1>11 DEF Spend, Write, Says, Continue, Return, Goto, SetApproval
<1>12. ASSUME NEW c \in Calls, Start(c)
      PROVE  PlacesSound'
  BY <1>12 DEF Start, Continue, Goto
<1>13. ASSUME NEW c \in Calls, NEW outcome \in {"ok", "failed"}, Finish(c, outcome)
      PROVE  PlacesSound'
  BY <1>13 DEF Finish, Return, Goto
<1>14. ASSUME NEW c \in Calls, NEW approved \in BOOLEAN, AnswerPrompt(c, approved)
      PROVE  PlacesSound'
  BY <1>14 DEF AnswerPrompt, BeginResolve, Answerable, Answer, Continue, Goto
<1>15. ASSUME NEW c \in Calls, StoreRefuses(c)
      PROVE  PlacesSound'
  BY <1>15, AbandonEffect DEF StoreRefuses, SetApproval, Return, Goto
<1>16. ASSUME NEW c \in Calls, Raise(c)
      PROVE  PlacesSound'
  BY <1>16, AbandonEffect DEF Raise, Continue, Goto
<1>17. ASSUME NEW c \in Calls, Lapse(c), UNCHANGED execVars
      PROVE  PlacesSound'
  BY <1>17 DEF Lapse
<1>18. ASSUME NEW d \in Deciders, Look(d), UNCHANGED execVars
      PROVE  PlacesSound'
  BY <1>18 DEF Look, BeginResolve, Answerable, Answer
<1>19. ASSUME NEW d \in Deciders, Decide(d), UNCHANGED execVars
      PROVE  PlacesSound'
  BY <1>19, AbandonEffect DEF Decide
<1>20. CASE UNCHANGED vars
  BY <1>20
<1> HIDE DEF PlacesSound
<1> QED BY <1>1, <1>2, <1>3, <1>4, <1>5, <1>6, <1>7, <1>8, <1>9, <1>10, <1>11,
   <1>12, <1>13, <1>14, <1>15, <1>16, <1>17, <1>18, <1>19, <1>20 DEF Next, Step,
   Surroundings

\* The ledger row is never lost.
LEMMA LedgerStep ==
  ASSUME IInv, [Next]_vars
  PROVE  LedgerSound'
<1> USE DEF IInv, TypeOK, ExecTypeOK, LedgerSound, vars, approvalVars, execVars
<1>1. ASSUME NEW c \in Calls, RefuseUnknown(c)
      PROVE  LedgerSound'
  BY <1>1 DEF RefuseUnknown, Goto, File
<1>2. ASSUME NEW c \in Calls, RejectArguments(c)
      PROVE  LedgerSound'
  BY <1>2 DEF RejectArguments, Goto, File
<1>3. ASSUME NEW c \in Calls, Judge(c)
      PROVE  LedgerSound'
  BY <1>3 DEF Judge, Goto, File
<1>4. ASSUME NEW c \in Calls, Refuse(c)
      PROVE  LedgerSound'
  BY <1>4 DEF Refuse, Return, Goto
<1>5. ASSUME NEW c \in Calls, Allow(c)
      PROVE  LedgerSound'
  BY <1>5 DEF Allow, Continue, Goto
<1>6. ASSUME NEW c \in Calls, Ask(c)
      PROVE  LedgerSound'
  BY <1>6 DEF Ask, RequestApproval, SetApproval, Continue, Return, Goto
<1>7. ASSUME NEW c \in Calls, PromptTooLate(c)
      PROVE  LedgerSound'
  BY <1>7 DEF PromptTooLate, SetApproval, Return, Goto
<1>8. ASSUME NEW c \in Calls, SettlePrompt(c)
      PROVE  LedgerSound'
  <2>1. /\ at[c] = "answering"
        /\ \E point : at' = [at EXCEPT ![c] = point]
        /\ \/ UNCHANGED ledger
           \/ ledger' = [ledger EXCEPT ![c].status = "completed"]
    BY <1>8 DEF SettlePrompt, Continue, Return, Goto
  <2> QED
    BY <2>1
<1>9. ASSUME NEW c \in Calls, Consume(c)
      PROVE  LedgerSound'
  BY <1>9 DEF Consume, BeginConsume, Spendable, Continue, Goto
<1>10. ASSUME NEW c \in Calls, ConsumeRefused(c)
      PROVE  LedgerSound'
  BY <1>10 DEF ConsumeRefused, Spendable, Return, Goto
<1>11. ASSUME NEW c \in Calls, Spend(c)
      PROVE  LedgerSound'
  <2>1. /\ at[c] = "spending"
        /\ \E point : at' = [at EXCEPT ![c] = point]
        /\ \/ UNCHANGED ledger
           \/ ledger' = [ledger EXCEPT ![c].status = "completed"]
    BY <1>11 DEF Spend, Continue, Return, Goto
  <2> QED
    BY <2>1
<1>12. ASSUME NEW c \in Calls, Start(c)
      PROVE  LedgerSound'
  BY <1>12 DEF Start, Continue, Goto
<1>13. ASSUME NEW c \in Calls, NEW outcome \in {"ok", "failed"}, Finish(c, outcome)
      PROVE  LedgerSound'
  BY <1>13 DEF Finish, Return, Goto
<1>14. ASSUME NEW c \in Calls, NEW approved \in BOOLEAN, AnswerPrompt(c, approved)
      PROVE  LedgerSound'
  BY <1>14 DEF AnswerPrompt, BeginResolve, Answerable, Answer, Continue, Goto
<1>15. ASSUME NEW c \in Calls, StoreRefuses(c)
      PROVE  LedgerSound'
  BY <1>15 DEF StoreRefuses, SetApproval, Return, Goto
<1>16. ASSUME NEW c \in Calls, Raise(c)
      PROVE  LedgerSound'
  BY <1>16 DEF Raise, Continue, Goto
<1>17. ASSUME NEW c \in Calls, Lapse(c), UNCHANGED execVars
      PROVE  LedgerSound'
  BY <1>17 DEF Lapse
<1>18. ASSUME NEW d \in Deciders, Look(d), UNCHANGED execVars
      PROVE  LedgerSound'
  BY <1>18 DEF Look, BeginResolve, Answerable, Answer
<1>19. ASSUME NEW d \in Deciders, Decide(d), UNCHANGED execVars
      PROVE  LedgerSound'
  BY <1>19 DEF Decide
<1>20. CASE UNCHANGED vars
  BY <1>20
<1> HIDE DEF LedgerSound
<1> QED BY <1>1, <1>2, <1>3, <1>4, <1>5, <1>6, <1>7, <1>8, <1>9, <1>10, <1>11,
   <1>12, <1>13, <1>14, <1>15, <1>16, <1>17, <1>18, <1>19, <1>20 DEF Next, Step,
   Surroundings

\* Every way to return leaves flags that agree with what happened.
LEMMA FlagsStep ==
  ASSUME IInv, [Next]_vars
  PROVE  FlagsAgree'
<1> USE DEF IInv, TypeOK, ExecTypeOK, ApprovalTypeOK, FlagsAgree, Executed,
   Refused, PlacesSound, VerdictSound, Gate, IntentsSound, Intents, Writers, vars,
   approvalVars, execVars
<1>1. ASSUME NEW c \in Calls, RefuseUnknown(c)
      PROVE  FlagsAgree'
  BY <1>1 DEF RefuseUnknown, Goto, File
<1>2. ASSUME NEW c \in Calls, RejectArguments(c)
      PROVE  FlagsAgree'
  BY <1>2 DEF RejectArguments, Goto, File
<1>3. ASSUME NEW c \in Calls, Judge(c)
      PROVE  FlagsAgree'
  BY <1>3, DecisionType DEF Judge, Goto, File
<1>4. ASSUME NEW c \in Calls, Refuse(c)
      PROVE  FlagsAgree'
  BY <1>4 DEF Refuse, Return, Goto
<1>5. ASSUME NEW c \in Calls, Allow(c)
      PROVE  FlagsAgree'
  BY <1>5 DEF Allow, Continue, Goto
<1>6. ASSUME NEW c \in Calls, Ask(c)
      PROVE  FlagsAgree'
  BY <1>6 DEF Ask, RequestApproval, SetApproval, Continue, Return, Goto
<1>7. ASSUME NEW c \in Calls, PromptTooLate(c)
      PROVE  FlagsAgree'
  BY <1>7 DEF PromptTooLate, SetApproval, Return, Goto
<1>8. ASSUME NEW c \in Calls, SettlePrompt(c)
      PROVE  FlagsAgree'
  BY <1>8 DEF SettlePrompt, Write, Says, Continue, Return, Goto, SetApproval
<1>9. ASSUME NEW c \in Calls, Consume(c)
      PROVE  FlagsAgree'
  BY <1>9 DEF Consume, BeginConsume, Spendable, Continue, Goto
<1>10. ASSUME NEW c \in Calls, ConsumeRefused(c)
      PROVE  FlagsAgree'
  BY <1>10 DEF ConsumeRefused, Spendable, Return, Goto
<1>11. ASSUME NEW c \in Calls, Spend(c)
      PROVE  FlagsAgree'
  BY <1>11 DEF Spend, Write, Says, Continue, Return, Goto, SetApproval
<1>12. ASSUME NEW c \in Calls, Start(c)
      PROVE  FlagsAgree'
  BY <1>12 DEF Start, Continue, Goto
<1>13. ASSUME NEW c \in Calls, NEW outcome \in {"ok", "failed"}, Finish(c, outcome)
      PROVE  FlagsAgree'
  BY <1>13 DEF Finish, Return, Goto
<1>14. ASSUME NEW c \in Calls, NEW approved \in BOOLEAN, AnswerPrompt(c, approved)
      PROVE  FlagsAgree'
  BY <1>14 DEF AnswerPrompt, BeginResolve, Answerable, Answer, Continue, Goto
<1>15. ASSUME NEW c \in Calls, StoreRefuses(c)
      PROVE  FlagsAgree'
  BY <1>15 DEF StoreRefuses, SetApproval, Return, Goto
<1>16. ASSUME NEW c \in Calls, Raise(c)
      PROVE  FlagsAgree'
  BY <1>16 DEF Raise, Continue, Goto
<1>17. ASSUME NEW c \in Calls, Lapse(c), UNCHANGED execVars
      PROVE  FlagsAgree'
  BY <1>17 DEF Lapse
<1>18. ASSUME NEW d \in Deciders, Look(d), UNCHANGED execVars
      PROVE  FlagsAgree'
  BY <1>18 DEF Look, BeginResolve, Answerable, Answer
<1>19. ASSUME NEW d \in Deciders, Decide(d), UNCHANGED execVars
      PROVE  FlagsAgree'
  BY <1>19 DEF Decide
<1>20. CASE UNCHANGED vars
  BY <1>20
<1> HIDE DEF FlagsAgree
<1> QED BY <1>1, <1>2, <1>3, <1>4, <1>5, <1>6, <1>7, <1>8, <1>9, <1>10, <1>11,
   <1>12, <1>13, <1>14, <1>15, <1>16, <1>17, <1>18, <1>19, <1>20 DEF Next, Step,
   Surroundings

\* Every way to return completes the ledger row.
LEMMA KeepsUpStep ==
  ASSUME IInv, [Next]_vars
  PROVE  LedgerKeepsUp'
<1> USE DEF IInv, TypeOK, ExecTypeOK, LedgerSound, LedgerKeepsUp, PlacesSound,
   vars, approvalVars, execVars
<1>1. ASSUME NEW c \in Calls, RefuseUnknown(c)
      PROVE  LedgerKeepsUp'
  BY <1>1 DEF RefuseUnknown, Goto, File
<1>2. ASSUME NEW c \in Calls, RejectArguments(c)
      PROVE  LedgerKeepsUp'
  BY <1>2 DEF RejectArguments, Goto, File
<1>3. ASSUME NEW c \in Calls, Judge(c)
      PROVE  LedgerKeepsUp'
  BY <1>3 DEF Judge, Goto, File
<1>4. ASSUME NEW c \in Calls, Refuse(c)
      PROVE  LedgerKeepsUp'
  BY <1>4 DEF Refuse, Return, Goto
<1>5. ASSUME NEW c \in Calls, Allow(c)
      PROVE  LedgerKeepsUp'
  BY <1>5 DEF Allow, Continue, Goto
<1>6. ASSUME NEW c \in Calls, Ask(c)
      PROVE  LedgerKeepsUp'
  BY <1>6 DEF Ask, RequestApproval, SetApproval, Continue, Return, Goto
<1>7. ASSUME NEW c \in Calls, PromptTooLate(c)
      PROVE  LedgerKeepsUp'
  BY <1>7 DEF PromptTooLate, SetApproval, Return, Goto
<1>8. ASSUME NEW c \in Calls, SettlePrompt(c)
      PROVE  LedgerKeepsUp'
  BY <1>8 DEF SettlePrompt, Write, Says, Continue, Return, Goto, SetApproval
<1>9. ASSUME NEW c \in Calls, Consume(c)
      PROVE  LedgerKeepsUp'
  BY <1>9 DEF Consume, BeginConsume, Spendable, Continue, Goto
<1>10. ASSUME NEW c \in Calls, ConsumeRefused(c)
      PROVE  LedgerKeepsUp'
  BY <1>10 DEF ConsumeRefused, Spendable, Return, Goto
<1>11. ASSUME NEW c \in Calls, Spend(c)
      PROVE  LedgerKeepsUp'
  BY <1>11 DEF Spend, Write, Says, Continue, Return, Goto, SetApproval
<1>12. ASSUME NEW c \in Calls, Start(c)
      PROVE  LedgerKeepsUp'
  BY <1>12 DEF Start, Continue, Goto
<1>13. ASSUME NEW c \in Calls, NEW outcome \in {"ok", "failed"}, Finish(c, outcome)
      PROVE  LedgerKeepsUp'
  BY <1>13 DEF Finish, Return, Goto
<1>14. ASSUME NEW c \in Calls, NEW approved \in BOOLEAN, AnswerPrompt(c, approved)
      PROVE  LedgerKeepsUp'
  BY <1>14 DEF AnswerPrompt, BeginResolve, Answerable, Answer, Continue, Goto
<1>15. ASSUME NEW c \in Calls, StoreRefuses(c)
      PROVE  LedgerKeepsUp'
  BY <1>15 DEF StoreRefuses, SetApproval, Return, Goto
<1>16. ASSUME NEW c \in Calls, Raise(c)
      PROVE  LedgerKeepsUp'
  BY <1>16 DEF Raise, Continue, Goto
<1>17. ASSUME NEW c \in Calls, Lapse(c), UNCHANGED execVars
      PROVE  LedgerKeepsUp'
  BY <1>17 DEF Lapse
<1>18. ASSUME NEW d \in Deciders, Look(d), UNCHANGED execVars
      PROVE  LedgerKeepsUp'
  BY <1>18 DEF Look, BeginResolve, Answerable, Answer
<1>19. ASSUME NEW d \in Deciders, Decide(d), UNCHANGED execVars
      PROVE  LedgerKeepsUp'
  BY <1>19 DEF Decide
<1>20. CASE UNCHANGED vars
  BY <1>20
<1> HIDE DEF LedgerKeepsUp
<1> QED BY <1>1, <1>2, <1>3, <1>4, <1>5, <1>6, <1>7, <1>8, <1>9, <1>10, <1>11,
   <1>12, <1>13, <1>14, <1>15, <1>16, <1>17, <1>18, <1>19, <1>20 DEF Next, Step,
   Surroundings
-----------------------------------------------------------------------------
\* The invariant holds initially.
LEMMA InitInv ==
  ASSUME Init
  PROVE  IInv
<1> USE DEF Init, ApprovalInit
<1>1. ApprovalTypeOK
  BY DEF ApprovalTypeOK, RowStates, Writers
<1>2. ExecTypeOK
  BY DEF ExecTypeOK, Points, ApprovalStates, Unfiled
<1>3. IntentsSound
  BY DEF IntentsSound, Writers
<1>4. VerdictSound /\ PlacesSound
  BY DEF VerdictSound, PlacesSound, Gate
<1>5. LedgerSound /\ FlagsAgree /\ LedgerKeepsUp
  BY DEF LedgerSound, FlagsAgree, LedgerKeepsUp
<1> QED
  BY <1>1, <1>2, <1>3, <1>4, <1>5 DEF IInv, TypeOK

\* IInv is inductive: whoever acts, between any two awaits of anyone.
THEOREM Invariance == Spec => []IInv
<1>1. Init => IInv
  BY InitInv
<1>2. IInv /\ [Next]_vars => IInv'
  <2> SUFFICES ASSUME IInv, [Next]_vars
               PROVE  IInv'
    OBVIOUS
  <2>1. ApprovalTypeOK'
    BY ApprovalTypeStep
  <2>2. ExecTypeOK'
    BY ExecTypeStep
  <2>3. IntentsSound'
    BY IntentsStep
  <2>4. VerdictSound'
    BY VerdictStep
  <2>5. PlacesSound'
    BY PlacesStep
  <2>6. LedgerSound'
    BY LedgerStep
  <2>7. FlagsAgree'
    BY FlagsStep
  <2>8. LedgerKeepsUp'
    BY KeepsUpStep
  <2> QED
    BY <2>1, <2>2, <2>3, <2>4, <2>5, <2>6, <2>7, <2>8 DEF IInv, TypeOK
<1> QED
  BY <1>1, <1>2, PTL DEF Spec

\* Every variable of the executor and of the approvals keeps its type.
THEOREM TypeCorrect == Spec => []TypeOK
<1>1. IInv => TypeOK
  BY DEF IInv
<1> QED
  BY <1>1, Invariance, PTL

\* Policy asks for the phrase whenever it asks about a destructive operation.
LEMMA DestructiveNeedsPhrase ==
  ASSUME NEW r, Decision("destructive", r) = "require_approval"
  PROVE  RequiresPhrase("destructive", r)
BY DEF Decision, RequiresPhrase, Rule, Allowing, Asking, AtLeast, Rank

\* ToolExecutor.execute never runs a tool that neither policy nor a recorded
\* answer to this very call let through, whoever else answers and when.
THEOREM Gatekeeping == Spec => []RunsOnlyWhenCleared
<1>1. IInv => RunsOnlyWhenCleared
  <2> SUFFICES ASSUME IInv, NEW c \in ran
               PROVE  Cleared(c)
    BY DEF RunsOnlyWhenCleared
  <2>1. c \in Calls
    BY DEF IInv, TypeOK, ExecTypeOK
  <2>2. CASE decision[c] = "allow"
    BY <2>2 DEF Cleared
  <2>3. CASE row[c] # "none" /\ Consented(c)
    <3>1. /\ decision[c] = "require_approval"
          /\ grave[c] = RequiresPhrase(EffectiveRisk(request[c]), request[c])
          /\ Decision(EffectiveRisk(request[c]), request[c]) = "require_approval"
      BY <2>1, <2>3 DEF IInv, VerdictSound
    <3>2. EffectiveRisk(request[c]) = "destructive" => grave[c]
      BY <3>1, DestructiveNeedsPhrase
    <3> QED
      BY <2>3, <3>1, <3>2 DEF Cleared, Consented
  <2> QED
    BY <2>1, <2>2, <2>3 DEF IInv, PlacesSound
<1> QED
  BY <1>1, Invariance, PTL

\* ExecutionOutcome.executed and .refused tell the truth on every return.
THEOREM FlagsTruthful == Spec => []FlagsAgree
<1>1. IInv => FlagsAgree
  BY DEF IInv
<1> QED
  BY <1>1, Invariance, PTL

\* The ledger is ahead of every tool and complete at every return.
THEOREM LedgerComplete == Spec => []LedgerKeepsUp
<1>1. IInv => LedgerKeepsUp
  BY DEF IInv
<1> QED
  BY <1>1, Invariance, PTL

\* Every call is judged by a policy that contains it and grows no easier with risk.
THEOREM PolicySound == Spec => [](PolicyContains /\ PolicyMonotone)
<1>1. IInv => PolicyContains /\ PolicyMonotone
  <2> SUFFICES ASSUME IInv
               PROVE  PolicyContains /\ PolicyMonotone
    OBVIOUS
  <2>1. \A c \in Calls : request[c] \in RequestType
    BY RequestAssumption DEF IInv, TypeOK, ExecTypeOK
  <2> QED
    BY <2>1, Containment, Monotonicity DEF PolicyContains, PolicyMonotone
<1> QED
  BY <1>1, Invariance, PTL
-----------------------------------------------------------------------------
\* What a call is, and stays, once it came to spend an approval past its expiry.
Barred(k) ==
  /\ overdue[k] /\ k \notin ran
  /\ \/ at[k] \in {"granted", "done", "raised"}
     \/ at[k] = "spending" /\ intent[k].becomes = "EXPIRED"

\* consume settles on EXPIRED, nobody else writes the call's own intent, and a
\* request that is past its expiry stays so.
LEMMA BarredStep ==
  ASSUME IInv, [Next]_vars, NEW k \in Calls, Barred(k)
  PROVE  Barred(k)'
<1> USE DEF IInv, TypeOK, ExecTypeOK, ApprovalTypeOK, Writers, Barred, vars,
   approvalVars, execVars
<1>1. ASSUME NEW c \in Calls, RefuseUnknown(c)
      PROVE  Barred(k)'
  BY <1>1 DEF RefuseUnknown, Goto, File
<1>2. ASSUME NEW c \in Calls, RejectArguments(c)
      PROVE  Barred(k)'
  BY <1>2 DEF RejectArguments, Goto, File
<1>3. ASSUME NEW c \in Calls, Judge(c)
      PROVE  Barred(k)'
  BY <1>3 DEF Judge, Goto, File
<1>4. ASSUME NEW c \in Calls, Refuse(c)
      PROVE  Barred(k)'
  BY <1>4 DEF Refuse, Return, Goto
<1>5. ASSUME NEW c \in Calls, Allow(c)
      PROVE  Barred(k)'
  BY <1>5 DEF Allow, Continue, Goto
<1>6. ASSUME NEW c \in Calls, Ask(c)
      PROVE  Barred(k)'
  BY <1>6 DEF Ask, RequestApproval, SetApproval, Continue, Return, Goto
<1>7. ASSUME NEW c \in Calls, PromptTooLate(c)
      PROVE  Barred(k)'
  BY <1>7 DEF PromptTooLate, SetApproval, Return, Goto
<1>8. ASSUME NEW c \in Calls, SettlePrompt(c)
      PROVE  Barred(k)'
  BY <1>8 DEF SettlePrompt, Write, Continue, Return, Goto, SetApproval
<1>9. ASSUME NEW c \in Calls, Consume(c)
      PROVE  Barred(k)'
  BY <1>9 DEF Consume, BeginConsume, Continue, Goto
<1>10. ASSUME NEW c \in Calls, ConsumeRefused(c)
      PROVE  Barred(k)'
  BY <1>10 DEF ConsumeRefused, Return, Goto
<1>11. ASSUME NEW c \in Calls, Spend(c)
      PROVE  Barred(k)'
  BY <1>11 DEF Spend, Write, Continue, Return, Goto, SetApproval
<1>12. ASSUME NEW c \in Calls, Start(c)
      PROVE  Barred(k)'
  BY <1>12 DEF Start, Continue, Goto
<1>13. ASSUME NEW c \in Calls, NEW outcome \in {"ok", "failed"}, Finish(c, outcome)
      PROVE  Barred(k)'
  BY <1>13 DEF Finish, Return, Goto
<1>14. ASSUME NEW c \in Calls, NEW approved \in BOOLEAN, AnswerPrompt(c, approved)
      PROVE  Barred(k)'
  BY <1>14 DEF AnswerPrompt, BeginResolve, Continue, Goto
<1>15. ASSUME NEW c \in Calls, StoreRefuses(c)
      PROVE  Barred(k)'
  BY <1>15, AbandonEffect DEF StoreRefuses, SetApproval, Return, Goto
<1>16. ASSUME NEW c \in Calls, Raise(c)
      PROVE  Barred(k)'
  BY <1>16, AbandonEffect DEF Raise, Continue, Goto
<1>17. ASSUME NEW c \in Calls, Lapse(c), UNCHANGED execVars
      PROVE  Barred(k)'
  BY <1>17 DEF Lapse
<1>18. ASSUME NEW d \in Deciders, Look(d), UNCHANGED execVars
      PROVE  Barred(k)'
  BY <1>18, WritersDiffer DEF Look, BeginResolve
<1>19. ASSUME NEW d \in Deciders, Decide(d), UNCHANGED execVars
      PROVE  Barred(k)'
  <2>1. UNCHANGED overdue /\ intent' = [intent EXCEPT ![d] = Idle]
    BY <1>19, AbandonEffect DEF Decide
  <2>2. d # k
    BY WritersDiffer
  <2>3. intent'[k] = intent[k]
    BY <2>1, <2>2
  <2>4. QED
    BY <1>19, <2>1, <2>3
<1>20. CASE UNCHANGED vars
  BY <1>20
<1> HIDE DEF Barred
<1> QED BY <1>1, <1>2, <1>3, <1>4, <1>5, <1>6, <1>7, <1>8, <1>9, <1>10, <1>11,
   <1>12, <1>13, <1>14, <1>15, <1>16, <1>17, <1>18, <1>19, <1>20 DEF Next, Step,
   Surroundings

\* A granted approval that is past its expiry when the executor comes to spend it
\* is never spent (ToolExecutor.execute, ApprovalManager.consume).
THEOREM LapsedStaysUnspent == Spec => LapsedIsNeverSpent
<1>1. ASSUME NEW k \in Calls
      PROVE  Spec => StaysUnspent(k)
  <2>1. IInv /\ at[k] = "granted" /\ overdue[k] => Barred(k)
    BY DEF IInv, PlacesSound, Barred
  <2>2. IInv /\ [Next]_vars /\ Barred(k) => Barred(k)'
    BY BarredStep
  <2>3. Barred(k) => k \notin ran
    BY DEF Barred
  <2>4. QED
    BY <2>1, <2>2, <2>3, Invariance, PTL DEF Spec, StaysUnspent
<1>2. QED
  BY <1>1 DEF LapsedIsNeverSpent

-----------------------------------------------------------------------------
\* The refinement of ApprovalLifecycle, while only one party answers.

\* The ways a step moves a row: the request is filed, or a settled write is made.
RowMoves ==
  \/ UNCHANGED row
  \/ \E c \in Calls : row[c] = "none" /\ row' = [row EXCEPT ![c] = "PENDING"]
  \/ \E w \in Writers : /\ intent[w] # Idle
                        /\ row' = [row EXCEPT ![intent[w].call] = intent[w].becomes]

LEMMA RowStep ==
  ASSUME IInv, [Next]_vars PROVE RowMoves
<1> USE DEF IInv, RowMoves, vars, approvalVars
<1>1. ASSUME NEW c \in Calls, RefuseUnknown(c)
      PROVE  RowMoves
  BY <1>1 DEF RefuseUnknown
<1>2. ASSUME NEW c \in Calls, RejectArguments(c)
      PROVE  RowMoves
  BY <1>2 DEF RejectArguments
<1>3. ASSUME NEW c \in Calls, Judge(c)
      PROVE  RowMoves
  BY <1>3 DEF Judge
<1>4. ASSUME NEW c \in Calls, Refuse(c)
      PROVE  RowMoves
  BY <1>4 DEF Refuse
<1>5. ASSUME NEW c \in Calls, Allow(c)
      PROVE  RowMoves
  BY <1>5 DEF Allow
<1>6. ASSUME NEW c \in Calls, Ask(c)
      PROVE  RowMoves
  BY <1>6 DEF Ask, RequestApproval, VerdictSound, RowMoves
<1>7. ASSUME NEW c \in Calls, PromptTooLate(c)
      PROVE  RowMoves
  BY <1>7 DEF PromptTooLate
<1>8. ASSUME NEW c \in Calls, SettlePrompt(c)
      PROVE  RowMoves
  BY <1>8 DEF SettlePrompt, Write, IntentsSound, Writers
<1>9. ASSUME NEW c \in Calls, Consume(c)
      PROVE  RowMoves
  BY <1>9 DEF Consume, BeginConsume
<1>10. ASSUME NEW c \in Calls, ConsumeRefused(c)
      PROVE  RowMoves
  BY <1>10 DEF ConsumeRefused
<1>11. ASSUME NEW c \in Calls, Spend(c)
      PROVE  RowMoves
  BY <1>11 DEF Spend, Write, IntentsSound, Writers
<1>12. ASSUME NEW c \in Calls, Start(c)
      PROVE  RowMoves
  BY <1>12 DEF Start
<1>13. ASSUME NEW c \in Calls, NEW outcome \in {"ok", "failed"}, Finish(c, outcome)
      PROVE  RowMoves
  BY <1>13 DEF Finish
<1>14. ASSUME NEW c \in Calls, NEW approved \in BOOLEAN, AnswerPrompt(c, approved)
      PROVE  RowMoves
  BY <1>14 DEF AnswerPrompt, BeginResolve
<1>15. ASSUME NEW c \in Calls, StoreRefuses(c)
      PROVE  RowMoves
  BY <1>15 DEF StoreRefuses, Abandon, Write, Writers
<1>16. ASSUME NEW c \in Calls, Raise(c)
      PROVE  RowMoves
  BY <1>16 DEF Raise, Abandon, Write, Writers
<1>17. ASSUME NEW c \in Calls, Lapse(c), UNCHANGED execVars
      PROVE  RowMoves
  BY <1>17 DEF Lapse
<1>18. ASSUME NEW d \in Deciders, Look(d), UNCHANGED execVars
      PROVE  RowMoves
  BY <1>18 DEF Look, BeginResolve
<1>19. ASSUME NEW d \in Deciders, Decide(d), UNCHANGED execVars
      PROVE  RowMoves
  BY <1>19 DEF Decide, Abandon, Write, Writers
<1>20. CASE UNCHANGED vars
  BY <1>20
<1> HIDE DEF RowMoves
<1> QED BY <1>1, <1>2, <1>3, <1>4, <1>5, <1>6, <1>7, <1>8, <1>9, <1>10, <1>11,
   <1>12, <1>13, <1>14, <1>15, <1>16, <1>17, <1>18, <1>19, <1>20 DEF Next, Step,
   Surroundings

\* With one party, no two writes to one row are settled at once.
LEMMA SoleWriter ==
  ASSUME IInv, Unraced, OneParty, NEW v \in Writers, NEW w \in Writers,
         intent[v] # Idle, intent[w] # Idle, intent[v].call = intent[w].call
  PROVE  v = w
<1>1. \A c \in Calls : intent[c] # Idle => intent[c].call = c
  BY DEF IInv, IntentsSound
<1>2. CASE Deciders = {}
  BY <1>1, <1>2 DEF Writers
<1>3. CASE ~Prompting /\ \A d, e \in Deciders : d = e
  <2>1. \A c \in Calls : intent[c] = Idle
    BY <1>3 DEF Unraced, Gate
  <2>2. QED
    BY <1>3, <2>1 DEF Writers
<1>4. QED
  BY <1>2, <1>3 DEF OneParty

\* When w's write is made, or given up, the others' still fit.
LEMMA OthersFit ==
  ASSUME IInv, Unraced, OneParty, NEW w \in Writers,
         (intent[w] # Idle /\ Write(w))
           \/ (intent' = [intent EXCEPT ![w] = Idle] /\ UNCHANGED row)
  PROVE  /\ intent' = [intent EXCEPT ![w] = Idle]
         /\ \A v \in Writers : Fits(v)'
<1>1. intent \in [Writers -> Intents \cup {Idle}] /\ row \in [Calls -> RowStates]
  BY DEF IInv, TypeOK, ApprovalTypeOK
<1>2. intent' = [intent EXCEPT ![w] = Idle]
  BY DEF Write
<1>3. ASSUME NEW v \in Writers, intent'[v] # Idle
      PROVE  /\ v # w /\ intent'[v] = intent[v] /\ intent[v].call \in Calls
             /\ row'[intent[v].call] = row[intent[v].call]
  <2>1. v # w /\ intent'[v] = intent[v]
    BY <1>1, <1>2, <1>3
  <2>2. intent[v] \in Intents
    BY <1>1, <1>3, <2>1
  <2>3. CASE UNCHANGED row
    BY <2>1, <2>2, <2>3 DEF Intents
  <2>4. CASE intent[w] # Idle /\ Write(w)
    <3>1. row' = [row EXCEPT ![intent[w].call] = intent[w].becomes]
      BY <2>4 DEF Write
    <3>2. intent[v].call # intent[w].call
      BY <1>3, <2>1, <2>4, SoleWriter
    <3>3. QED
      BY <1>1, <2>1, <2>2, <3>1, <3>2 DEF Intents
  <2>5. QED
    BY <2>3, <2>4
<1>4. QED
  BY <1>2, <1>3 DEF Fits, Unraced

\* With one party, a settled write never loses its row to another.
LEMMA UnracedStep ==
  ASSUME IInv, Unraced, OneParty, [Next]_vars
  PROVE  Unraced'
<1>0. /\ ApprovalTypeOK /\ IntentsSound /\ VerdictSound
      /\ intent \in [Writers -> Intents \cup {Idle}] /\ at \in [Calls -> Points]
      /\ row \in [Calls -> RowStates]
  BY DEF IInv, TypeOK, ApprovalTypeOK, ExecTypeOK
<1> USE <1>0 DEF Unraced, Writers, Gate, vars, approvalVars, execVars
<1>1. ASSUME NEW c \in Calls, RefuseUnknown(c)
      PROVE  Unraced'
  BY <1>1 DEF RefuseUnknown, Fits, Return, Continue, Goto, File, SetApproval
<1>2. ASSUME NEW c \in Calls, RejectArguments(c)
      PROVE  Unraced'
  BY <1>2 DEF RejectArguments, Fits, Return, Continue, Goto, File, SetApproval
<1>3. ASSUME NEW c \in Calls, Judge(c)
      PROVE  Unraced'
  BY <1>3 DEF Judge, Fits, Return, Continue, Goto, File, SetApproval
<1>4. ASSUME NEW c \in Calls, Refuse(c)
      PROVE  Unraced'
  BY <1>4 DEF Refuse, Fits, Return, Continue, Goto, File, SetApproval
<1>5. ASSUME NEW c \in Calls, Allow(c)
      PROVE  Unraced'
  BY <1>5 DEF Allow, Fits, Return, Continue, Goto, File, SetApproval
<1>6. ASSUME NEW c \in Calls, Ask(c)
      PROVE  Unraced'
  <2>1. \A w \in Writers : intent[w] # Idle => intent[w].call # c
    BY <1>6 DEF Ask, VerdictSound, IntentsSound
  <2>2. \A w \in Writers : Fits(w)'
    BY <1>6, <2>1 DEF Ask, RequestApproval, Fits
  <2>3. QED
    BY <1>6, <2>2 DEF Ask, RequestApproval, Return, Continue, Goto, File, SetApproval
<1>7. ASSUME NEW c \in Calls, PromptTooLate(c)
      PROVE  Unraced'
  BY <1>7 DEF PromptTooLate, Fits, Return, Continue, Goto, File, SetApproval
<1>8. ASSUME NEW c \in Calls, SettlePrompt(c)
      PROVE  Unraced'
  <2>1. /\ intent' = [intent EXCEPT ![c] = Idle]
        /\ \A v \in Writers : Fits(v)'
    BY <1>8, OthersFit DEF SettlePrompt, IntentsSound
  <2>2. QED
    BY <1>8, <2>1 DEF SettlePrompt, Return, Continue, Goto, File, SetApproval
<1>9. ASSUME NEW c \in Calls, Consume(c)
      PROVE  Unraced'
  <2>1. row[c] = "APPROVED" /\ BeginConsume(c)
    BY <1>9 DEF Consume, BeginConsume, Spendable
  <2>2. \A w \in Writers : Fits(w)'
    BY <2>1, ConsumeEffect DEF Fits
  <2>3. QED
    BY <1>9, <2>1, <2>2, ConsumeEffect DEF Consume, Return, Continue, Goto, File, SetApproval
<1>10. ASSUME NEW c \in Calls, ConsumeRefused(c)
      PROVE  Unraced'
  BY <1>10 DEF ConsumeRefused, Fits, Return, Continue, Goto, File, SetApproval
<1>11. ASSUME NEW c \in Calls, Spend(c)
      PROVE  Unraced'
  <2>1. /\ intent' = [intent EXCEPT ![c] = Idle]
        /\ \A v \in Writers : Fits(v)'
    BY <1>11, OthersFit DEF Spend, IntentsSound
  <2>2. QED
    BY <1>11, <2>1 DEF Spend, Return, Continue, Goto, File, SetApproval
<1>12. ASSUME NEW c \in Calls, Start(c)
      PROVE  Unraced'
  BY <1>12 DEF Start, Fits, Return, Continue, Goto, File, SetApproval
<1>13. ASSUME NEW c \in Calls, NEW outcome \in {"ok", "failed"}, Finish(c, outcome)
      PROVE  Unraced'
  BY <1>13 DEF Finish, Fits, Return, Continue, Goto, File, SetApproval
<1>14. ASSUME NEW c \in Calls, NEW approved \in BOOLEAN, AnswerPrompt(c, approved)
      PROVE  Unraced'
  <2>1. PICK typed \in BOOLEAN : BeginResolve(c, c, approved, typed)
    BY <1>14 DEF AnswerPrompt
  <2>2. row[c] = "PENDING"
    BY <2>1 DEF BeginResolve, Answerable
  <2>3. /\ intent' = [intent EXCEPT ![c] = intent'[c]]
        /\ intent'[c].call = c /\ intent'[c].becomes \in {"APPROVED", "DENIED", "EXPIRED"}
        /\ UNCHANGED row
    BY <2>1, ResolveEffect
  <2>4. \A w \in Writers : Fits(w)'
    BY <2>2, <2>3 DEF Fits
  <2>5. QED
    BY <1>14, <2>3, <2>4 DEF AnswerPrompt, Return, Continue, Goto, File, SetApproval
<1>15. ASSUME NEW c \in Calls, StoreRefuses(c)
      PROVE  Unraced'
  <2>1. /\ intent' = [intent EXCEPT ![c] = Idle]
        /\ \A v \in Writers : Fits(v)'
    BY <1>15, OthersFit DEF StoreRefuses, Writers, Abandon
  <2>2. QED
    BY <1>15, <2>1 DEF StoreRefuses, Return, Continue, Goto, File, SetApproval
<1>16. ASSUME NEW c \in Calls, Raise(c)
      PROVE  Unraced'
  <2>1. /\ intent' = [intent EXCEPT ![c] = Idle]
        /\ \A v \in Writers : Fits(v)'
    BY <1>16, OthersFit DEF Raise, Writers, Abandon
  <2>2. QED
    BY <1>16, <2>1 DEF Raise, Return, Continue, Goto, File, SetApproval
<1>17. ASSUME NEW c \in Calls, Lapse(c), UNCHANGED execVars
      PROVE  Unraced'
  BY <1>17 DEF Lapse, Fits
<1>18. ASSUME NEW d \in Deciders, Look(d), UNCHANGED execVars
      PROVE  Unraced'
  <2>1. PICK c \in Calls, approved \in BOOLEAN, typed \in BOOLEAN :
          BeginResolve(d, c, approved, typed)
    BY <1>18 DEF Look
  <2>2. row[c] = "PENDING"
    BY <2>1 DEF BeginResolve, Answerable
  <2>3. /\ intent' = [intent EXCEPT ![d] = intent'[d]]
        /\ intent'[d].call = c /\ intent'[d].becomes \in {"APPROVED", "DENIED", "EXPIRED"}
        /\ UNCHANGED row
    BY <2>1, ResolveEffect DEF Writers
  <2>4. \A w \in Writers : Fits(w)'
    BY <2>2, <2>3 DEF Fits
  <2>5. \A e \in Calls : intent'[e] = intent[e]
    BY <2>3, WritersDiffer
  <2>6. QED
    BY <1>18, <2>4, <2>5
<1>19. ASSUME NEW d \in Deciders, Decide(d), UNCHANGED execVars
      PROVE  Unraced'
  <2>1. /\ intent' = [intent EXCEPT ![d] = Idle]
        /\ \A v \in Writers : Fits(v)'
    BY <1>19, OthersFit DEF Decide, Writers, Abandon
  <2>2. QED
    BY <1>19, <2>1, WritersDiffer
<1>20. CASE UNCHANGED vars
  BY <1>20 DEF Fits
<1> QED BY <1>1, <1>2, <1>3, <1>4, <1>5, <1>6, <1>7, <1>8, <1>9, <1>10, <1>11,
   <1>12, <1>13, <1>14, <1>15, <1>16, <1>17, <1>18, <1>19, <1>20 DEF Next, Step,
   Surroundings

LEMMA InitUnraced == Init => Unraced
BY DEF Init, ApprovalInit, Unraced, Fits, Writers, Gate

\* A step moves the rows as ApprovalLifecycle does, or leaves them.
LEMMA RequestStep ==
  ASSUME IInv, Unraced, [Next]_vars
  PROVE  Lifecycle!Next \/ UNCHANGED row
<1>1. row \in [Calls -> RowStates] /\ intent \in [Writers -> Intents \cup {Idle}]
  BY DEF IInv, TypeOK, ApprovalTypeOK
<1>2. ASSUME NEW c \in Calls, row[c] = "none", row' = [row EXCEPT ![c] = "PENDING"]
      PROVE  Lifecycle!Next
  BY <1>2 DEF Lifecycle!Next, Lifecycle!Request, Lifecycle!Becomes
<1>3. ASSUME NEW w \in Writers, intent[w] # Idle,
             row' = [row EXCEPT ![intent[w].call] = intent[w].becomes]
      PROVE  Lifecycle!Next
  <2>1. intent[w].call \in Calls
    BY <1>1, <1>3 DEF Intents
  <2>2. CASE /\ row[intent[w].call] = "PENDING"
             /\ intent[w].becomes \in {"APPROVED", "DENIED", "EXPIRED"}
    <3>1. Lifecycle!Settle(intent[w].call)
      BY <1>3, <2>2 DEF Lifecycle!Settle, Lifecycle!Becomes
    <3>2. QED
      BY <2>1, <3>1 DEF Lifecycle!Next
  <2>3. CASE /\ row[intent[w].call] = "APPROVED"
             /\ intent[w].becomes \in {"CONSUMED", "EXPIRED"}
    <3>1. Lifecycle!Spend(intent[w].call)
      BY <1>3, <2>3 DEF Lifecycle!Spend, Lifecycle!Becomes
    <3>2. QED
      BY <2>1, <3>1 DEF Lifecycle!Next
  <2>4. QED
    BY <1>3, <2>2, <2>3 DEF Unraced, Fits
<1>4. QED
  BY <1>2, <1>3, RowStep DEF RowMoves

\* What stays so from the start, and what its steps do to the rows, with one party.
LEMMA Alone == ASSUME OneParty PROVE Spec => [](IInv /\ Unraced)
<1>1. Init => Unraced
  BY InitUnraced
<1>2. IInv /\ Unraced /\ [Next]_vars => Unraced'
  BY UnracedStep
<1>3. QED
  BY <1>1, <1>2, Invariance, PTL DEF Spec

\* Executor implements ApprovalLifecycle while only one party answers: every
\* request is answered once, by the prompt or by one person, and an approval is
\* spent once, whatever is cancelled and whatever the store refuses on the way.
THEOREM ApprovalImplemented == ASSUME OneParty PROVE Spec => ImplementsApproval
<1>1. Init => Lifecycle!Init
  BY DEF Init, ApprovalInit, Lifecycle!Init
<1>2. IInv /\ Unraced /\ [Next]_vars => [Lifecycle!Next]_row
  BY RequestStep
<1>3. QED
  BY <1>1, <1>2, Alone, PTL DEF Spec, ImplementsApproval, Lifecycle!Spec

\* So the race of two answers is the only way to replace one: with one party,
\* what ApprovalManager.resolve says of an answered request is true.
THEOREM AnswersStand == ASSUME OneParty PROVE Spec => AnswersAreFinal
<1>1. IInv /\ Unraced /\ [Next]_vars =>
        [\A c \in Calls : row[c] \in {"DENIED", "EXPIRED", "CONSUMED"} => row'[c] = row[c]]_row
  <2> SUFFICES ASSUME IInv, Unraced, [Next]_vars, NEW c \in Calls,
                      row[c] \in {"DENIED", "EXPIRED", "CONSUMED"}
               PROVE  row'[c] = row[c]
    OBVIOUS
  <2>1. row \in [Calls -> RowStates]
    BY DEF IInv, TypeOK, ApprovalTypeOK
  <2>2. CASE UNCHANGED row
    BY <2>2
  <2>3. CASE Lifecycle!Next
    BY <2>1, <2>3 DEF Lifecycle!Next, Lifecycle!Request, Lifecycle!Settle, Lifecycle!Spend,
       Lifecycle!Becomes
  <2>4. QED
    BY <2>2, <2>3, RequestStep
<1>2. QED
  BY <1>1, Alone, PTL DEF Spec, AnswersAreFinal
=============================================================================

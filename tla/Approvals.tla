----------------------------- MODULE Approvals ------------------------------
(***************************************************************************)
(* ApprovalManager (security/approvals.py) and the approvals table it      *)
(* writes.  One call opens at most one request, so the row is named by its *)
(* call.                                                                   *)
(*                                                                         *)
(* resolve() and consume() read the row, decide, and then write it with an *)
(* UPDATE that names the id only; each read and each write is an await, so *)
(* other writers - an API request, `scrappy approve` in another process,   *)
(* the prompt of the executor itself - act between the two.  intent[w] is  *)
(* what writer w has decided to write and has not written yet.             *)
(***************************************************************************)
EXTENDS Integers

CONSTANTS
  Calls,     \* tool calls; the executor of a call also writes its row
  Deciders,  \* people answering out of band
  Idle       \* no intent

ASSUME WritersDiffer == Calls \cap Deciders = {}

VARIABLES
  row,      \* approvals.state of the call's request, "none" before there is one
  grave,    \* the request requires the confirmation phrase
  overdue,  \* the request is past expires_at
  intent,   \* per writer: the write that follows its read
  said      \* history: the answers that were written for the call

approvalVars == <<row, grave, overdue, intent, said>>

RowStates == {"none", "PENDING", "APPROVED", "DENIED", "EXPIRED", "CONSUMED"}

Writers == Calls \cup Deciders

Intents == [call: Calls, becomes: {"APPROVED", "DENIED", "EXPIRED", "CONSUMED"},
            typed: BOOLEAN]

ASSUME IdleIsNoIntent == Idle \notin Intents

ApprovalTypeOK ==
  /\ row \in [Calls -> RowStates]
  /\ grave \in [Calls -> BOOLEAN]
  /\ overdue \in [Calls -> BOOLEAN]
  /\ intent \in [Writers -> Intents \cup {Idle}]
  /\ said \in [Calls -> SUBSET {"no", "yes", "typed"}]

ApprovalInit ==
  /\ row = [c \in Calls |-> "none"]
  /\ grave = [c \in Calls |-> FALSE]
  /\ overdue = [c \in Calls |-> FALSE]
  /\ intent = [w \in Writers |-> Idle]
  /\ said = [c \in Calls |-> {}]

\* request: a pending row is persisted.
RequestApproval(c, phrase) ==
  /\ row' = [row EXCEPT ![c] = "PENDING"]
  /\ grave' = [grave EXCEPT ![c] = phrase]
  /\ UNCHANGED <<overdue, intent, said>>

-----------------------------------------------------------------------------
\* resolve, first half.  It raises, and leaves the row alone, when the row is
\* not pending, or when a destructive request is approved without the phrase;
\* otherwise it settles what to write.

Answerable(c, approved, typed) ==
  /\ row[c] = "PENDING"
  /\ overdue[c] \/ (approved /\ grave[c] => typed)

Answer(c, approved) ==
  CASE overdue[c] -> "EXPIRED"
    [] ~overdue[c] /\ approved -> "APPROVED"
    [] ~overdue[c] /\ ~approved -> "DENIED"

BeginResolve(w, c, approved, typed) ==
  /\ Answerable(c, approved, typed)
  /\ intent' = [intent EXCEPT
                  ![w] = [call |-> c, becomes |-> Answer(c, approved), typed |-> typed]]
  /\ UNCHANGED <<row, grave, overdue, said>>

\* What an answer that is written adds to the history.
Says(i) ==
  CASE i.becomes = "APPROVED" -> IF i.typed THEN {"yes", "typed"} ELSE {"yes"}
    [] i.becomes = "DENIED" -> {"no"}
    [] OTHER -> {}

\* The UPDATE of resolve and of consume: it does not look at the row again.
Write(w) ==
  LET i == intent[w]
  IN  /\ row' = [row EXCEPT ![i.call] = i.becomes]
      /\ said' = [said EXCEPT ![i.call] = @ \cup Says(i)]
      /\ intent' = [intent EXCEPT ![w] = Idle]
      /\ UNCHANGED <<grave, overdue>>

\* The writer's own await raises - it is cancelled, or the store fails.  The
\* statement may have reached the database all the same.
Abandon(w) ==
  \/ intent[w] # Idle /\ Write(w)
  \/ intent' = [intent EXCEPT ![w] = Idle] /\ UNCHANGED <<row, grave, overdue, said>>

-----------------------------------------------------------------------------
\* consume, first half: only an approved request is spent, and only in time.

Spendable(c) == row[c] = "APPROVED"

\* Mutant: consume does not look at expires_at.
BeginConsumeLate(c) ==
  /\ Spendable(c)
  /\ intent' = [intent EXCEPT ![c] = [call |-> c, becomes |-> "CONSUMED", typed |-> FALSE]]
  /\ UNCHANGED <<row, grave, overdue, said>>

\* Mutant: a lapsed approval is put back to denied.
BeginConsumeDenies(c) ==
  /\ Spendable(c)
  /\ intent' = [intent EXCEPT
                  ![c] = [call |-> c,
                          becomes |-> IF overdue[c] THEN "DENIED" ELSE "CONSUMED",
                          typed |-> FALSE]]
  /\ UNCHANGED <<row, grave, overdue, said>>

BeginConsume(c) ==
  /\ Spendable(c)
  /\ intent' = [intent EXCEPT
                  ![c] = [call |-> c,
                          becomes |-> IF overdue[c] THEN "EXPIRED" ELSE "CONSUMED",
                          typed |-> FALSE]]
  /\ UNCHANGED <<row, grave, overdue, said>>

-----------------------------------------------------------------------------
\* The surroundings.

\* POST /approvals/{id} and `scrappy approve`.
Look(d) ==
  /\ intent[d] = Idle
  /\ \E c \in Calls, approved, typed \in BOOLEAN : BeginResolve(d, c, approved, typed)

\* The clock reaches expires_at.
Lapse(c) ==
  /\ row[c] # "none"
  /\ ~overdue[c]
  /\ overdue' = [overdue EXCEPT ![c] = TRUE]
  /\ UNCHANGED <<row, grave, intent, said>>

\* An out-of-band answer may not come through.
Decide(d) == intent[d] # Idle /\ Abandon(d)
=============================================================================

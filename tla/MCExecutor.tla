----------------------------- MODULE MCExecutor -----------------------------
(***************************************************************************)
(* Instances of Executor for TLC.                                          *)
(***************************************************************************)
EXTENDS Executor, TLC

\* Every request that gets as far as policy with a tool whose declared risk is
\* a ceiling, one with unknown name and one with invalid arguments.
Ordinary == {r \in RequestType : r.known /\ r.valid /\ Rank(r.static) >= Rank(r.dynamic)}

Sample == [known |-> TRUE, valid |-> TRUE, enabled |-> TRUE, static |-> "destructive",
           dynamic |-> "destructive", outside |-> TRUE, ceiling |-> "destructive",
           dryRun |-> FALSE, approvals |-> TRUE]

Unusable == {[Sample EXCEPT !.known = FALSE], [Sample EXCEPT !.valid = FALSE]}

AllRequests == Ordinary \cup Unusable

\* The requests that reach the approval gate, one of each kind, and one that
\* policy lets pass.
GateRequests == {Sample, [Sample EXCEPT !.dynamic = "privileged"],
                 [Sample EXCEPT !.dynamic = "read"]}
=============================================================================

---------------------------- MODULE InferenceProofs ----------------------------
(***************************************************************************)
(* Proofs about Inference, for any number of objectives, probes, turns,    *)
(* repairs and stops.                                                      *)
(*                                                                         *)
(* IInv adds to the properties what a turn that is under way may still     *)
(* cost, that its context has the mode of its request, and that no client  *)
(* is open while one is being closed.                                      *)
(***************************************************************************)
EXTENDS Inference, TLAPS

\* The requests that n turns may take.
Allowance(n) == (MaxRepairs + 1) * n

LEMMA AllowanceGrows ==
  ASSUME NEW n \in Nat
  PROVE  /\ Allowance(n) \in Nat
         /\ Allowance(n + 1) = Allowance(n) + MaxRepairs + 1
  BY InferenceAssumption DEF Allowance

\* The mode of an objective's context, and of its request.
ModeSound(o) ==
  IF InTurn(o) THEN mode[o] = (kind = "ollama") /\ json[o] = (kind = "ollama") ELSE ~mode[o]

\* What an objective has spent, and what its turn may still spend.
Spent(o) ==
  /\ calls[o] <= turns[o] /\ requests[o] <= Allowance(turns[o])
  /\ InTurn(o) =>
       /\ calls[o] < turns[o] /\ turn[o].asked <= MaxRepairs + 1
       /\ requests[o] + MaxRepairs + 1 <= Allowance(turns[o]) + turn[o].asked
  /\ turn[o].outcome = "answered" => turn[o].last = "accepted"
  /\ turn[o].outcome = "failed" =>
       turn[o].last = "error" \/ (turn[o].last = "rejected" /\ turn[o].asked = MaxRepairs + 1)

\* The client there is, and its end.
ClientSound ==
  /\ alive \subseteq {client} /\ 0 \notin alive
  /\ closing => client # 0 /\ alive = {}

IInv ==
  /\ TypeOK
  /\ \A o \in Objectives : ModeSound(o)
  /\ \A o \in Objectives : Spent(o)
  /\ ClientSound

-----------------------------------------------------------------------------
(***************************************************************************)
(* Types.                                                                  *)
(***************************************************************************)
LEMMA InitTypeOK == Init => TypeOK
<1> SUFFICES ASSUME Init PROVE TypeOK
  OBVIOUS
<1>1. mode \in [Objectives -> BOOLEAN] /\ json \in [Objectives -> BOOLEAN]
  BY DEF Init
<1>2. turn \in [Objectives -> [asked : Nat, last : Verdicts, outcome : Outcomes]]
  BY DEF Init, Verdicts, Outcomes
<1>3. /\ calls \in [Objectives -> Nat] /\ turns \in [Objectives -> Nat]
      /\ requests \in [Objectives -> Nat]
  BY DEF Init
<1>4. /\ kind \in Kinds /\ client \in Nat /\ made \in Nat /\ alive \subseteq Nat
      /\ closes \in Nat /\ closing \in BOOLEAN /\ probing \subseteq Probes
  BY DEF Init
<1> QED
  BY <1>1, <1>2, <1>3, <1>4 DEF TypeOK

\* The operators that several steps share.
LEMMA HttpTypes == ASSUME TypeOK, Http PROVE client' \in Nat /\ made' \in Nat /\ alive' \subseteq Nat
<1>1. client \in Nat /\ made \in Nat /\ made + 1 \in Nat /\ alive \subseteq Nat
  BY DEF TypeOK
<1>2. CASE client # 0
  BY <1>1, <1>2 DEF Http, clientVars
<1>3. CASE client = 0
  BY <1>1, <1>3 DEF Http
<1> QED
  BY <1>2, <1>3

LEMMA BecomesTypes ==
  ASSUME TypeOK, NEW o \in Objectives, NEW n \in Nat, NEW v \in Verdicts, NEW end \in Outcomes,
         Becomes(o, n, v, end)
  PROVE  turn' \in [Objectives -> [asked : Nat, last : Verdicts, outcome : Outcomes]]
  BY DEF TypeOK, Becomes

LEMMA SentTypes ==
  ASSUME TypeOK, NEW o \in Objectives, NEW n \in Nat, Sent(o, n), mode' \in [Objectives -> BOOLEAN]
  PROVE  /\ turn' \in [Objectives -> [asked : Nat, last : Verdicts, outcome : Outcomes]]
         /\ json' \in [Objectives -> BOOLEAN] /\ requests' \in [Objectives -> Nat]
         /\ client' \in Nat /\ made' \in Nat /\ alive' \subseteq Nat
<1>1. turn' \in [Objectives -> [asked : Nat, last : Verdicts, outcome : Outcomes]]
  BY BecomesTypes DEF Sent, Verdicts, Outcomes
<1>2. json' \in [Objectives -> BOOLEAN] /\ requests' \in [Objectives -> Nat]
  <2>1. json \in [Objectives -> BOOLEAN] /\ mode'[o] \in BOOLEAN
    BY DEF TypeOK
  <2>2. json' \in [Objectives -> BOOLEAN]
    BY <2>1 DEF Sent
  <2>3. requests' \in [Objectives -> Nat]
    BY DEF Sent, TypeOK
  <2> QED
    BY <2>2, <2>3
<1>3. client' \in Nat /\ made' \in Nat /\ alive' \subseteq Nat
  BY HttpTypes DEF Sent
<1> QED
  BY <1>1, <1>2, <1>3

LEMMA FailsTypes ==
  ASSUME TypeOK, NEW o \in Objectives, NEW n \in Nat, Fails(o, n)
  PROVE  /\ turn' \in [Objectives -> [asked : Nat, last : Verdicts, outcome : Outcomes]]
         /\ mode' \in [Objectives -> BOOLEAN]
         /\ json' \in [Objectives -> BOOLEAN] /\ requests' \in [Objectives -> Nat]
         /\ client' \in Nat /\ made' \in Nat /\ alive' \subseteq Nat
<1>1. turn' \in [Objectives -> [asked : Nat, last : Verdicts, outcome : Outcomes]]
  BY BecomesTypes DEF Fails, Verdicts, Outcomes
<1>2. mode' \in [Objectives -> BOOLEAN]
  BY DEF Fails, Leave, TypeOK
<1>3. /\ json' = json /\ requests' = requests
      /\ client' = client /\ made' = made /\ alive' = alive
  BY DEF Fails, clientVars
<1>4. json' \in [Objectives -> BOOLEAN] /\ requests' \in [Objectives -> Nat]
  BY <1>3 DEF TypeOK
<1>5. client' \in Nat /\ made' \in Nat /\ alive' \subseteq Nat
  BY <1>3 DEF TypeOK
<1> QED
  BY <1>1, <1>2, <1>4, <1>5

LEMMA StepTypeOK == ASSUME TypeOK, [Next]_vars PROVE TypeOK'
<1>1. ASSUME NEW o \in Objectives, Ask(o) PROVE TypeOK'
  <2>1. turns' \in [Objectives -> Nat] /\ calls' = calls
    BY <1>1 DEF Ask, TypeOK
  <2>2. CASE mode' = [mode EXCEPT ![o] = kind = "ollama"] /\ Sent(o, 1)
    <3>1. mode' \in [Objectives -> BOOLEAN]
      BY <2>2 DEF TypeOK
    <3> QED
      BY <1>1, <2>1, <2>2, <3>1, SentTypes DEF Ask, TypeOK
  <2>3. CASE ~Sendable /\ Fails(o, 0)
    BY <1>1, <2>1, <2>3, FailsTypes DEF Ask, TypeOK
  <2> QED
    BY <1>1, <2>2, <2>3 DEF Ask
<1>2. ASSUME NEW o \in Objectives, Accepted(o) PROVE TypeOK'
  <2>1. turn[o].asked \in Nat
    BY DEF TypeOK
  <2>2. turn' \in [Objectives -> [asked : Nat, last : Verdicts, outcome : Outcomes]]
    BY <1>2, <2>1, BecomesTypes DEF Accepted, Verdicts, Outcomes
  <2>3. mode' \in [Objectives -> BOOLEAN] /\ calls' \in [Objectives -> Nat]
    BY <1>2 DEF Accepted, Leave, TypeOK
  <2> QED
    BY <1>2, <2>2, <2>3 DEF Accepted, TypeOK, clientVars
<1>3. ASSUME NEW o \in Objectives, Repaired(o) PROVE TypeOK'
  <2>1. turn[o].asked \in Nat /\ turn[o].asked + 1 \in Nat /\ mode \in [Objectives -> BOOLEAN]
    BY DEF TypeOK
  <2>2. CASE UNCHANGED mode /\ Sent(o, turn[o].asked + 1)
    BY <1>3, <2>1, <2>2, SentTypes DEF Repaired, TypeOK
  <2>3. CASE ~Sendable /\ Fails(o, turn[o].asked)
    BY <1>3, <2>1, <2>3, FailsTypes DEF Repaired, TypeOK
  <2> QED
    BY <1>3, <2>2, <2>3 DEF Repaired
<1>4. ASSUME NEW o \in Objectives, Rejected(o) PROVE TypeOK'
  <2>1. turn[o].asked \in Nat
    BY DEF TypeOK
  <2>2. turn' \in [Objectives -> [asked : Nat, last : Verdicts, outcome : Outcomes]]
    BY <1>4, <2>1, BecomesTypes DEF Rejected, Verdicts, Outcomes
  <2> QED
    BY <1>4, <2>2 DEF Rejected, Leave, TypeOK, clientVars
<1>5. ASSUME NEW o \in Objectives, Raises(o) PROVE TypeOK'
  <2>1. turn[o].asked \in Nat
    BY DEF TypeOK
  <2> QED
    BY <1>5, <2>1, FailsTypes DEF Raises, TypeOK
<1>6. ASSUME NEW o \in Objectives, Cancel(o) PROVE TypeOK'
  <2>1. turn[o].asked \in Nat /\ turn[o].last \in Verdicts
    BY DEF TypeOK
  <2>2. turn' \in [Objectives -> [asked : Nat, last : Verdicts, outcome : Outcomes]]
    BY <1>6, <2>1, BecomesTypes DEF Cancel, Outcomes
  <2> QED
    BY <1>6, <2>2 DEF Cancel, Leave, TypeOK, clientVars
<1>7. ASSUME NEW h \in Probes, Probe(h) PROVE TypeOK'
  BY <1>7, HttpTypes DEF Probe, TypeOK, turnVars
<1>8. ASSUME NEW h \in Probes, Probed(h) PROVE TypeOK'
  BY <1>8 DEF Probed, TypeOK, turnVars, clientVars
<1>9. CASE Close
  BY <1>9 DEF Close, TypeOK, turnVars
<1>10. CASE Closed
  BY <1>10 DEF Closed, TypeOK, turnVars
<1>11. CASE UNCHANGED vars
  BY <1>11 DEF vars, TypeOK, turnVars, clientVars
<1> QED
  BY <1>1, <1>2, <1>3, <1>4, <1>5, <1>6, <1>7, <1>8, <1>9, <1>10, <1>11 DEF Next, Turn

-----------------------------------------------------------------------------
(***************************************************************************)
(* Turns.                                                                  *)
(***************************************************************************)
\* A turn's step is nobody else's.
LEMMA TurnIsOwn ==
  ASSUME TypeOK, NEW o \in Objectives, Turn(o), NEW p \in Objectives, p # o
  PROVE  /\ kind' = kind /\ mode'[p] = mode[p] /\ json'[p] = json[p] /\ turn'[p] = turn[p]
         /\ calls'[p] = calls[p] /\ turns'[p] = turns[p] /\ requests'[p] = requests[p]
<1>1. /\ mode \in [Objectives -> BOOLEAN] /\ json \in [Objectives -> BOOLEAN]
      /\ calls \in [Objectives -> Nat] /\ turns \in [Objectives -> Nat]
      /\ requests \in [Objectives -> Nat]
      /\ turn \in [Objectives -> [asked : Nat, last : Verdicts, outcome : Outcomes]]
  BY DEF TypeOK
<1>2. CASE Ask(o)
  BY <1>1, <1>2 DEF Ask, Sent, Fails, Leave, Becomes
<1>3. CASE Accepted(o)
  BY <1>1, <1>3 DEF Accepted, Leave, Becomes
<1>4. CASE Repaired(o)
  BY <1>1, <1>4 DEF Repaired, Sent, Fails, Leave, Becomes
<1>5. CASE Rejected(o)
  BY <1>1, <1>5 DEF Rejected, Leave, Becomes
<1>6. CASE Raises(o)
  BY <1>1, <1>6 DEF Raises, Fails, Leave, Becomes
<1>7. CASE Cancel(o)
  BY <1>1, <1>7 DEF Cancel, Leave, Becomes
<1> QED
  BY <1>2, <1>3, <1>4, <1>5, <1>6, <1>7 DEF Turn

\* What becomes of the objective whose step it is.
LEMMA BecomesOf ==
  ASSUME TypeOK, NEW o \in Objectives, NEW n, NEW v, NEW end, Becomes(o, n, v, end)
  PROVE  turn'[o].asked = n /\ turn'[o].last = v /\ turn'[o].outcome = end
  BY DEF TypeOK, Becomes

LEMMA LeaveOf ==
  ASSUME TypeOK, NEW o \in Objectives, Leave(o)
  PROVE  mode'[o] = FALSE
  BY DEF TypeOK, Leave

LEMMA SentOf ==
  ASSUME TypeOK, NEW o \in Objectives, NEW n, Sent(o, n)
  PROVE  /\ turn'[o].asked = n /\ turn'[o].last = "none" /\ turn'[o].outcome = "asking"
         /\ json'[o] = mode'[o] /\ requests'[o] = requests[o] + 1
<1>1. turn'[o].asked = n /\ turn'[o].last = "none" /\ turn'[o].outcome = "asking"
  BY BecomesOf DEF Sent
<1>2. json'[o] = mode'[o] /\ requests'[o] = requests[o] + 1
  BY DEF Sent, TypeOK
<1> QED
  BY <1>1, <1>2

LEMMA FailsOf ==
  ASSUME TypeOK, NEW o \in Objectives, NEW n, Fails(o, n)
  PROVE  /\ turn'[o].asked = n /\ turn'[o].last = "error" /\ turn'[o].outcome = "failed"
         /\ mode'[o] = FALSE /\ requests'[o] = requests[o]
  BY BecomesOf, LeaveOf DEF Fails

\* The mode and the account of the objective whose step it is.
LEMMA TurnKeeps ==
  ASSUME TypeOK, NEW o \in Objectives, ModeSound(o), Spent(o), Turn(o)
  PROVE  ModeSound(o)' /\ Spent(o)'
<1>1. /\ calls[o] \in Nat /\ turns[o] \in Nat /\ requests[o] \in Nat /\ turn[o].asked \in Nat
      /\ Allowance(turns[o]) \in Nat /\ MaxRepairs \in Nat
  BY AllowanceGrows, InferenceAssumption DEF TypeOK
<1>2. CASE Ask(o)
  <2>1. turns'[o] = turns[o] + 1 /\ calls'[o] = calls[o] /\ kind' = kind
    BY <1>2 DEF Ask, TypeOK
  <2>2. Allowance(turns'[o]) = Allowance(turns[o]) + MaxRepairs + 1
    BY <1>1, <2>1, AllowanceGrows
  <2>3. CASE mode' = [mode EXCEPT ![o] = kind = "ollama"] /\ Sent(o, 1)
    <3>1. mode'[o] = (kind = "ollama")
      BY <2>3 DEF TypeOK
    <3>2. ModeSound(o)'
      BY <2>1, <2>3, <3>1, SentOf DEF ModeSound, InTurn
    <3>3. Spent(o)'
      BY <1>1, <2>1, <2>2, <2>3, SentOf DEF Spent, InTurn
    <3> QED
      BY <3>2, <3>3
  <2>4. CASE ~Sendable /\ Fails(o, 0)
    <3>1. /\ turn'[o].last = "error" /\ turn'[o].outcome = "failed"
          /\ mode'[o] = FALSE /\ requests'[o] = requests[o]
      BY <2>4, FailsOf
    <3>2. ModeSound(o)'
      BY <3>1 DEF ModeSound, InTurn
    <3>3. calls'[o] <= turns'[o] /\ requests'[o] <= Allowance(turns'[o])
      BY <1>1, <2>1, <2>2, <3>1 DEF Spent
    <3>4. Spent(o)'
      BY <3>1, <3>3 DEF Spent, InTurn
    <3> QED
      BY <3>2, <3>4
  <2> QED
    BY <1>2, <2>3, <2>4 DEF Ask
<1>3. CASE Accepted(o)
  <2>1. /\ turns'[o] = turns[o] /\ calls'[o] = calls[o] + 1 /\ requests'[o] = requests[o]
        /\ mode'[o] = FALSE
    BY <1>3, LeaveOf DEF Accepted, TypeOK
  <2>2. turn'[o].last = "accepted" /\ turn'[o].outcome = "answered"
    BY <1>3, BecomesOf DEF Accepted
  <2>3. ModeSound(o)'
    BY <2>1, <2>2 DEF ModeSound, InTurn
  <2>4. Spent(o)'
    BY <1>1, <1>3, <2>1, <2>2 DEF Spent, InTurn, Accepted
  <2> QED
    BY <2>3, <2>4
<1>4. CASE Repaired(o)
  <2>1. turns'[o] = turns[o] /\ calls'[o] = calls[o] /\ kind' = kind
    BY <1>4 DEF Repaired
  <2>2. CASE UNCHANGED mode /\ Sent(o, turn[o].asked + 1)
    <3>1. ModeSound(o)'
      BY <1>4, <2>1, <2>2, SentOf DEF ModeSound, InTurn, Repaired
    <3>2. Spent(o)'
      BY <1>1, <1>4, <2>1, <2>2, SentOf DEF Spent, InTurn, Repaired
    <3> QED
      BY <3>1, <3>2
  <2>3. CASE ~Sendable /\ Fails(o, turn[o].asked)
    <3>1. ModeSound(o)'
      BY <2>3, FailsOf DEF ModeSound, InTurn
    <3>2. Spent(o)'
      BY <1>1, <2>1, <2>3, FailsOf DEF Spent, InTurn
    <3> QED
      BY <3>1, <3>2
  <2> QED
    BY <1>4, <2>2, <2>3 DEF Repaired
<1>5. CASE Rejected(o)
  <2>1. /\ turns'[o] = turns[o] /\ calls'[o] = calls[o] /\ requests'[o] = requests[o]
        /\ mode'[o] = FALSE
    BY <1>5, LeaveOf DEF Rejected
  <2>2. /\ turn'[o].asked = turn[o].asked /\ turn'[o].last = "rejected"
        /\ turn'[o].outcome = "failed"
    BY <1>5, BecomesOf DEF Rejected
  <2>3. ModeSound(o)'
    BY <2>1, <2>2 DEF ModeSound, InTurn
  <2>4. Spent(o)'
    BY <1>1, <1>5, <2>1, <2>2 DEF Spent, InTurn, Rejected
  <2> QED
    BY <2>3, <2>4
<1>6. CASE Raises(o)
  <2>1. turns'[o] = turns[o] /\ calls'[o] = calls[o] /\ Fails(o, turn[o].asked)
    BY <1>6 DEF Raises
  <2>2. ModeSound(o)'
    BY <2>1, FailsOf DEF ModeSound, InTurn
  <2>3. Spent(o)'
    BY <1>1, <2>1, FailsOf DEF Spent, InTurn
  <2> QED
    BY <2>2, <2>3
<1>7. CASE Cancel(o)
  <2>1. /\ turns'[o] = turns[o] /\ calls'[o] = calls[o] /\ requests'[o] = requests[o]
        /\ mode'[o] = FALSE
    BY <1>7, LeaveOf DEF Cancel
  <2>2. turn'[o].outcome = "cancelled"
    BY <1>7, BecomesOf DEF Cancel
  <2>3. ModeSound(o)'
    BY <2>1, <2>2 DEF ModeSound, InTurn
  <2>4. Spent(o)'
    BY <1>1, <2>1, <2>2 DEF Spent, InTurn
  <2> QED
    BY <2>3, <2>4
<1> QED
  BY <1>2, <1>3, <1>4, <1>5, <1>6, <1>7 DEF Turn

LEMMA StepTurns ==
  ASSUME TypeOK, \A o \in Objectives : ModeSound(o) /\ Spent(o), [Next]_vars,
         NEW p \in Objectives
  PROVE  ModeSound(p)' /\ Spent(p)'
<1>1. ASSUME NEW o \in Objectives, Turn(o) PROVE ModeSound(p)' /\ Spent(p)'
  <2>1. CASE p = o
    BY <1>1, <2>1, TurnKeeps
  <2>2. CASE p # o
    BY <1>1, <2>2, TurnIsOwn DEF ModeSound, Spent, InTurn
  <2> QED
    BY <2>1, <2>2
<1>2. CASE UNCHANGED <<kind, turnVars>>
  BY <1>2 DEF turnVars, ModeSound, Spent, InTurn
<1>3. CASE UNCHANGED vars
  BY <1>2, <1>3 DEF vars
<1> QED
  BY <1>1, <1>2, <1>3 DEF Next, Probe, Probed, Close, Closed

-----------------------------------------------------------------------------
(***************************************************************************)
(* The client.                                                             *)
(***************************************************************************)
LEMMA HttpKeeps == ASSUME TypeOK, ClientSound, Http, closing' = closing PROVE ClientSound'
<1>1. CASE client # 0
  BY <1>1 DEF Http, ClientSound, clientVars
<1>2. CASE client = 0
  <2>1. alive = {} /\ made + 1 # 0 /\ ~closing
    BY <1>2 DEF ClientSound, TypeOK
  <2> QED
    BY <1>2, <2>1 DEF Http, ClientSound
<1> QED
  BY <1>1, <1>2

LEMMA StepClient == ASSUME TypeOK, ClientSound, [Next]_vars PROVE ClientSound'
<1>1. ASSUME NEW o \in Objectives, Turn(o) PROVE ClientSound'
  <2>1. closing' = closing /\ (Http \/ UNCHANGED clientVars)
    BY <1>1 DEF Turn, Ask, Accepted, Repaired, Rejected, Raises, Cancel, Sent, Fails
  <2> QED
    BY <2>1, HttpKeeps DEF ClientSound, clientVars
<1>2. ASSUME NEW h \in Probes, Probe(h) PROVE ClientSound'
  BY <1>2, HttpKeeps DEF Probe
<1>3. ASSUME NEW h \in Probes, Probed(h) PROVE ClientSound'
  BY <1>3 DEF Probed, ClientSound, clientVars
<1>4. CASE Close
  BY <1>4 DEF Close, ClientSound
<1>5. CASE Closed
  BY <1>5 DEF Closed, ClientSound
<1>6. CASE UNCHANGED vars
  BY <1>6 DEF vars, ClientSound, clientVars
<1> QED
  BY <1>1, <1>2, <1>3, <1>4, <1>5, <1>6 DEF Next

-----------------------------------------------------------------------------
(***************************************************************************)
(* The theorems.                                                           *)
(***************************************************************************)
LEMMA InitIInv == Init => IInv
<1> SUFFICES ASSUME Init PROVE IInv
  OBVIOUS
<1>1. TypeOK
  BY InitTypeOK
<1>2. \A o \in Objectives : ModeSound(o)
  BY DEF Init, ModeSound, InTurn
<1>3. \A o \in Objectives : Spent(o)
  BY AllowanceGrows DEF Init, Spent, InTurn
<1>4. ClientSound
  BY DEF Init, ClientSound
<1> QED
  BY <1>1, <1>2, <1>3, <1>4 DEF IInv

\* However turns, probes and stops interleave, the account, the context and the
\* client of every objective are as IInv says.
THEOREM Invariance == Spec => []IInv
<1>1. ASSUME IInv, [Next]_vars PROVE IInv'
  <2>1. TypeOK'
    BY <1>1, StepTypeOK DEF IInv
  <2>2. \A o \in Objectives : ModeSound(o)' /\ Spent(o)'
    BY <1>1, StepTurns DEF IInv
  <2>3. ClientSound'
    BY <1>1, StepClient DEF IInv
  <2> QED
    BY <2>1, <2>2, <2>3 DEF IInv
<1> QED
  BY InitIInv, <1>1, PTL DEF Spec

\* Every variable keeps its type (models/base.py, models/ollama.py).
THEOREM TypeCorrect == Spec => []TypeOK
<1>1. IInv => TypeOK
  BY DEF IInv
<1> QED
  BY Invariance, <1>1, PTL

\* No objective's request loses JSON mode to another's turn, and none gains it
\* (_JSON_MODE).
THEOREM ModesAreOwn == Spec => []JsonModeIsOwn
<1>1. IInv => JsonModeIsOwn
  BY DEF IInv, ModeSound, JsonModeIsOwn
<1> QED
  BY Invariance, <1>1, PTL

\* Requests stay within what the turns allow, and a turn ends as its last reply
\* was (ModelProvider.generate_structured, Agent._ask).
THEOREM TurnsAddUp == Spec => []TurnsAreAccounted
<1>1. ASSUME IInv PROVE TurnsAreAccounted
  <2> SUFFICES ASSUME NEW o \in Objectives
               PROVE  /\ calls[o] <= turns[o] /\ requests[o] <= (MaxRepairs + 1) * turns[o]
                      /\ turn[o].outcome = "answered" => turn[o].last = "accepted"
                      /\ turn[o].outcome = "failed" =>
                           turn[o].last = "error"
                             \/ (turn[o].last = "rejected" /\ turn[o].asked = MaxRepairs + 1)
    BY DEF TurnsAreAccounted
  <2>1. Spent(o)
    BY <1>1 DEF IInv
  <2> QED
    BY <2>1 DEF Spent, Allowance
<1> QED
  BY Invariance, <1>1, PTL

\* A client that is open is the one the next aclose finds (OllamaProvider.aclose,
\* OpenAICompatibleProvider.aclose).
THEOREM ClientsAreFound == Spec => []NoClientIsLost
<1>1. IInv => NoClientIsLost
  BY DEF IInv, ClientSound, NoClientIsLost
<1> QED
  BY Invariance, <1>1, PTL
=============================================================================

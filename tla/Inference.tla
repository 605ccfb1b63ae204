------------------------------- MODULE Inference -------------------------------
(***************************************************************************)
(* The agents' turns with the model (agents/base.py), the rounds of repair *)
(* of a turn (models/base.py), and the one provider all of them share      *)
(* (models/registry.py), with its lazily made HTTP client and, for Ollama, *)
(* the context variable that asks for JSON (models/ollama.py,              *)
(* models/openai_compat.py).  Health probes use the same client, and       *)
(* Runtime.stop closes it whoever is using it.                             *)
(*                                                                         *)
(* A coroutine runs until it awaits the server, so a turn's first request  *)
(* leaves in the step that begins the turn and a repair in the step that   *)
(* rejects a reply.  Of a reply there is only what the caller makes of it. *)
(***************************************************************************)
EXTENDS Naturals, FiniteSets

CONSTANTS
  Objectives,  \* running objectives, each a task with a context of its own
  Probes,      \* calls of health_check
  MaxRepairs,  \* rounds of repair of a turn
  MaxTurns,    \* bound: turns of an objective
  MaxCloses    \* bound: how often the runtime is stopped

ASSUME InferenceAssumption ==
  MaxRepairs \in Nat /\ MaxTurns \in Nat /\ MaxCloses \in Nat

VARIABLES
  kind,     \* the provider: Ollama, or an OpenAI-compatible one with or without a key
  mode,     \* _JSON_MODE, in the context of each objective's task
  json,     \* whether the request under way asks for JSON
  turn,     \* the last turn: its requests, the last verdict, and how it ended
  calls,    \* task.model_calls
  turns,    \* history: turns that were begun
  requests, \* history: requests that were sent
  client,   \* _client, 0 when there is none
  made,     \* how many clients were made
  alive,    \* clients that have not been closed
  closes,   \* how often aclose was called
  closing,  \* whether aclose awaits the end of the connections
  probing   \* probes that await the server

turnVars == <<mode, json, turn, calls, turns, requests>>
clientVars == <<client, made, alive>>
vars == <<kind, turnVars, clientVars, closes, closing, probing>>

Kinds == {"ollama", "openai", "keyless"}
Verdicts == {"none", "accepted", "rejected", "error"}
Outcomes == {"none", "asking", "answered", "failed", "cancelled"}

Init ==
  /\ kind \in Kinds
  /\ mode = [o \in Objectives |-> FALSE] /\ json = [o \in Objectives |-> FALSE]
  /\ turn = [o \in Objectives |-> [asked |-> 0, last |-> "none", outcome |-> "none"]]
  /\ calls = [o \in Objectives |-> 0]
  /\ turns = [o \in Objectives |-> 0] /\ requests = [o \in Objectives |-> 0]
  /\ client = 0 /\ made = 0 /\ alive = {}
  /\ closes = 0 /\ closing = FALSE /\ probing = {}

InTurn(o) == turn[o].outcome = "asking"

-----------------------------------------------------------------------------
(***************************************************************************)
(* The shared client.                                                      *)
(***************************************************************************)
\* _http: the client there is, or a new one.
Http ==
  IF client # 0 THEN UNCHANGED clientVars
  ELSE made' = made + 1 /\ client' = made + 1 /\ alive' = alive \cup {made + 1}

\* Without a key nothing is sent; a client that is being closed still is
\* _client, and refuses.
Sendable == kind # "keyless" /\ (client = 0 \/ client \in alive)

\* aclose: the client counts as closed before its connections are.
Close ==
  /\ client # 0 /\ ~closing /\ closes < MaxCloses
  /\ closes' = closes + 1 /\ closing' = TRUE
  /\ alive' = alive \ {client}
  /\ UNCHANGED <<kind, turnVars, client, made, probing>>

Closed ==
  /\ closing
  /\ closing' = FALSE /\ client' = 0
  /\ UNCHANGED <<kind, turnVars, made, alive, closes, probing>>

\* health_check, which answers at once when nothing can be sent.
Probe(h) ==
  /\ h \notin probing
  /\ Sendable /\ Http
  /\ probing' = probing \cup {h}
  /\ UNCHANGED <<kind, turnVars, closes, closing>>

\* The server, an error or the timeout answers it.
Probed(h) ==
  /\ h \in probing
  /\ probing' = probing \ {h}
  /\ UNCHANGED <<kind, turnVars, clientVars, closes, closing>>

-----------------------------------------------------------------------------
(***************************************************************************)
(* A turn.                                                                 *)
(***************************************************************************)
\* What the turn of o has come to.
Becomes(o, n, verdict, outcome) ==
  turn' = [turn EXCEPT ![o] = [asked |-> n, last |-> verdict, outcome |-> outcome]]

\* generate, up to its await: request n of this turn, in the mode of o's context.
Sent(o, n) ==
  /\ Sendable /\ Http
  /\ json' = [json EXCEPT ![o] = mode'[o]]
  /\ requests' = [requests EXCEPT ![o] = @ + 1]
  /\ Becomes(o, n, "none", "asking")

\* Mutant: the mode is an attribute of the provider that all objectives share.
LeaveAll(o) == mode' = [p \in Objectives |-> FALSE]

\* The finally of generate_structured: the mode is what it was before the turn.
Leave(o) == mode' = [mode EXCEPT ![o] = FALSE]

\* generate raises, or has raised; a provider's error is not repaired.
Fails(o, n) ==
  /\ Leave(o) /\ Becomes(o, n, "error", "failed")
  /\ UNCHANGED <<json, requests, clientVars>>

\* _ask, generate_structured and its first generate.
Ask(o) ==
  /\ ~InTurn(o) /\ turns[o] < MaxTurns
  /\ turns' = [turns EXCEPT ![o] = @ + 1]
  /\ \/ mode' = [mode EXCEPT ![o] = kind = "ollama"] /\ Sent(o, 1)
     \/ ~Sendable /\ Fails(o, 0)
  /\ UNCHANGED <<kind, calls, closes, closing, probing>>

\* The reply holds a document that validates.
Accepted(o) ==
  /\ InTurn(o)
  /\ Leave(o) /\ Becomes(o, turn[o].asked, "accepted", "answered")
  /\ calls' = [calls EXCEPT ![o] = @ + 1]
  /\ UNCHANGED <<kind, json, turns, requests, clientVars, closes, closing, probing>>

\* Mutant: one repair too many.
RepairedOnceMore(o) ==
  /\ InTurn(o) /\ turn[o].asked <= MaxRepairs + 1
  /\ \/ UNCHANGED mode /\ Sent(o, turn[o].asked + 1)
     \/ ~Sendable /\ Fails(o, turn[o].asked)
  /\ UNCHANGED <<kind, calls, turns, closes, closing, probing>>

\* It does not, and the conversation that says so is sent.
Repaired(o) ==
  /\ InTurn(o) /\ turn[o].asked <= MaxRepairs
  /\ \/ UNCHANGED mode /\ Sent(o, turn[o].asked + 1)
     \/ ~Sendable /\ Fails(o, turn[o].asked)
  /\ UNCHANGED <<kind, calls, turns, closes, closing, probing>>

\* It does not, and nothing is left to try.
Rejected(o) ==
  /\ InTurn(o) /\ turn[o].asked > MaxRepairs
  /\ Leave(o) /\ Becomes(o, turn[o].asked, "rejected", "failed")
  /\ UNCHANGED <<kind, json, calls, turns, requests, clientVars, closes, closing, probing>>

\* The server cannot be reached, is late, or answers with an error or nonsense.
Raises(o) ==
  /\ InTurn(o) /\ Fails(o, turn[o].asked)
  /\ UNCHANGED <<kind, calls, turns, closes, closing, probing>>

\* The objective's task is cancelled while it awaits the server.
Cancel(o) ==
  /\ InTurn(o)
  /\ Leave(o) /\ Becomes(o, turn[o].asked, turn[o].last, "cancelled")
  /\ UNCHANGED <<kind, json, calls, turns, requests, clientVars, closes, closing, probing>>

-----------------------------------------------------------------------------
Turn(o) ==
  Ask(o) \/ Accepted(o) \/ Repaired(o) \/ Rejected(o) \/ Raises(o) \/ Cancel(o)

Next ==
  \/ \E o \in Objectives : Turn(o)
  \/ \E h \in Probes : Probe(h) \/ Probed(h)
  \/ Close \/ Closed

Spec == Init /\ [][Next]_vars

-----------------------------------------------------------------------------
\* Every variable keeps its type (models/base.py, models/ollama.py).
TypeOK ==
  /\ kind \in Kinds
  /\ mode \in [Objectives -> BOOLEAN] /\ json \in [Objectives -> BOOLEAN]
  /\ turn \in [Objectives -> [asked : Nat, last : Verdicts, outcome : Outcomes]]
  /\ calls \in [Objectives -> Nat]
  /\ turns \in [Objectives -> Nat] /\ requests \in [Objectives -> Nat]
  /\ client \in Nat /\ made \in Nat /\ alive \subseteq Nat
  /\ closes \in Nat /\ closing \in BOOLEAN /\ probing \subseteq Probes

\* Every request of a turn asks Ollama for JSON, the repairs included, and the
\* context of an objective that is in no turn does not, whatever the other
\* objectives that share the provider begin and end meanwhile.
JsonModeIsOwn ==
  \A o \in Objectives : IF InTurn(o) THEN json[o] = (kind = "ollama") ELSE ~mode[o]

\* The requests of an objective stay within those its turns may take, of which
\* only the turns that were answered count as model calls; and a turn ends as
\* its last reply was: nothing rejected is returned, no error is repaired.
TurnsAreAccounted ==
  \A o \in Objectives :
    /\ calls[o] <= turns[o] /\ requests[o] <= (MaxRepairs + 1) * turns[o]
    /\ turn[o].outcome = "answered" => turn[o].last = "accepted"
    /\ turn[o].outcome = "failed" =>
         turn[o].last = "error" \/ (turn[o].last = "rejected" /\ turn[o].asked = MaxRepairs + 1)

\* A client that is open is the one the next aclose will close, also when turns
\* and probes go on while aclose waits and after it.
NoClientIsLost == alive \subseteq {client}
=============================================================================

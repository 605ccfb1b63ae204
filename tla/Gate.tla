--------------------------------- MODULE Gate ---------------------------------
(***************************************************************************)
(* The door of the HTTP API (interface/security.py over security/authn.py  *)
(* and security/authz.py), with the pepper both sides of a token need:     *)
(* commands issue tokens under the key they resolved, the daemon verifies  *)
(* requests under its own.  The lifespan upgrades the authenticator before *)
(* the server accepts a request (interface/api.py, create_app).            *)
(*                                                                         *)
(* Module Credentials follows a credential through its life and its races; *)
(* here a token is issued, retired, presented, and the answer to a request *)
(* is compared with what is recorded of it.  Everything between two awaits *)
(* of a request is one step.                                               *)
(***************************************************************************)
EXTENDS Pepper

CONSTANTS
  Api,              \* the daemon, one of Procs; the others are commands
  Tokens,           \* tokens, each issued at most once
  NoToken,
  Scopes,           \* capabilities
  SystemRead,       \* the one that GET /health shows its detail for
  Requests,         \* HTTP requests, one each
  LegacyConfigured, \* whether SCRAPPY_API_TOKEN holds more than blanks
  LegacyScopes      \* and what it grants

ASSUME GateAssumption ==
  /\ Api \in Procs
  /\ SystemRead \in Scopes
  /\ NoToken \notin Tokens
  /\ LegacyConfigured \in BOOLEAN
  /\ LegacyScopes \subseteq Scopes
  /\ Tokens \cap {"anonymous", "legacy"} = {}
  /\ "health" \notin Scopes

VARIABLES
  rows,   \* the credentials table
  req,    \* each request: what it presents, where it is, its locals
  trail   \* each request: the audit events recorded of it

gateVars == <<rows, req, trail>>
vars == <<pepperVars, gateVars>>

-----------------------------------------------------------------------------
\* A row: the key its verifier was made with, and the key that was configured
\* for the command that made it (history).
Row == [status : {"absent", "active", "revoked", "expired"}, scopes : SUBSET Scopes,
        key : Procs \cup Keys \cup {None}, from : Keys \cup {Unset, Short}]

NoRow == [status |-> "absent", scopes |-> {}, key |-> None, from |-> Unset]

\* The Authorization headers of a request: none, or a first one - blank, no
\* `Bearer <token>`, a token that is not of our format (the legacy one or
\* another), or one of ours, with the right secret or not - and maybe more.
Header ==
  [kind : {"none"}, token : {NoToken}, genuine : {FALSE}, more : {FALSE}]
    \cup [kind : {"blank", "malformed", "legacy", "foreign"},
          token : {NoToken}, genuine : {FALSE}, more : BOOLEAN]
    \cup [kind : {"token"}, token : Tokens, genuine : BOOLEAN, more : BOOLEAN]

\* AuthFailureReason, refined by AuthFailureDetail where there is one.
Reasons == {"missing", "malformed", "duplicate", "unknown", "unconfigured",
            "no_such_credential", "secret_mismatch", "revoked", "expired"}

Ended == {"unauthorized", "forbidden", "served", "thin", "detailed", "error", "dropped"}

Places == {"away", "arrived", "looking", "touching", "failing", "proved", "denied"} \cup Ended

Actors == Tokens \cup {"legacy", "anonymous"}

Request == [at : Places, header : Header, need : Scopes \cup {"health"}, actor : Actors,
            reason : Reasons \cup {"no_reason"}, scopes : SUBSET Scopes]

NoHeader == [kind |-> "none", token |-> NoToken, genuine |-> FALSE, more |-> FALSE]

Away == [at |-> "away", header |-> NoHeader, need |-> "health",
         actor |-> "anonymous", reason |-> "no_reason", scopes |-> {}]

Event == [what : {"failed", "succeeded", "denied"}, actor : Actors,
          reason : Reasons \cup {"no_reason"}]

Init ==
  /\ PepperInit
  /\ rows = [k \in Tokens |-> NoRow]
  /\ req = [r \in Requests |-> Away]
  /\ trail = [r \in Requests |-> {}]

-----------------------------------------------------------------------------
(***************************************************************************)
(* The other processes, and time.                                          *)
(***************************************************************************)
\* token create: the command issues under the pepper it resolved, and ends.
Issue(p, k) ==
  /\ p # Api /\ run[p] = "up" /\ rows[k].status = "absent"
  /\ \E granted \in (SUBSET Scopes) \ {{}} :
       rows' = [rows EXCEPT ![k] = [status |-> "active", scopes |-> granted,
                                    key |-> pepper[p], from |-> env[p]]]
  /\ Exit(p)
  /\ UNCHANGED <<req, trail>>

\* token revoke, by a command; or the token's date passes.
Retire(k) ==
  /\ rows[k].status = "active"
  /\ \/ /\ rows' = [rows EXCEPT ![k].status = "revoked"]
        /\ \E p \in Procs \ {Api} : run[p] = "up" /\ Exit(p)
     \/ /\ rows' = [rows EXCEPT ![k].status = "expired"]
        /\ UNCHANGED pepperVars
  /\ UNCHANGED <<req, trail>>

\* A process resolves its pepper, or ends; the daemon's requests end with it.
Resolve(p) ==
  /\ \/ PepperStep(p) /\ UNCHANGED req
     \/ p # Api /\ Exit(p) /\ UNCHANGED req
     \/ /\ p = Api /\ Exit(p)
        /\ req' = [r \in Requests |->
                     IF req[r].at \in Ended \cup {"away"} THEN req[r]
                     ELSE [req[r] EXCEPT !.at = "dropped"]]
  /\ UNCHANGED <<rows, trail>>

-----------------------------------------------------------------------------
(***************************************************************************)
(* A request.                                                              *)
(***************************************************************************)
Move(r, place) == req' = [req EXCEPT ![r].at = place]

Refuse(r, reason) == req' = [req EXCEPT ![r].at = "failing", ![r].reason = reason]

Identify(r, actor, scopes) ==
  req' = [req EXCEPT ![r].at = "proved", ![r].actor = actor, ![r].scopes = scopes]

\* Mutant: the first header is taken, and the others dropped.
AmbiguousNever(header) == FALSE

\* More than one header is refused: which one counts has no single answer.
Ambiguous(header) == header.more

\* What the authenticator says of one header before it reads the store.
Recognise(r) ==
  LET kind == req[r].header.kind
  IN \/ kind \in {"none", "blank"} /\ Refuse(r, "missing")
     \/ kind = "malformed" /\ Refuse(r, "malformed")
     \/ kind \in {"legacy", "foreign"} /\ ~LegacyConfigured /\ Refuse(r, "unconfigured")
     \/ kind = "foreign" /\ LegacyConfigured /\ Refuse(r, "unknown")
     \/ kind = "legacy" /\ LegacyConfigured /\ Identify(r, "legacy", LegacyScopes)
     \/ kind = "token" /\ Move(r, "looking")

\* authenticate_request up to its first await; optional_identity answers a
\* request for /health that carries no header at all without it.
Parse(r) ==
  /\ req[r].at = "arrived"
  /\ IF req[r].header.kind = "none" /\ req[r].need = "health" THEN Move(r, "thin")
     ELSE IF Ambiguous(req[r].header) THEN Refuse(r, "duplicate")
     ELSE Recognise(r)
  /\ UNCHANGED <<pepperVars, rows, trail>>

Arrive(r) ==
  /\ req[r].at = "away" /\ run[Api] = "up"
  /\ \E header \in Header, need \in Scopes \cup {"health"} :
       req' = [req EXCEPT ![r].at = "arrived", ![r].header = header, ![r].need = need]
  /\ UNCHANGED <<pepperVars, rows, trail>>

\* Mutant: the status is looked at first.
VerdictStatusFirst(header) ==
  LET row == rows[header.token]
  IN CASE row.status = "absent" -> "no_such_credential"
       [] row.status \in {"revoked", "expired"} -> row.status
       [] row.status = "active" /\ ~(header.genuine /\ row.key = pepper[Api]) -> "secret_mismatch"
       [] OTHER -> "no_reason"

\* The secret is checked before the row's status is looked at.
Verdict(header) ==
  LET row == rows[header.token]
  IN CASE row.status = "absent" -> "no_such_credential"
       [] row.status # "absent" /\ ~(header.genuine /\ row.key = pepper[Api]) -> "secret_mismatch"
       [] row.status \in {"revoked", "expired"} /\ header.genuine /\ row.key = pepper[Api] -> row.status
       [] OTHER -> "no_reason"

\* CredentialAuthenticator.authenticate: the row is back from the store.
LookUp(r) ==
  LET header == req[r].header
  IN /\ req[r].at = "looking"
     /\ \/ Verdict(header) # "no_reason" /\ Refuse(r, Verdict(header))
        \/ Verdict(header) = "no_reason" /\ Move(r, "touching")
     /\ UNCHANGED <<pepperVars, rows, trail>>

\* The store raises: nobody catches it, on /health neither.
LookUpRaises(r) ==
  /\ req[r].at = "looking"
  /\ Move(r, "error")
  /\ UNCHANGED <<pepperVars, rows, trail>>

\* on_authenticated has written last_used_at, or failed to: either way the
\* identity stands, with the scopes of the row that was read.
Touch(r) ==
  /\ req[r].at = "touching"
  /\ Identify(r, req[r].header.token, rows[req[r].header.token].scopes)
  /\ UNCHANGED <<pepperVars, rows, trail>>

\* _record: the event is written, or lost with a warning.
Noting(r, event) == trail' \in {trail, [trail EXCEPT ![r] = @ \cup {event}]}

\* AUTH_FAILED and 401; on /health the caller is anonymous instead.
Fail(r) ==
  /\ req[r].at = "failing"
  /\ Noting(r, [what |-> "failed", actor |-> "anonymous", reason |-> req[r].reason])
  /\ Move(r, IF req[r].need = "health" THEN "thin" ELSE "unauthorized")
  /\ UNCHANGED <<pepperVars, rows>>

\* Authorizer.evaluate.
Allowed(r) == req[r].actor # "anonymous" /\ req[r].need \in req[r].scopes

\* AUTH_SUCCEEDED, then the verdict.
Succeed(r) ==
  /\ req[r].at = "proved"
  /\ Noting(r, [what |-> "succeeded", actor |-> req[r].actor, reason |-> "no_reason"])
  /\ Move(r, CASE req[r].need = "health" /\ SystemRead \in req[r].scopes -> "detailed"
               [] req[r].need = "health" /\ SystemRead \notin req[r].scopes -> "thin"
               [] req[r].need # "health" /\ Allowed(r) -> "served"
               [] req[r].need # "health" /\ ~Allowed(r) -> "denied")
  /\ UNCHANGED <<pepperVars, rows>>

\* Mutant: the denied caller is recorded as the anonymous one.
DenyAnonymous(r) ==
  /\ req[r].at = "denied"
  /\ Noting(r, [what |-> "denied", actor |-> "anonymous", reason |-> "no_reason"])
  /\ Move(r, "forbidden")
  /\ UNCHANGED <<pepperVars, rows>>

\* AUTHZ_DENIED and 403.
Deny(r) ==
  /\ req[r].at = "denied"
  /\ Noting(r, [what |-> "denied", actor |-> req[r].actor, reason |-> "no_reason"])
  /\ Move(r, "forbidden")
  /\ UNCHANGED <<pepperVars, rows>>

Handle(r) ==
  \/ Parse(r) \/ LookUp(r) \/ LookUpRaises(r) \/ Touch(r)
  \/ Fail(r) \/ Succeed(r) \/ Deny(r)

Next ==
  \/ \E p \in Procs : Resolve(p)
  \/ \E p \in Procs, k \in Tokens : Issue(p, k)
  \/ \E k \in Tokens : Retire(k)
  \/ \E r \in Requests : Arrive(r) \/ Handle(r)

Spec == Init /\ [][Next]_vars

-----------------------------------------------------------------------------
\* Every variable keeps its type (interface/security.py, security/authn.py).
TypeOK ==
  /\ PepperTypeOK
  /\ rows \in [Tokens -> Row]
  /\ req \in [Requests -> Request]
  /\ trail \in [Requests -> SUBSET Event]

\* A token with the right secret is refused as a mismatch only if the command
\* that issued it found another pepper configured than the daemon did: two
\* first starts that race for the file never cost anybody a token.
GenuineVerifies(r) ==
  req[r].at = "failing" /\ req[r].reason = "secret_mismatch" /\ req[r].header.genuine
    => rows[req[r].header.token].from # env[Api]

GenuineTokensVerify == \A r \in Requests : GenuineVerifies(r)

\* What is answered as one caller was proved with exactly one header: the
\* configured legacy token, or a token whose secret is right and whose row
\* grants what the endpoint asks for.
Proves(header, scope) ==
  /\ ~header.more
  /\ \/ header.kind = "legacy" /\ LegacyConfigured /\ scope \in LegacyScopes
     \/ header.kind = "token" /\ header.genuine /\ scope \in rows[header.token].scopes

GrantedWasProved ==
  \A r \in Requests :
    /\ req[r].at = "served" => Proves(req[r].header, req[r].need)
    /\ req[r].at = "detailed" => Proves(req[r].header, SystemRead)

\* The detail an operator reads is the truth: a holder was told apart from
\* somebody who guesses.  Only the holder of a credential is recorded as
\* having presented one that is revoked or expired, and the id is real.
DetailIsHonest ==
  \A r \in Requests : \A event \in trail[r] :
    /\ event.reason \in {"revoked", "expired"}
         => req[r].header.genuine /\ rows[req[r].header.token].status = event.reason
    /\ event.reason = "secret_mismatch" => rows[req[r].header.token].status # "absent"
    /\ event.reason = "no_such_credential" => req[r].header.kind = "token"

\* The trail and the answer agree, whatever was lost of the trail: no request
\* is recorded as failed and as proved, a refusal names whoever was proved, and
\* a caller who was served or refused 403 is nowhere recorded as having failed.
OneStory(r) ==
  \A event \in trail[r] :
    /\ event.what = "failed" =>
         req[r].at \in {"unauthorized", "thin"} /\ req[r].actor = "anonymous"
    /\ event.what = "succeeded" =>
         req[r].at \in {"served", "thin", "detailed", "denied", "forbidden", "dropped"}
    /\ event.what = "denied" => req[r].at = "forbidden" /\ ~Allowed(r)
    /\ event.what # "failed" => event.actor = req[r].actor /\ event.actor # "anonymous"

TrailTellsOneStory == \A r \in Requests : OneStory(r)

-----------------------------------------------------------------------------
\* What makes them inductive.
InFlight == {"arrived", "looking", "touching", "failing", "proved", "denied"}

\* A row keeps the key that its command resolved: the one in the file, which
\* is there to stay, unless it found one configured.
RowsSound ==
  \A k \in Tokens : rows[k].status # "absent" =>
    /\ rows[k].from # Short
    /\ rows[k].key = IF rows[k].from = Unset THEN file ELSE rows[k].from
    /\ rows[k].from = Unset => file \in Procs

\* What is known of a request whose caller was identified.
Identified(r) ==
  LET header == req[r].header
  IN /\ ~header.more
     /\ \/ /\ header.kind = "legacy" /\ LegacyConfigured
           /\ req[r].actor = "legacy" /\ req[r].scopes = LegacyScopes
        \/ /\ header.kind = "token" /\ header.genuine /\ rows[header.token].status # "absent"
           /\ req[r].actor = header.token /\ req[r].scopes = rows[header.token].scopes

RequestSound(r) ==
  LET header == req[r].header
  IN /\ req[r].at \in InFlight => run[Api] = "up"
     /\ req[r].at \in {"looking", "touching"} => header.kind = "token" /\ ~header.more
     /\ req[r].at = "touching" => header.genuine /\ rows[header.token].status # "absent"
     /\ req[r].at \in {"away", "arrived", "looking", "touching"} =>
          req[r].reason = "no_reason" /\ req[r].actor = "anonymous"
     /\ req[r].at \in {"failing", "unauthorized"} => req[r].actor = "anonymous"
     /\ req[r].at \in {"proved", "denied", "served", "detailed", "forbidden"} => Identified(r)
     /\ req[r].at = "served" => req[r].need \in req[r].scopes
     /\ req[r].at = "detailed" => SystemRead \in req[r].scopes
     /\ req[r].at \in {"denied", "forbidden"} => req[r].need \notin req[r].scopes
     /\ req[r].at \in {"away", "arrived", "looking", "touching", "failing", "proved"} => trail[r] = {}

\* What a refusal is about is so, and a row does not change after it.
ReasonSound(r) ==
  LET header == req[r].header
  IN /\ req[r].reason \in {"revoked", "expired"} =>
          header.kind = "token" /\ header.genuine /\ rows[header.token].status = req[r].reason
     /\ req[r].reason = "secret_mismatch" =>
          header.kind = "token" /\ rows[header.token].status # "absent"
     /\ req[r].reason = "no_such_credential" => header.kind = "token"

Sound(r) ==
  /\ RequestSound(r)
  /\ ReasonSound(r)
  /\ GenuineVerifies(r)
  /\ OneStory(r)
  /\ \A event \in trail[r] : event.reason \in {"no_reason", req[r].reason}

IInv ==
  /\ TypeOK
  /\ PepperInv
  /\ RowsSound
  /\ \A r \in Requests : Sound(r)
=============================================================================

---------------------------- MODULE Credentials ----------------------------
(***************************************************************************)
(* The credentials table and everyone who touches it: `scrappy token`      *)
(* commands (security/credential_service.py over credential_store.py, each *)
(* command a process of its own) and the requests of the server, which     *)
(* authenticate against the table (security/authn.py) and are then         *)
(* authorised (interface/security.py).                                     *)
(*                                                                         *)
(* One SQL statement, or one transaction, is one step: the processes share *)
(* the file and SQLite commits them whole.  Everything between two of them *)
(* is an await, and somebody else may act there.                           *)
(***************************************************************************)
EXTENDS Naturals

CONSTANTS
    Ids,               \* credential ids, each minted at most once
    Scopes,            \* capabilities
    Operators,         \* scrappy token commands, one each
    Requests,          \* HTTP requests, one each
    Horizon,           \* the last instant of the clock
    ExpiryDates,       \* the instants operators choose from for an expiry
    Resolution,        \* LAST_USED_RESOLUTION
    LegacyConfigured,  \* whether SCRAPPY_API_TOKEN is set
    LegacyScopes       \* and what it grants

\* What a request can present besides a token of ours: the configured legacy
\* token, or nothing that parse_bearer and the legacy authenticator accept.
OtherHeaders == {"nothing", "legacy"}

ASSUME CredentialAssumption ==
    /\ Horizon \in Nat \ {0}
    /\ ExpiryDates \subseteq 1..Horizon
    /\ Resolution \in Nat
    /\ LegacyConfigured \in BOOLEAN
    /\ LegacyScopes \subseteq Scopes
    /\ Ids \cap (OtherHeaders \cup {"anonymous"}) = {}
    /\ "public" \notin Scopes

Never   == 0
Instant == 0..Horizon

VARIABLES
    rows,        \* the credentials table
    minted,      \* history: ids ever inserted
    withdrawn,   \* history: every revoked_at a row was given
    trail,       \* audit events about credentials
    now,         \* the clock every process reads
    op,          \* each command: where it is and its locals
    req          \* each request: where it is and its locals

vars == <<rows, minted, withdrawn, trail, now, op, req>>

Row == [stored : BOOLEAN, scopes : SUBSET Scopes, expires : Instant,
        revoked : Instant, used : Instant]

NoRow == [stored |-> FALSE, scopes |-> {}, expires |-> Never,
          revoked |-> Never, used |-> Never]

Fresh(scopes, expires) ==
    [stored |-> TRUE, scopes |-> scopes, expires |-> expires,
     revoked |-> Never, used |-> Never]

(***************************************************************************)
(* Credential.status_at: revocation first, then expiry.                    *)
(***************************************************************************)
Status(row, t) ==
    IF row.revoked # Never THEN "revoked"
    ELSE IF row.expires # Never /\ t >= row.expires THEN "expired"
    ELSE "active"

Usable(c) == rows[c].stored /\ Status(rows[c], now) = "active"

\* revoked_at or expires_at: a revocation hides an earlier expiry.
Retired(row) == IF row.revoked # Never THEN row.revoked ELSE row.expires

\* Mutant: the status is not looked at.
EligibleByDate(moment, cutoff) ==
    {c \in Ids : /\ rows[c].stored
                 /\ Retired(rows[c]) # Never
                 /\ Retired(rows[c]) < cutoff}

\* The retention rule of prune, and of its preview.
Eligible(moment, cutoff) ==
    {c \in Ids : /\ rows[c].stored
                 /\ Status(rows[c], moment) # "active"
                 /\ Retired(rows[c]) # Never
                 /\ Retired(rows[c]) < cutoff}

----------------------------------------------------------------------------
Commands == {"create", "rotate", "revoke", "prune"}
Steps    == {"idle", "begun", "got", "read", "written", "rotated", "shown",
             "listed", "done"}
Command  == [at : Steps, cmd : Commands \cup {"no_command"},
             id : Ids \cup {"no_id"}, new : Ids \cup {"no_id"},
             moment : Instant, previous : Row,
             expires : Instant, revoking : BOOLEAN, doomed : SUBSET Ids,
             cutoff : Instant]

Idle == [at |-> "idle", cmd |-> "no_command", id |-> "no_id", new |-> "no_id",
         moment |-> Never, previous |-> NoRow, expires |-> Never,
         revoking |-> FALSE, doomed |-> {}, cutoff |-> Never]

Places  == {"away", "arrived", "touching", "identified", "served",
            "unauthenticated", "forbidden"}
Request == [at : Places, header : Ids \cup OtherHeaders, genuine : BOOLEAN,
            need : Scopes \cup {"public"},
            actor : Ids \cup {"legacy", "anonymous"},
            scopes : SUBSET Scopes, when : Instant, dead : BOOLEAN]

Away == [at |-> "away", header |-> "nothing", genuine |-> FALSE,
         need |-> "public", actor |-> "anonymous", scopes |-> {},
         when |-> Never, dead |-> FALSE]

Events == [kind : {"created", "rotated", "revoked", "pruned"}, id : Ids]

Record(kind, c) == trail' = trail \cup {[kind |-> kind, id |-> c]}

Expiries(t) == {Never} \cup {e \in ExpiryDates : e > t}

\* Earlier commands left some credentials behind, in force and audited.
FirstRows ==
  {NoRow} \cup {Fresh(s, e) : s \in (SUBSET Scopes) \ {{}}, e \in Expiries(1)}

Init ==
    /\ now = 1
    /\ rows \in [Ids -> FirstRows]
    /\ minted = {c \in Ids : rows[c].stored}
    /\ withdrawn = [c \in Ids |-> {}]
    /\ trail = {[kind |-> "created", id |-> c] : c \in minted}
    /\ op = [p \in Operators |-> Idle]
    /\ req = [r \in Requests |-> Away]

----------------------------------------------------------------------------
(***************************************************************************)
(* Commands.  `moment` is the instant the command read when it began.      *)
(***************************************************************************)
Go(p, step) == op' = [op EXCEPT ![p].at = step]
End(p)      == op' = [op EXCEPT ![p] = [Idle EXCEPT !.at = "done"]]

\* The table is written; what the command still needs is what it will record.
Written(p, n) ==
    op' = [op EXCEPT ![p] = [Idle EXCEPT !.at = "written", !.cmd = op[p].cmd,
                                         !.id = op[p].id, !.new = n,
                                         !.revoking = op[p].revoking,
                                         !.doomed = op[p].doomed]]

Begin(p, cmd, c) ==
    /\ op[p].at = "idle"
    /\ op' = [op EXCEPT ![p].at = "begun", ![p].cmd = cmd, ![p].id = c,
                        ![p].moment = now]
    /\ UNCHANGED <<rows, minted, withdrawn, trail, now, req>>

\* The process is killed, or a statement of its raises and rolls back: the
\* connection closes with nothing more applied.
Stop(p) ==
    /\ op[p].at \notin {"idle", "done"}
    /\ End(p)
    /\ UNCHANGED <<rows, minted, withdrawn, trail, now, req>>

NotFound(p) ==
    /\ op[p].cmd \in {"rotate", "revoke"}
    /\ op[p].at \in {"begun", "got"}
    /\ ~rows[op[p].id].stored
    /\ End(p)
    /\ UNCHANGED <<rows, minted, withdrawn, trail, now, req>>

Insert(n, row) ==
    /\ n \notin minted
    /\ minted' = minted \cup {n}
    /\ rows' = [rows EXCEPT ![n] = row]

Create(p, n, scopes, expires) ==
    /\ op[p].cmd = "create" /\ op[p].at = "begun"
    /\ scopes # {}
    /\ expires \in Expiries(op[p].moment)
    /\ Insert(n, Fresh(scopes, expires))
    /\ Written(p, n)
    /\ UNCHANGED <<withdrawn, trail, now, req>>

RecordCreated(p) ==
    /\ op[p].cmd = "create" /\ op[p].at = "written"
    /\ Record("created", op[p].new)
    /\ End(p)
    /\ UNCHANGED <<rows, minted, withdrawn, now, req>>

\* CredentialService.rotate reads the credential and issues its replacement...
RotateGet(p, revoking, expires) ==
    /\ op[p].cmd = "rotate" /\ op[p].at = "begun"
    /\ rows[op[p].id].stored
    /\ expires \in Expiries(now)
    /\ op' = [op EXCEPT ![p].at = "got", ![p].previous = rows[op[p].id],
                        ![p].revoking = revoking, ![p].expires = expires]
    /\ UNCHANGED <<rows, minted, withdrawn, trail, now, req>>

\* ... the store reads it again ...
RotateRead(p) ==
    /\ op[p].cmd = "rotate" /\ op[p].at = "got"
    /\ rows[op[p].id].stored
    /\ op' = [op EXCEPT ![p].at = "read", ![p].previous = rows[op[p].id]]
    /\ UNCHANGED <<rows, minted, withdrawn, trail, now, req>>

\* UPDATE credentials SET revoked_at: no row, no effect.
Revoked(table, c, t) ==
    IF table[c].stored THEN [table EXCEPT ![c].revoked = t] ELSE table

Withdraw(c, t) ==
    withdrawn' = IF rows[c].stored
                 THEN [withdrawn EXCEPT ![c] = @ \cup {t}] ELSE withdrawn

\* Mutant: the replacement is missing when the second statement is applied.
RotateCommitHalf(p, n) ==
    /\ op[p].cmd = "rotate" /\ op[p].at = "read"
    /\ n \notin minted
    /\ rows' = IF op[p].revoking
               THEN Revoked(rows, op[p].id, op[p].moment) ELSE rows
    /\ IF op[p].revoking THEN Withdraw(op[p].id, op[p].moment)
       ELSE UNCHANGED withdrawn
    /\ Written(p, n)
    /\ UNCHANGED <<minted, trail, now, req>>

\* Mutant: the original is spared if it was *not* revoked.
RotateCommitSpares(p, n) ==
    /\ op[p].cmd = "rotate" /\ op[p].at = "read"
    /\ n \notin minted
    /\ minted' = minted \cup {n}
    /\ rows' = [rows EXCEPT ![n] = Fresh(op[p].previous.scopes, op[p].expires)]
    /\ Written(p, n)
    /\ UNCHANGED <<withdrawn, trail, now, req>>

\* ... and its transaction inserts the one and may revoke the other.
RotateCommit(p, n) ==
    LET c        == op[p].id
        revokes  == op[p].revoking /\ op[p].previous.revoked = Never
        inserted == [rows EXCEPT ![n] = Fresh(op[p].previous.scopes, op[p].expires)]
    IN  /\ op[p].cmd = "rotate" /\ op[p].at = "read"
        /\ n \notin minted
        /\ minted' = minted \cup {n}
        /\ rows' = IF revokes THEN Revoked(inserted, c, op[p].moment) ELSE inserted
        /\ IF revokes THEN Withdraw(c, op[p].moment) ELSE UNCHANGED withdrawn
        /\ Written(p, n)
        /\ UNCHANGED <<trail, now, req>>

RecordRotated(p) ==
    /\ op[p].cmd = "rotate" /\ op[p].at = "written"
    /\ Record("rotated", op[p].new)
    /\ IF op[p].revoking THEN Go(p, "rotated") ELSE End(p)
    /\ UNCHANGED <<rows, minted, withdrawn, now, req>>

RecordRevoked(p) ==
    /\ \/ op[p].cmd = "rotate" /\ op[p].at = "rotated"
       \/ op[p].cmd = "revoke" /\ op[p].at = "written"
    /\ Record("revoked", op[p].id)
    /\ End(p)
    /\ UNCHANGED <<rows, minted, withdrawn, now, req>>

\* SqliteCredentialStore.revoke: a revoked row is returned as it is.
RevokeRead(p) ==
    /\ op[p].cmd = "revoke" /\ op[p].at = "begun"
    /\ rows[op[p].id].stored
    /\ IF rows[op[p].id].revoked # Never THEN Written(p, "no_id") ELSE Go(p, "read")
    /\ UNCHANGED <<rows, minted, withdrawn, trail, now, req>>

RevokeWrite(p) ==
    /\ op[p].cmd = "revoke" /\ op[p].at = "read"
    /\ rows' = Revoked(rows, op[p].id, op[p].moment)
    /\ Withdraw(op[p].id, op[p].moment)
    /\ Written(p, "no_id")
    /\ UNCHANGED <<minted, trail, now, req>>

\* token prune lists what would go and asks; the cutoff may be any instant.
PrunePreview(p, cutoff) ==
    /\ op[p].cmd = "prune" /\ op[p].at = "begun"
    /\ IF Eligible(op[p].moment, cutoff) = {} THEN End(p)
       ELSE op' = [op EXCEPT ![p].at = "shown", ![p].cutoff = cutoff]
    /\ UNCHANGED <<rows, minted, withdrawn, trail, now, req>>

\* Once confirmed (or Stop), CredentialService.prune makes its own list ...
PruneList(p) ==
    /\ op[p].cmd = "prune" /\ op[p].at = "shown"
    /\ LET doomed == Eligible(op[p].moment, op[p].cutoff)
       IN  IF doomed = {} THEN End(p)
           ELSE op' = [op EXCEPT ![p].at = "listed", ![p].doomed = doomed]
    /\ UNCHANGED <<rows, minted, withdrawn, trail, now, req>>

\* ... deletes it in one transaction, by id ...
PruneDelete(p) ==
    /\ op[p].cmd = "prune" /\ op[p].at = "listed"
    /\ rows' = [c \in Ids |-> IF c \in op[p].doomed THEN NoRow ELSE rows[c]]
    /\ Written(p, "no_id")
    /\ UNCHANGED <<minted, withdrawn, trail, now, req>>

\* ... and records each, one insert at a time.
RecordPruned(p, c) ==
    /\ op[p].cmd = "prune" /\ op[p].at = "written"
    /\ c \in op[p].doomed
    /\ Record("pruned", c)
    /\ IF op[p].doomed = {c} THEN End(p)
       ELSE op' = [op EXCEPT ![p].doomed = @ \ {c}]
    /\ UNCHANGED <<rows, minted, withdrawn, now, req>>

----------------------------------------------------------------------------
(***************************************************************************)
(* Requests.  A client holds the token of a credential only once it was    *)
(* stored: the command prints it last.                                     *)
(***************************************************************************)
Arrive(r, header, genuine, need) ==
    /\ req[r].at = "away"
    /\ header \in Ids => header \in minted
    /\ header \notin Ids => genuine = (header = "legacy")
    /\ req' = [req EXCEPT ![r].at = "arrived", ![r].header = header,
                          ![r].genuine = genuine, ![r].need = need,
                          ![r].dead = header \in Ids /\ ~Usable(header)]
    /\ UNCHANGED <<rows, minted, withdrawn, trail, now, op>>

\* optional_identity turns a refusal into an anonymous visitor.
Refuse(r) ==
    req' = [req EXCEPT ![r] = [Away EXCEPT !.at = IF req[r].need = "public"
                                                  THEN "served"
                                                  ELSE "unauthenticated"]]

Identify(r, actor, scopes) ==
    req' = [req EXCEPT ![r].at = "identified", ![r].actor = actor,
                       ![r].scopes = scopes]

\* last_used_at is written only when it is older than the resolution.
Stale(row) == row.used = Never \/ now - row.used >= Resolution

Recognise(r, c) ==
    IF Stale(rows[c])
    THEN req' = [req EXCEPT ![r].at = "touching", ![r].actor = c,
                            ![r].scopes = rows[c].scopes, ![r].when = now]
    ELSE Identify(r, c, rows[c].scopes)

\* parse_bearer, and the token that is not of our format.
OtherHeader(r) ==
    /\ req[r].at = "arrived" /\ req[r].header \notin Ids
    /\ IF req[r].header = "legacy" /\ LegacyConfigured
       THEN Identify(r, "legacy", LegacyScopes)
       ELSE Refuse(r)
    /\ UNCHANGED <<rows, minted, withdrawn, trail, now, op>>

\* Mutant: expiry is not looked at.
LookupUndated(r) ==
    LET c == req[r].header
    IN  /\ req[r].at = "arrived" /\ c \in Ids
        /\ IF rows[c].stored /\ req[r].genuine /\ rows[c].revoked = Never
           THEN Recognise(r, c)
           ELSE Refuse(r)
        /\ UNCHANGED <<rows, minted, withdrawn, trail, now, op>>

\* CredentialAuthenticator.authenticate: one read, and the clock after it.
Lookup(r) ==
    LET c == req[r].header
    IN  /\ req[r].at = "arrived" /\ c \in Ids
        /\ IF rows[c].stored /\ req[r].genuine /\ Status(rows[c], now) = "active"
           THEN Recognise(r, c)
           ELSE Refuse(r)
        /\ UNCHANGED <<rows, minted, withdrawn, trail, now, op>>

Proceed(r) ==
    req' = [req EXCEPT ![r].at = "identified", ![r].when = Never]

Touched(table, c, t) ==
    IF table[c].stored THEN [table EXCEPT ![c].used = t] ELSE table

\* Mutant: the row is saved as it was read, in force, with its last_used_at.
TouchSavesRow(r) ==
    /\ req[r].at = "touching"
    /\ rows' = [rows EXCEPT ![req[r].actor].used = req[r].when,
                            ![req[r].actor].revoked = Never]
    /\ Proceed(r)
    /\ UNCHANGED <<minted, withdrawn, trail, now, op>>

\* The on_authenticated hook; a failure of it is swallowed.
Touch(r) ==
    /\ req[r].at = "touching"
    /\ rows' \in {rows, Touched(rows, req[r].actor, req[r].when)}
    /\ Proceed(r)
    /\ UNCHANGED <<minted, withdrawn, trail, now, op>>

\* require_scope, after the success was audited.
Authorize(r) ==
    /\ req[r].at = "identified"
    /\ IF req[r].need = "public" \/ req[r].need \in req[r].scopes
       THEN req' = [req EXCEPT ![r].at = "served"]
       ELSE req' = [req EXCEPT ![r] = [Away EXCEPT !.at = "forbidden"]]
    /\ UNCHANGED <<rows, minted, withdrawn, trail, now, op>>

Tick ==
    /\ now < Horizon
    /\ now' = now + 1
    /\ UNCHANGED <<rows, minted, withdrawn, trail, op, req>>

CommandStep(p) ==
    \/ \E cmd \in {"rotate", "revoke"}, c \in minted : Begin(p, cmd, c)
    \/ \E cmd \in {"create", "prune"} : Begin(p, cmd, "no_id")
    \/ Stop(p) \/ NotFound(p)
    \/ \E n \in Ids, s \in SUBSET Scopes, e \in Instant : Create(p, n, s, e)
    \/ RecordCreated(p)
    \/ \E b \in BOOLEAN, e \in Instant : RotateGet(p, b, e)
    \/ RotateRead(p)
    \/ \E n \in Ids : RotateCommit(p, n)
    \/ RecordRotated(p) \/ RecordRevoked(p)
    \/ RevokeRead(p) \/ RevokeWrite(p)
    \/ \E t \in Instant : PrunePreview(p, t)
    \/ PruneList(p) \/ PruneDelete(p)
    \/ \E c \in Ids : RecordPruned(p, c)

RequestStep(r) ==
    \/ \E h \in Ids \cup OtherHeaders, b \in BOOLEAN, s \in Scopes \cup {"public"} :
          Arrive(r, h, b, s)
    \/ OtherHeader(r) \/ Lookup(r) \/ Touch(r) \/ Authorize(r)

Next ==
    \/ Tick
    \/ \E p \in Operators : CommandStep(p)
    \/ \E r \in Requests : RequestStep(r)

Spec == Init /\ [][Next]_vars
----------------------------------------------------------------------------
TypeOK ==
    /\ rows \in [Ids -> Row]
    /\ minted \subseteq Ids
    /\ withdrawn \in [Ids -> SUBSET Instant]
    /\ trail \subseteq Events
    /\ now \in Instant /\ now # Never
    /\ op \in [Operators -> Command]
    /\ req \in [Requests -> Request]

(***************************************************************************)
(* A request that began after its credential was revoked, expired or       *)
(* pruned is never let in as that credential; whoever is let in presented  *)
(* the right secret, and may do what the credential's own row grants.      *)
(* (credential_service.py, revoke: "no window in which a revoked           *)
(* credential still works".)                                               *)
(***************************************************************************)
RightlyLetIn(r) ==
    /\ req[r].actor # "anonymous" =>
          req[r].genuine /\ ~req[r].dead /\ req[r].actor = req[r].header
    /\ req[r].actor \in Ids /\ rows[req[r].actor].stored =>
          req[r].scopes = rows[req[r].actor].scopes
    /\ req[r].at = "served" /\ req[r].need # "public" =>
          req[r].actor # "anonymous" /\ req[r].need \in req[r].scopes

EffectiveOnNextRequest == \A r \in Requests : RightlyLetIn(r)

(***************************************************************************)
(* A credential that stopped working never works again, whatever commands  *)
(* and late last_used_at updates are still on their way to its row.        *)
(***************************************************************************)
WithdrawnForGood ==
    [][\A c \in minted : ~Usable(c) => ~Usable(c)']_vars

(***************************************************************************)
(* A rotation that revokes the original has, in the same step, put a       *)
(* replacement with the same scopes in the table: the actor keeps a way in.*)
(***************************************************************************)
RevokedBy(p, c) == op[p].cmd = "revoke" /\ op[p].id = c /\ op[p].at = "read"

RotationKeepsAWayIn ==
    [][\A c \in Ids :
          /\ rows[c].revoked = Never /\ rows'[c].revoked # Never
          /\ \A p \in Operators : ~RevokedBy(p, c)
          => \E n \in Ids \ minted : /\ rows'[n].stored
                                     /\ rows'[n].scopes = rows[c].scopes]_vars

(***************************************************************************)
(* Pruning deletes no credential that works, and none whose every recorded *)
(* end, revocation or expiry, is younger than some command's cutoff, even  *)
(* when others rewrite the row between the list and the deletion.          *)
(***************************************************************************)
EndedBefore(c, cutoff) ==
    \/ \E t \in withdrawn[c] : t < cutoff
    \/ rows[c].expires # Never /\ rows[c].expires < cutoff

PruneSparesRecent ==
    [][\A c \in Ids : rows[c].stored /\ ~rows'[c].stored =>
          /\ ~Usable(c)
          /\ \E p \in Operators : op[p].at = "listed" /\ EndedBefore(c, op[p].cutoff)]_vars

(***************************************************************************)
(* The trail claims nothing that is not so: a credential it says was       *)
(* revoked does not work, one it says was pruned is gone, and one it says  *)
(* was created or rotated was stored.                                      *)
(***************************************************************************)
TrailIsTrue ==
    \A e \in trail :
        /\ e.id \in minted
        /\ e.kind = "revoked" => ~Usable(e.id)
        /\ e.kind = "pruned"  => ~rows[e.id].stored

(***************************************************************************)
(* What the code says of revoked_at (credential_store.py: "re-revoking     *)
(* keeps the original timestamp"; docs/CREDENTIALS.md, Revoke).  Refuted:  *)
(* two commands that both read the row unrevoked both write it.            *)
(***************************************************************************)
RevocationMomentKept ==
    [][\A c \in Ids : rows[c].stored /\ rows'[c].stored /\ rows[c].revoked # Never
          => rows'[c].revoked = rows[c].revoked]_vars

----------------------------------------------------------------------------
(***************************************************************************)
(* The inductive invariant: what every command in flight may still do to   *)
(* the table, and what every request knows of it.                          *)
(***************************************************************************)
RowsSound ==
    \A c \in Ids : /\ rows[c].stored => c \in minted
                   /\ rows[c].revoked # Never => rows[c].revoked \in withdrawn[c]

CommandSound(p) ==
    /\ op[p].at = "idle" => op[p] = Idle
    /\ op[p].moment <= now
    /\ op[p].at \notin {"idle", "done", "written", "rotated"} => op[p].moment # Never
    /\ op[p].at \notin {"idle", "done"} /\ op[p].cmd \in {"rotate", "revoke"} =>
          op[p].id \in minted
    /\ op[p].at = "written" /\ op[p].cmd \in {"create", "rotate"} =>
          op[p].new \in minted
    /\ op[p].at = "read" /\ op[p].cmd = "rotate" =>
          /\ rows[op[p].id].stored => op[p].previous.scopes = rows[op[p].id].scopes
          /\ op[p].previous.revoked # Never => ~Usable(op[p].id)
    /\ op[p].revoking => op[p].cmd = "rotate"
    /\ op[p].at = "rotated" => op[p].revoking
    /\ op[p].at \in {"written", "rotated"} /\ op[p].revoking => ~Usable(op[p].id)
    /\ op[p].at = "written" /\ op[p].cmd = "revoke" => ~Usable(op[p].id)
    /\ op[p].doomed # {} => op[p].cmd = "prune" /\ op[p].at \in {"listed", "written"}
    /\ \A c \in op[p].doomed :
          /\ c \in minted
          /\ op[p].at = "written" => ~rows[c].stored
          /\ rows[c].stored => ~Usable(c) /\ EndedBefore(c, op[p].cutoff)

CommandsSound == \A p \in Operators : CommandSound(p)

RequestSound(r) ==
    /\ req[r].header \in Ids => req[r].header \in minted
    /\ req[r].header = "legacy" => req[r].genuine
    /\ req[r].dead => req[r].header \in Ids /\ ~Usable(req[r].header)
    /\ req[r].at \in {"away", "arrived"} => req[r].actor = "anonymous"
    /\ req[r].at \in {"touching", "identified"} => req[r].actor # "anonymous"
    /\ req[r].at = "touching" => req[r].actor \in Ids

RequestsSound == \A r \in Requests : RequestSound(r)

IInv ==
    /\ TypeOK
    /\ RowsSound
    /\ CommandsSound
    /\ RequestsSound
    /\ EffectiveOnNextRequest
    /\ TrailIsTrue
=============================================================================

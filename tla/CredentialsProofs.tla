------------------------- MODULE CredentialsProofs -------------------------
(***************************************************************************)
(* Machine-checked proofs about Credentials, for any number of commands,   *)
(* requests and credentials and any clock.                                 *)
(*                                                                         *)
(* One fact carries the rest: the table only ages.  Whatever a command or  *)
(* a late update does to the row of a credential that exists, the row      *)
(* keeps its scopes and expiry, a revocation is never taken back, and a    *)
(* deleted row stays deleted.  So what somebody learnt of a credential     *)
(* before an await - that it no longer works - is still true after it.     *)
(***************************************************************************)
EXTENDS Credentials, TLAPS

USE CredentialAssumption

Ages ==
    /\ minted \subseteq minted'
    /\ now <= now'
    /\ \A c \in Ids : withdrawn[c] \subseteq withdrawn'[c]
    /\ \A c \in minted : rows'[c].stored =>
          /\ rows[c].stored
          /\ rows'[c].scopes = rows[c].scopes /\ rows'[c].expires = rows[c].expires
          /\ rows[c].revoked # Never => rows'[c].revoked # Never

-----------------------------------------------------------------------------
\* A row and the command record that begin empty have their types.
LEMMA EmptyTypes == NoRow \in Row /\ Idle \in Command /\ Away \in Request
BY DEF NoRow, Row, Idle, Command, Steps, Commands, Away, Request, Places,
       OtherHeaders, Instant, Never

\* Only known instants are offered as an expiry.
LEMMA ExpiryType ==
  ASSUME NEW t \in Instant, NEW e \in Expiries(t)
  PROVE  e \in Instant
BY DEF Expiries, Instant, Never

LEMMA FreshType ==
  ASSUME NEW s \in SUBSET Scopes, NEW e \in Instant
  PROVE  Fresh(s, e) \in Row
BY DEF Fresh, Row, Instant, Never

\* Ending a command or reaching its records keeps the command's type.
LEMMA EndType ==
  ASSUME op \in [Operators -> Command], NEW p \in Operators, End(p)
  PROVE  op' \in [Operators -> Command]
<1>1. [Idle EXCEPT !.at = "done"] \in Command
  BY EmptyTypes DEF Command, Steps
<1>2. QED
  BY <1>1 DEF End

LEMMA GoType ==
  ASSUME op \in [Operators -> Command], NEW p \in Operators, NEW s \in Steps, Go(p, s)
  PROVE  op' \in [Operators -> Command]
<1>1. [op[p] EXCEPT !.at = s] \in Command
  BY DEF Command
<1>2. QED
  BY <1>1 DEF Go

LEMMA WrittenType ==
  ASSUME op \in [Operators -> Command], NEW p \in Operators,
         NEW n \in Ids \cup {"no_id"}, Written(p, n)
  PROVE  op' \in [Operators -> Command]
<1>1. [Idle EXCEPT !.at = "written", !.cmd = op[p].cmd, !.id = op[p].id, !.new = n,
                   !.revoking = op[p].revoking, !.doomed = op[p].doomed] \in Command
  BY EmptyTypes DEF Command, Steps
<1>2. QED
  BY <1>1 DEF Written

\* A record of something about a known credential is an event.
LEMMA RecordType ==
  ASSUME trail \subseteq Events, NEW c \in Ids,
         NEW k \in {"created", "rotated", "revoked", "pruned"}, Record(k, c)
  PROVE  trail' \subseteq Events
BY DEF Record, Events

\* The statements on the table keep its type.
LEMMA UpdateType ==
  ASSUME rows \in [Ids -> Row], NEW c \in Ids, NEW t \in Instant
  PROVE  Revoked(rows, c, t) \in [Ids -> Row] /\ Touched(rows, c, t) \in [Ids -> Row]
<1>1. [rows[c] EXCEPT !.revoked = t] \in Row /\ [rows[c] EXCEPT !.used = t] \in Row
  BY DEF Row
<1>2. QED
  BY <1>1 DEF Revoked, Touched

LEMMA WithdrawType ==
  ASSUME withdrawn \in [Ids -> SUBSET Instant], NEW c \in Ids, NEW t \in Instant,
         Withdraw(c, t)
  PROVE  /\ withdrawn' \in [Ids -> SUBSET Instant]
         /\ \A i \in Ids : withdrawn[i] \subseteq withdrawn'[i]
         /\ rows[c].stored => t \in withdrawn'[c]
BY DEF Withdraw

-----------------------------------------------------------------------------
\* Type correctness of one step of a command.
LEMMA CommandType ==
  ASSUME IInv, NEW p \in Operators, CommandStep(p)
  PROVE  TypeOK'
<1> USE DEF IInv
<1>0. /\ rows \in [Ids -> Row] /\ minted \subseteq Ids /\ trail \subseteq Events
      /\ withdrawn \in [Ids -> SUBSET Instant] /\ now \in Instant /\ now # Never
      /\ op \in [Operators -> Command] /\ req \in [Requests -> Request]
  BY DEF TypeOK
<1>1. op[p] \in Command /\ CommandSound(p)
  BY <1>0 DEF CommandsSound
<1>a. ASSUME op' \in [Operators -> Command],
             UNCHANGED <<rows, minted, withdrawn, trail, now, req>>
      PROVE  TypeOK'
  BY <1>0, <1>a DEF TypeOK
<1>b. ASSUME NEW c \in Ids, NEW k \in {"created", "rotated", "revoked", "pruned"},
             Record(k, c), op' \in [Operators -> Command],
             UNCHANGED <<rows, minted, withdrawn, now, req>>
      PROVE  TypeOK'
  BY <1>0, <1>b, RecordType DEF TypeOK
<1>2. ASSUME NEW cmd \in Commands, NEW c \in minted \cup {"no_id"}, Begin(p, cmd, c)
      PROVE  TypeOK'
  <2>1. [op[p] EXCEPT !.at = "begun", !.cmd = cmd, !.id = c, !.moment = now] \in Command
    BY <1>0, <1>1 DEF Command, Steps
  <2>2. QED
    BY <1>0, <1>2, <1>a, <2>1 DEF Begin
<1>3. CASE Stop(p) \/ NotFound(p)
  BY <1>0, <1>3, <1>a, EndType DEF Stop, NotFound
<1>4. ASSUME NEW n \in Ids, NEW s \in SUBSET Scopes, NEW e \in Instant, Create(p, n, s, e)
      PROVE  TypeOK'
  <2>1. op' \in [Operators -> Command]
    BY <1>0, <1>4, WrittenType DEF Create
  <2>2. rows' \in [Ids -> Row] /\ minted' \subseteq Ids
    BY <1>0, <1>4, FreshType DEF Create, Insert
  <2>3. QED
    BY <1>0, <1>4, <2>1, <2>2 DEF Create, TypeOK
<1>5. CASE RecordCreated(p)
  <2>1. op[p].new \in Ids
    BY <1>0, <1>1, <1>5 DEF CommandSound, RecordCreated
  <2>2. QED
    BY <1>0, <1>5, <1>b, <2>1, EndType DEF RecordCreated
<1>6. ASSUME NEW b \in BOOLEAN, NEW e \in Instant, RotateGet(p, b, e)
      PROVE  TypeOK'
  <2>1. op[p].id \in Ids
    BY <1>0, <1>1, <1>6 DEF CommandSound, RotateGet
  <2>2. [op[p] EXCEPT !.at = "got", !.previous = rows[op[p].id],
                      !.revoking = b, !.expires = e] \in Command
    BY <1>0, <1>1, <2>1 DEF Command, Steps
  <2>3. QED
    BY <1>0, <1>6, <1>a, <2>2 DEF RotateGet
<1>7. CASE RotateRead(p)
  <2>1. op[p].id \in Ids
    BY <1>0, <1>1, <1>7 DEF CommandSound, RotateRead
  <2>2. [op[p] EXCEPT !.at = "read", !.previous = rows[op[p].id]] \in Command
    BY <1>0, <1>1, <2>1 DEF Command, Steps
  <2>3. QED
    BY <1>0, <1>7, <1>a, <2>2 DEF RotateRead
<1>8. ASSUME NEW n \in Ids, RotateCommit(p, n)
      PROVE  TypeOK'
  <2> DEFINE inserted == [rows EXCEPT ![n] = Fresh(op[p].previous.scopes, op[p].expires)]
  <2>1. op[p].id \in Ids /\ op[p].moment \in Instant
    BY <1>0, <1>1, <1>8 DEF CommandSound, RotateCommit, Command
  <2>2. Fresh(op[p].previous.scopes, op[p].expires) \in Row
    BY <1>1, FreshType DEF Command, Row
  <2>3. inserted \in [Ids -> Row]
    BY <1>0, <2>2
  <2>4. Revoked(inserted, op[p].id, op[p].moment) \in [Ids -> Row]
    <3>1. [inserted[op[p].id] EXCEPT !.revoked = op[p].moment] \in Row
      BY <2>1, <2>3 DEF Row
    <3> HIDE DEF inserted
    <3>2. QED
      BY <2>1, <2>3, <3>1 DEF Revoked
  <2>5. rows' \in [Ids -> Row]
    BY <1>8, <2>3, <2>4 DEF RotateCommit
  <2>6. withdrawn' \in [Ids -> SUBSET Instant]
    BY <1>0, <1>8, <2>1, WithdrawType DEF RotateCommit
  <2>7. op' \in [Operators -> Command]
    BY <1>0, <1>8, WrittenType DEF RotateCommit
  <2>8. minted' \subseteq Ids /\ UNCHANGED <<trail, now, req>>
    BY <1>0, <1>8 DEF RotateCommit
  <2>9. QED
    BY <1>0, <2>5, <2>6, <2>7, <2>8 DEF TypeOK
<1>9. CASE RecordRotated(p)
  <2>1. op[p].new \in Ids
    BY <1>0, <1>1, <1>9 DEF CommandSound, RecordRotated
  <2>2. op' \in [Operators -> Command]
    BY <1>0, <1>9, EndType, GoType DEF RecordRotated, Steps
  <2>3. QED
    BY <1>9, <1>b, <2>1, <2>2 DEF RecordRotated
<1>10. CASE RecordRevoked(p)
  <2>1. op[p].id \in Ids
    BY <1>0, <1>1, <1>10 DEF CommandSound, RecordRevoked
  <2>2. QED
    BY <1>0, <1>10, <1>b, <2>1, EndType DEF RecordRevoked
<1>11. CASE RevokeRead(p)
  BY <1>0, <1>11, <1>a, WrittenType, GoType DEF RevokeRead, Steps
<1>12. CASE RevokeWrite(p)
  <2>1. op[p].id \in Ids /\ op[p].moment \in Instant
    BY <1>0, <1>1, <1>12 DEF CommandSound, RevokeWrite, Command
  <2>2. /\ rows' \in [Ids -> Row] /\ withdrawn' \in [Ids -> SUBSET Instant]
        /\ op' \in [Operators -> Command]
    BY <1>0, <1>12, <2>1, UpdateType, WithdrawType, WrittenType DEF RevokeWrite
  <2>3. QED
    BY <1>0, <1>12, <2>2 DEF RevokeWrite, TypeOK
<1>13. ASSUME NEW t \in Instant, PrunePreview(p, t)
       PROVE  TypeOK'
  <2>1. [op[p] EXCEPT !.at = "shown", !.cutoff = t] \in Command
    BY <1>1 DEF Command, Steps
  <2>2. QED
    BY <1>0, <1>13, <1>a, <2>1, EndType DEF PrunePreview
<1>14. CASE PruneList(p)
  <2>1. Eligible(op[p].moment, op[p].cutoff) \subseteq Ids
    BY DEF Eligible
  <2>2. [op[p] EXCEPT !.at = "listed",
                      !.doomed = Eligible(op[p].moment, op[p].cutoff)] \in Command
    BY <1>1, <2>1 DEF Command, Steps
  <2>3. QED
    BY <1>0, <1>14, <1>a, <2>2, EndType DEF PruneList
<1>15. CASE PruneDelete(p)
  <2>1. rows' \in [Ids -> Row] /\ op' \in [Operators -> Command]
    BY <1>0, <1>15, EmptyTypes, WrittenType DEF PruneDelete
  <2>2. QED
    BY <1>0, <1>15, <2>1 DEF PruneDelete, TypeOK
<1>16. ASSUME NEW c \in Ids, RecordPruned(p, c)
       PROVE  TypeOK'
  <2>1. [op[p] EXCEPT !.doomed = op[p].doomed \ {c}] \in Command
    BY <1>1 DEF Command
  <2>2. op' \in [Operators -> Command]
    BY <1>0, <1>16, <2>1, EndType DEF RecordPruned
  <2>3. QED
    BY <1>16, <1>b, <2>2 DEF RecordPruned
<1>17. QED
  BY <1>2, <1>3, <1>4, <1>5, <1>6, <1>7, <1>8, <1>9, <1>10, <1>11, <1>12, <1>13,
     <1>14, <1>15, <1>16 DEF CommandStep, Commands

-----------------------------------------------------------------------------
\* Type correctness of one step of a request, or of the clock.
LEMMA RequestType ==
  ASSUME IInv, NEW r \in Requests, RequestStep(r)
  PROVE  TypeOK'
<1> USE DEF IInv
<1>0. /\ rows \in [Ids -> Row] /\ minted \subseteq Ids /\ trail \subseteq Events
      /\ withdrawn \in [Ids -> SUBSET Instant] /\ now \in Instant /\ now # Never
      /\ op \in [Operators -> Command] /\ req \in [Requests -> Request]
  BY DEF TypeOK
<1>1. req[r] \in Request /\ RequestSound(r)
  BY <1>0 DEF RequestsSound
<1>a. ASSUME req' \in [Requests -> Request], rows' \in [Ids -> Row],
             UNCHANGED <<minted, withdrawn, trail, now, op>>
      PROVE  TypeOK'
  BY <1>0, <1>a DEF TypeOK
<1>b. ASSUME NEW a \in Ids \cup {"legacy"}, NEW s \in SUBSET Scopes, Identify(r, a, s)
      PROVE  req' \in [Requests -> Request]
  <2>1. [req[r] EXCEPT !.at = "identified", !.actor = a, !.scopes = s] \in Request
    BY <1>1 DEF Request, Places
  <2>2. QED
    BY <1>0, <1>b, <2>1 DEF Identify
<1>c. ASSUME Refuse(r)
      PROVE  req' \in [Requests -> Request]
  <2>1. [Away EXCEPT !.at = IF req[r].need = "public" THEN "served"
                            ELSE "unauthenticated"] \in Request
    BY EmptyTypes DEF Request, Places
  <2>2. QED
    BY <1>0, <1>c, <2>1 DEF Refuse
<1>2. ASSUME NEW h \in Ids \cup OtherHeaders, NEW b \in BOOLEAN,
             NEW s \in Scopes \cup {"public"}, Arrive(r, h, b, s)
      PROVE  TypeOK'
  <2>1. (h \in Ids /\ ~Usable(h)) \in BOOLEAN
    OBVIOUS
  <2>2. [req[r] EXCEPT !.at = "arrived", !.header = h, !.genuine = b, !.need = s,
                       !.dead = h \in Ids /\ ~Usable(h)] \in Request
    BY <1>1, <2>1 DEF Request, Places
  <2>3. QED
    BY <1>0, <1>2, <1>a, <2>2 DEF Arrive
<1>3. CASE OtherHeader(r)
  BY <1>0, <1>3, <1>a, <1>b, <1>c DEF OtherHeader
<1>4. CASE Lookup(r)
  <2>1. req[r].header \in Ids
    BY <1>4 DEF Lookup
  <2>2. rows[req[r].header].scopes \in SUBSET Scopes
    BY <1>0, <2>1 DEF Row
  <2>3. [req[r] EXCEPT !.at = "touching", !.actor = req[r].header,
                       !.scopes = rows[req[r].header].scopes, !.when = now] \in Request
    BY <1>0, <1>1, <2>1, <2>2 DEF Request, Places
  <2>4. Recognise(r, req[r].header) => req' \in [Requests -> Request]
    BY <1>0, <1>b, <2>1, <2>2, <2>3 DEF Recognise
  <2>5. QED
    BY <1>0, <1>4, <1>a, <1>c, <2>4 DEF Lookup
<1>5. CASE Touch(r)
  <2>1. req[r].actor \in Ids /\ req[r].when \in Instant
    BY <1>1, <1>5 DEF Touch, RequestSound, Request
  <2>2. rows' \in [Ids -> Row]
    BY <1>0, <1>5, <2>1, UpdateType DEF Touch
  <2>0. Never \in Instant
    BY DEF Instant, Never
  <2>3. [req[r] EXCEPT !.at = "identified", !.when = Never] \in Request
    BY <1>1, <2>0 DEF Request, Places
  <2>4. QED
    BY <1>0, <1>5, <1>a, <2>2, <2>3 DEF Touch, Proceed
<1>6. CASE Authorize(r)
  <2>1. /\ [req[r] EXCEPT !.at = "served"] \in Request
        /\ [Away EXCEPT !.at = "forbidden"] \in Request
    BY <1>1, EmptyTypes DEF Request, Places
  <2>2. QED
    BY <1>0, <1>6, <1>a, <2>1 DEF Authorize
<1>7. QED
  BY <1>2, <1>3, <1>4, <1>5, <1>6 DEF RequestStep

LEMMA TypeStep ==
  ASSUME IInv, [Next]_vars
  PROVE  TypeOK'
<1>1. CASE Tick
  BY <1>1 DEF Tick, IInv, TypeOK, Instant, Never
<1>2. CASE UNCHANGED vars
  BY <1>2 DEF vars, IInv, TypeOK
<1>3. QED
  BY <1>1, <1>2, CommandType, RequestType DEF Next

-----------------------------------------------------------------------------
\* What leaves the table alone: every step but an insert, an update, a delete.
LEMMA QuietCommands ==
  ASSUME NEW p \in Operators
  PROVE  /\ \A cmd, c : Begin(p, cmd, c) => UNCHANGED <<rows, minted, withdrawn, now>>
         /\ \A b, e : RotateGet(p, b, e) => UNCHANGED <<rows, minted, withdrawn, now>>
         /\ \A t : PrunePreview(p, t) => UNCHANGED <<rows, minted, withdrawn, now>>
         /\ \A c : RecordPruned(p, c) => UNCHANGED <<rows, minted, withdrawn, now>>
         /\ Stop(p) \/ NotFound(p) \/ RotateRead(p) \/ RevokeRead(p) \/ PruneList(p)
            \/ RecordCreated(p) \/ RecordRotated(p) \/ RecordRevoked(p)
              => UNCHANGED <<rows, minted, withdrawn, now>>
<1>1. /\ \A cmd, c : Begin(p, cmd, c) => UNCHANGED <<rows, minted, withdrawn, now>>
      /\ \A b, e : RotateGet(p, b, e) => UNCHANGED <<rows, minted, withdrawn, now>>
  BY DEF Begin, RotateGet
<1>2. /\ \A t : PrunePreview(p, t) => UNCHANGED <<rows, minted, withdrawn, now>>
      /\ \A c : RecordPruned(p, c) => UNCHANGED <<rows, minted, withdrawn, now>>
  BY DEF PrunePreview, RecordPruned
<1>3. Stop(p) \/ NotFound(p) \/ RotateRead(p) \/ RevokeRead(p) \/ PruneList(p)
        => UNCHANGED <<rows, minted, withdrawn, now>>
  BY DEF Stop, NotFound, RotateRead, RevokeRead, PruneList
<1>4. RecordCreated(p) \/ RecordRotated(p) \/ RecordRevoked(p)
        => UNCHANGED <<rows, minted, withdrawn, now>>
  BY DEF RecordCreated, RecordRotated, RecordRevoked
<1>5. QED
  BY <1>1, <1>2, <1>3, <1>4

LEMMA QuietRequests ==
  ASSUME NEW r \in Requests
  PROVE  /\ \A h, b, s : Arrive(r, h, b, s) => UNCHANGED <<rows, minted, withdrawn, now>>
         /\ OtherHeader(r) \/ Lookup(r) \/ Authorize(r)
              => UNCHANGED <<rows, minted, withdrawn, now>>
<1>1. \A h, b, s : Arrive(r, h, b, s) => UNCHANGED <<rows, minted, withdrawn, now>>
  BY DEF Arrive
<1>2. OtherHeader(r) \/ Lookup(r) \/ Authorize(r)
        => UNCHANGED <<rows, minted, withdrawn, now>>
  BY DEF OtherHeader, Lookup, Authorize
<1>3. QED
  BY <1>1, <1>2

-----------------------------------------------------------------------------
\* The table only ages: every step keeps what is settled about a credential.
LEMMA TableAges ==
  ASSUME IInv, [Next]_vars
  PROVE  Ages
<1> USE DEF IInv
<1>0. /\ rows \in [Ids -> Row] /\ minted \subseteq Ids
      /\ withdrawn \in [Ids -> SUBSET Instant] /\ now \in Instant
      /\ op \in [Operators -> Command] /\ req \in [Requests -> Request]
  BY DEF TypeOK
<1>n. now \in Nat
  BY <1>0 DEF Instant
<1>a. ASSUME UNCHANGED <<rows, minted, withdrawn, now>>
      PROVE  Ages
  BY <1>0, <1>a DEF Ages, Instant
<1>1. CASE Tick
  BY <1>0, <1>1 DEF Tick, Ages, Instant
<1>2. ASSUME NEW p \in Operators, NEW n \in Ids, NEW s \in SUBSET Scopes,
             NEW e \in Instant, Create(p, n, s, e)
      PROVE  Ages
  BY <1>0, <1>2 DEF Create, Insert, Ages, Instant
<1>3. ASSUME NEW p \in Operators, NEW n \in Ids, RotateCommit(p, n)
      PROVE  Ages
  <2>1. op[p].id \in minted /\ op[p].moment # Never /\ op[p].moment \in Instant
    BY <1>0, <1>3 DEF CommandsSound, CommandSound, RotateCommit, Command
  <2> DEFINE inserted == [rows EXCEPT ![n] = Fresh(op[p].previous.scopes, op[p].expires)]
  <2>2. \A c \in minted : inserted[c] = rows[c]
    BY <1>0, <1>3 DEF RotateCommit
  <2>3. inserted \in [Ids -> Row \cup {Fresh(op[p].previous.scopes, op[p].expires)}]
    BY <1>0
  <2>4. \A c \in minted : LET new == Revoked(inserted, op[p].id, op[p].moment)[c]
                          IN  new.stored => /\ rows[c].stored
                                            /\ new.scopes = rows[c].scopes
                                            /\ new.expires = rows[c].expires
                                            /\ rows[c].revoked # Never => new.revoked # Never
    <3> HIDE DEF inserted
    <3> SUFFICES ASSUME NEW c \in minted
                 PROVE  LET new == Revoked(inserted, op[p].id, op[p].moment)[c]
                        IN  new.stored => /\ rows[c].stored
                                          /\ new.scopes = rows[c].scopes
                                          /\ new.expires = rows[c].expires
                                          /\ rows[c].revoked # Never => new.revoked # Never
      OBVIOUS
    <3>1. inserted[c] = rows[c] /\ rows[c] \in Row
      BY <1>0, <2>2
    <3>2. QED
      BY <1>0, <2>1, <2>3, <3>1 DEF Revoked, Row
  <2>5. \A c \in Ids : withdrawn[c] \subseteq withdrawn'[c]
    BY <1>0, <1>3, <2>1, WithdrawType DEF RotateCommit
  <2>6. \A c \in minted : rows'[c].stored =>
          /\ rows[c].stored
          /\ rows'[c].scopes = rows[c].scopes /\ rows'[c].expires = rows[c].expires
          /\ rows[c].revoked # Never => rows'[c].revoked # Never
    BY <1>3, <2>2, <2>4 DEF RotateCommit
  <2>7. minted \subseteq minted' /\ now' = now
    BY <1>3 DEF RotateCommit
  <2>8. QED
    BY <1>0, <2>5, <2>6, <2>7 DEF Ages, Instant
<1>4. ASSUME NEW p \in Operators, RevokeWrite(p)
      PROVE  Ages
  <2>1. op[p].id \in minted /\ op[p].moment # Never /\ op[p].moment \in Instant
    BY <1>0, <1>4 DEF CommandsSound, CommandSound, RevokeWrite, Command
  <2>2. \A c \in Ids : withdrawn[c] \subseteq withdrawn'[c]
    BY <1>0, <1>4, <2>1, WithdrawType DEF RevokeWrite
  <2>3. \A c \in minted : rows'[c].stored =>
          /\ rows[c].stored
          /\ rows'[c].scopes = rows[c].scopes /\ rows'[c].expires = rows[c].expires
          /\ rows[c].revoked # Never => rows'[c].revoked # Never
    BY <1>0, <1>4, <2>1 DEF RevokeWrite, Revoked, Row
  <2>4. minted' = minted /\ now' = now /\ now \in Nat
    BY <1>n, <1>4 DEF RevokeWrite
  <2>5. QED
    BY <2>2, <2>3, <2>4 DEF Ages
<1>5. ASSUME NEW p \in Operators, PruneDelete(p)
      PROVE  Ages
  <2>1. ~NoRow.stored
    BY DEF NoRow
  <2>2. \A c \in minted : rows'[c].stored => rows'[c] = rows[c]
    BY <1>0, <1>5, <2>1 DEF PruneDelete
  <2>3. UNCHANGED <<minted, withdrawn, now>> /\ now \in Nat
    BY <1>n, <1>5 DEF PruneDelete
  <2>4. QED
    BY <2>2, <2>3 DEF Ages
<1>6. ASSUME NEW r \in Requests, Touch(r)
      PROVE  Ages
  <2>1. req[r].actor \in Ids
    BY <1>6 DEF Touch, RequestsSound, RequestSound
  <2>2. \A c \in minted : rows'[c].stored =>
          /\ rows[c].stored
          /\ rows'[c].scopes = rows[c].scopes /\ rows'[c].expires = rows[c].expires
          /\ rows[c].revoked # Never => rows'[c].revoked # Never
    BY <1>0, <1>6, <2>1 DEF Touch, Touched, Row
  <2>3. QED
    BY <1>0, <1>6, <2>2 DEF Touch, Ages, Instant
<1>7. CASE UNCHANGED vars
  BY <1>7, <1>a DEF vars
<1>8. ASSUME NEW p \in Operators, CommandStep(p)
      PROVE  Ages
  BY <1>8, <1>a, <1>2, <1>3, <1>4, <1>5, QuietCommands DEF CommandStep, Commands
<1>9. ASSUME NEW r \in Requests, RequestStep(r)
      PROVE  Ages
  BY <1>9, <1>a, <1>6, QuietRequests DEF RequestStep
<1>10. QED
  BY <1>1, <1>7, <1>8, <1>9 DEF Next

\* A credential that does not work does not begin to.
LEMMA StaysUnusable ==
  ASSUME TypeOK, TypeOK', Ages, NEW c \in minted, ~Usable(c)
  PROVE  ~Usable(c)'
<1>1. /\ rows[c] \in Row /\ rows'[c] \in Row /\ now \in Nat /\ now' \in Nat /\ now <= now'
  BY DEF TypeOK, Ages, Instant
<1>2. CASE ~rows[c].stored
  BY <1>2 DEF Ages, Usable
<1>3. CASE rows[c].stored /\ rows[c].revoked # Never
  BY <1>3 DEF Ages, Usable, Status
<1>4. CASE rows[c].stored /\ rows[c].revoked = Never
  <2>1. rows[c].expires # Never /\ now >= rows[c].expires
    BY <1>4 DEF Usable, Status
  <2>2. rows'[c].stored => rows'[c].expires = rows[c].expires
    BY DEF Ages
  <2>3. rows[c].expires \in Nat
    BY <1>1 DEF Row, Instant
  <2>4. QED
    BY <1>1, <2>1, <2>2, <2>3 DEF Usable, Status
<1>5. QED
  BY <1>2, <1>3, <1>4
-----------------------------------------------------------------------------
\* A revocation written is a moment recorded, and only minted ids have rows.
LEMMA RowsStep ==
  ASSUME IInv, [Next]_vars
  PROVE  RowsSound'
<1> USE DEF IInv
<1>0. /\ rows \in [Ids -> Row] /\ minted \subseteq Ids
      /\ withdrawn \in [Ids -> SUBSET Instant] /\ RowsSound
      /\ op \in [Operators -> Command] /\ req \in [Requests -> Request]
  BY DEF TypeOK
<1>a. ASSUME UNCHANGED <<rows, minted, withdrawn>>
      PROVE  RowsSound'
  BY <1>0, <1>a DEF RowsSound
<1>2. ASSUME NEW p \in Operators, NEW n \in Ids, NEW s \in SUBSET Scopes,
             NEW e \in Instant, Create(p, n, s, e)
      PROVE  RowsSound'
  BY <1>0, <1>2 DEF Create, Insert, Fresh, RowsSound
<1>3. ASSUME NEW p \in Operators, NEW n \in Ids, RotateCommit(p, n)
      PROVE  RowsSound'
  <2> DEFINE c == op[p].id
             inserted == [rows EXCEPT ![n] = Fresh(op[p].previous.scopes, op[p].expires)]
  <2>1. c \in minted /\ op[p].moment \in Instant
    BY <1>0, <1>3 DEF CommandsSound, CommandSound, RotateCommit, Command
  <2>2. \A i \in Ids : i # n => inserted[i] = rows[i]
    BY <1>0
  <2>3. inserted[n].revoked = Never /\ c # n
    BY <1>0, <1>3, <2>1 DEF Fresh, RotateCommit
  <2>4. DOMAIN inserted = Ids
    BY <1>0
  <2>5. \A i \in Ids : inserted[i].stored => i \in minted'
    BY <1>0, <1>3, <2>2 DEF RotateCommit, RowsSound
  <2> HIDE DEF inserted
  <2>6. CASE rows' = inserted /\ UNCHANGED withdrawn
    BY <1>0, <2>2, <2>3, <2>5, <2>6 DEF RowsSound
  <2>7. CASE rows' = Revoked(inserted, c, op[p].moment) /\ Withdraw(c, op[p].moment)
    <3>1. \A i \in Ids : i # c => rows'[i] = inserted[i]
      BY <2>4, <2>7 DEF Revoked
    <3>2. rows'[c].stored => c \in minted'
      BY <1>3, <2>1 DEF RotateCommit
    <3>3. CASE rows[c].stored
      <4>1. rows'[c].revoked = op[p].moment
        <5>1. rows' = [inserted EXCEPT ![c].revoked = op[p].moment]
          BY <1>0, <2>1, <2>2, <2>3, <2>7, <3>3 DEF Revoked
        <5>2. inserted[c] = rows[c] /\ rows[c] \in Row
          BY <1>0, <2>1, <2>2, <2>3
        <5>3. QED
          BY <1>0, <2>1, <2>4, <5>1, <5>2 DEF Row
      <4>2. op[p].moment \in withdrawn'[c] /\ \A i \in Ids : withdrawn[i] \subseteq withdrawn'[i]
        BY <1>0, <2>1, <2>7, <3>3, WithdrawType
      <4>3. QED
        BY <1>0, <2>2, <2>3, <2>5, <3>1, <3>2, <4>1, <4>2 DEF RowsSound
    <3>4. CASE ~rows[c].stored
      <4>1. rows' = inserted
        BY <1>0, <2>1, <2>2, <2>3, <2>7, <3>4 DEF Revoked
      <4>2. withdrawn' = withdrawn
        BY <2>7, <3>4 DEF Withdraw
      <4>3. QED
        BY <2>6, <4>1, <4>2
    <3>5. QED
      BY <3>3, <3>4
  <2>8. QED
    BY <1>3, <2>6, <2>7 DEF RotateCommit, inserted
<1>4. ASSUME NEW p \in Operators, RevokeWrite(p)
      PROVE  RowsSound'
  <2>1. op[p].id \in minted /\ op[p].moment \in Instant
    BY <1>0, <1>4 DEF CommandsSound, CommandSound, RevokeWrite, Command
  <2>2. /\ rows[op[p].id].stored => op[p].moment \in withdrawn'[op[p].id]
        /\ \A i \in Ids : withdrawn[i] \subseteq withdrawn'[i]
    BY <1>0, <1>4, <2>1, WithdrawType DEF RevokeWrite
  <2>3. \A i \in Ids : \/ rows'[i] = rows[i]
                       \/ /\ i = op[p].id /\ rows[i].stored
                          /\ rows'[i].revoked = op[p].moment
                          /\ rows'[i].stored = rows[i].stored
    BY <1>0, <1>4, <2>1 DEF RevokeWrite, Revoked, Row
  <2>4. minted' = minted
    BY <1>4 DEF RevokeWrite
  <2>5. QED
    BY <1>0, <2>1, <2>2, <2>3, <2>4 DEF RowsSound
<1>5. ASSUME NEW p \in Operators, PruneDelete(p)
      PROVE  RowsSound'
  <2>1. ~NoRow.stored /\ NoRow.revoked = Never
    BY DEF NoRow
  <2>2. \A c \in Ids : rows'[c] = rows[c] \/ rows'[c] = NoRow
    BY <1>0, <1>5 DEF PruneDelete
  <2>3. UNCHANGED <<minted, withdrawn>>
    BY <1>5 DEF PruneDelete
  <2>4. QED
    BY <1>0, <2>1, <2>2, <2>3 DEF RowsSound
<1>6. ASSUME NEW r \in Requests, Touch(r)
      PROVE  RowsSound'
  <2>1. req[r].actor \in Ids
    BY <1>6 DEF Touch, RequestsSound, RequestSound
  <2>2. \A c \in Ids : rows'[c].stored = rows[c].stored /\ rows'[c].revoked = rows[c].revoked
    BY <1>0, <1>6, <2>1 DEF Touch, Touched, Row
  <2>3. UNCHANGED <<minted, withdrawn>>
    BY <1>6 DEF Touch
  <2>4. QED
    BY <1>0, <2>2, <2>3 DEF RowsSound
<1>7. CASE UNCHANGED vars \/ Tick
  BY <1>7, <1>a DEF vars, Tick
<1>8. ASSUME NEW p \in Operators, CommandStep(p)
      PROVE  RowsSound'
  BY <1>8, <1>a, <1>2, <1>3, <1>4, <1>5, QuietCommands DEF CommandStep, Commands
<1>9. ASSUME NEW r \in Requests, RequestStep(r)
      PROVE  RowsSound'
  BY <1>9, <1>a, <1>6, QuietRequests DEF RequestStep
<1>10. QED
  BY <1>7, <1>8, <1>9 DEF Next
-----------------------------------------------------------------------------
\* An end that was recorded stays recorded while the row is there.
LEMMA EndStays ==
  ASSUME TypeOK, Ages, NEW c \in minted, NEW t \in Instant,
         rows'[c].stored, EndedBefore(c, t)
  PROVE  EndedBefore(c, t)'
BY DEF TypeOK, Ages, EndedBefore

\* What is known of a command that does not move survives everybody's steps.
LEMMA OtherCommand ==
  ASSUME TypeOK, TypeOK', Ages, NEW q \in Operators, op'[q] = op[q], CommandSound(q)
  PROVE  CommandSound(q)'
<1>0. /\ op[q] \in Command /\ now \in Nat /\ now' \in Nat /\ now <= now'
      /\ op[q].moment \in Nat
  <2>1. op[q] \in Command /\ now \in Instant /\ now' \in Instant /\ now <= now'
    BY DEF TypeOK, Ages
  <2>2. op[q].moment \in Instant
    BY <2>1 DEF Command
  <2>3. \A t \in Instant : t \in Nat
    BY DEF Instant
  <2>4. QED
    BY <2>1, <2>2, <2>3
<1>1. /\ op'[q].at = "idle" => op'[q] = Idle
      /\ op'[q].moment <= now'
  BY <1>0 DEF CommandSound
<1>2. /\ op'[q].at \notin {"idle", "done", "written", "rotated"} => op'[q].moment # Never
      /\ op'[q].revoking => op'[q].cmd = "rotate"
      /\ op'[q].at = "rotated" => op'[q].revoking
      /\ op'[q].doomed # {} => op'[q].cmd = "prune" /\ op'[q].at \in {"listed", "written"}
  BY DEF CommandSound
<1>3. /\ op'[q].at \notin {"idle", "done"} /\ op'[q].cmd \in {"rotate", "revoke"} =>
            op'[q].id \in minted'
      /\ op'[q].at = "written" /\ op'[q].cmd \in {"create", "rotate"} =>
            op'[q].new \in minted'
  BY DEF CommandSound, Ages
<1>4. op'[q].at = "read" /\ op'[q].cmd = "rotate" =>
          /\ rows'[op'[q].id].stored => op'[q].previous.scopes = rows'[op'[q].id].scopes
          /\ op'[q].previous.revoked # Never => ~Usable(op[q].id)'
  <2> SUFFICES ASSUME op[q].at = "read", op[q].cmd = "rotate"
               PROVE  /\ rows'[op[q].id].stored =>
                            op[q].previous.scopes = rows'[op[q].id].scopes
                      /\ op[q].previous.revoked # Never => ~Usable(op[q].id)'
    OBVIOUS
  <2>1. op[q].id \in minted
    BY DEF CommandSound
  <2>2. QED
    BY <2>1, StaysUnusable DEF CommandSound, Ages
<1>5. /\ op'[q].at \in {"written", "rotated"} /\ op'[q].revoking => ~Usable(op[q].id)'
      /\ op'[q].at = "written" /\ op'[q].cmd = "revoke" => ~Usable(op[q].id)'
  BY StaysUnusable DEF CommandSound
<1>6. \A c \in op'[q].doomed :
          /\ c \in minted'
          /\ op'[q].at = "written" => ~rows'[c].stored
          /\ rows'[c].stored => ~Usable(c)' /\ EndedBefore(c, op[q].cutoff)'
  <2> SUFFICES ASSUME NEW c \in op[q].doomed
               PROVE  /\ c \in minted'
                      /\ op[q].at = "written" => ~rows'[c].stored
                      /\ rows'[c].stored => ~Usable(c)' /\ EndedBefore(c, op[q].cutoff)'
    OBVIOUS
  <2>1. c \in minted /\ (rows'[c].stored => rows[c].stored) /\ op[q].cutoff \in Instant
    BY <1>0 DEF CommandSound, Ages, Command
  <2>2. QED
    BY <2>1, StaysUnusable, EndStays DEF CommandSound, Ages
<1>7. QED
  BY <1>1, <1>2, <1>3, <1>4, <1>5, <1>6 DEF CommandSound
\* A command that ended has nothing left to be wrong about.
LEMMA EndSound ==
  ASSUME TypeOK', op \in [Operators -> Command], NEW p \in Operators, End(p)
  PROVE  CommandSound(p)'
<1>1. op'[p] = [Idle EXCEPT !.at = "done"]
  BY DEF End
<1>2. /\ op'[p].at = "done" /\ op'[p].moment = 0 /\ op'[p].doomed = {}
      /\ op'[p].revoking = FALSE
  BY <1>1 DEF Idle, Never
<1>3. now' \in Nat
  BY DEF TypeOK, Instant
<1>4. QED
  BY <1>2, <1>3 DEF CommandSound

\* What a command that has written the table still knows.
LEMMA WrittenFields ==
  ASSUME op \in [Operators -> Command], NEW p \in Operators, NEW n, Written(p, n)
  PROVE  /\ op'[p].at = "written" /\ op'[p].cmd = op[p].cmd /\ op'[p].id = op[p].id
         /\ op'[p].new = n /\ op'[p].moment = 0 /\ op'[p].cutoff = 0
         /\ op'[p].revoking = op[p].revoking /\ op'[p].doomed = op[p].doomed
<1>1. op'[p] = [Idle EXCEPT !.at = "written", !.cmd = op[p].cmd, !.id = op[p].id,
                            !.new = n, !.revoking = op[p].revoking,
                            !.doomed = op[p].doomed]
  BY DEF Written
<1>2. QED
  BY <1>1 DEF Idle, Never

\* The step a command takes establishes what the next one relies on.
LEMMA OwnCommand ==
  ASSUME IInv, TypeOK', Ages, RowsSound', NEW p \in Operators, CommandStep(p)
  PROVE  CommandSound(p)'
<1> USE DEF IInv
<1>0. /\ rows \in [Ids -> Row] /\ minted \subseteq Ids
      /\ now \in Instant /\ now # Never /\ op \in [Operators -> Command]
  BY DEF TypeOK
<1>1. op[p] \in Command /\ CommandSound(p) /\ op[p].moment \in Instant
      /\ op[p].cutoff \in Instant
  BY <1>0 DEF CommandsSound, Command
<1>n. /\ \A t \in Instant : t \in Nat
      /\ now' \in Instant
  BY DEF Instant, TypeOK
<1>m. now <= now
  BY <1>0, <1>n
<1>2. ASSUME NEW cmd \in Commands, NEW c \in Ids \cup {"no_id"},
             cmd \in {"rotate", "revoke"} => c \in minted, Begin(p, cmd, c)
      PROVE  CommandSound(p)'
  <2>1. op'[p] = [op[p] EXCEPT !.at = "begun", !.cmd = cmd, !.id = c, !.moment = now]
    BY <1>0, <1>2 DEF Begin
  <2>2. op[p].revoking = FALSE /\ op[p].doomed = {}
    <3>1. op[p].at = "idle"
      BY <1>2 DEF Begin
    <3>2. op[p].at = "idle" => op[p] = Idle
      BY <1>1 DEF CommandSound
    <3>3. Idle.revoking = FALSE /\ Idle.doomed = {}
      BY DEF Idle
    <3>4. QED
      BY <3>1, <3>2, <3>3
  <2>3. /\ op'[p].at = "begun" /\ op'[p].cmd = cmd /\ op'[p].id = c
        /\ op'[p].moment = now /\ op'[p].revoking = FALSE /\ op'[p].doomed = {}
    BY <1>1, <2>1, <2>2 DEF Command
  <2>4. /\ now' = now /\ minted' = minted /\ now \in Nat /\ now # Never
        /\ cmd \in {"rotate", "revoke"} => c \in minted
    <3>1. now \in Nat /\ now # Never
      BY <1>0, <1>n
    <3>2. /\ now' = now /\ minted' = minted
          /\ cmd \in {"rotate", "revoke"} => c \in minted
      BY <1>2 DEF Begin
    <3>3. QED
      BY <3>1, <3>2
  <2>5. op'[p].at = "begun" /\ op'[p].moment <= now' /\ op'[p].moment # Never
    <3>1. now <= now
      BY <1>m
    <3>2. QED
      BY <2>3, <2>4, <3>1
  <2>6. op'[p].cmd \in {"rotate", "revoke"} => op'[p].id \in minted'
    BY <2>3, <2>4
  <2>7. QED
    BY <2>3, <2>5, <2>6 DEF CommandSound
<1>3. CASE Stop(p) \/ NotFound(p)
  BY <1>0, <1>3, EndSound DEF Stop, NotFound
<1>4. ASSUME NEW n \in Ids, NEW s \in SUBSET Scopes, NEW e \in Instant, Create(p, n, s, e)
      PROVE  CommandSound(p)'
  <2>1. /\ op'[p].at = "written" /\ op'[p].cmd = "create" /\ op'[p].new = n
        /\ op'[p].moment = 0 /\ op'[p].revoking = op[p].revoking
        /\ op'[p].doomed = op[p].doomed
    BY <1>0, <1>4, WrittenFields DEF Create
  <2>2. op[p].revoking = FALSE /\ op[p].doomed = {}
    BY <1>1, <1>4 DEF Create, CommandSound, Command
  <2>3. n \in minted'
    BY <1>4 DEF Create, Insert
  <2>4. QED
    BY <1>n, <2>1, <2>2, <2>3 DEF CommandSound
<1>5. CASE RecordCreated(p) \/ RecordRevoked(p)
  BY <1>0, <1>5, EndSound DEF RecordCreated, RecordRevoked
<1>6. ASSUME NEW b \in BOOLEAN, NEW e \in Instant, RotateGet(p, b, e)
      PROVE  CommandSound(p)'
  <2>1. op'[p] = [op[p] EXCEPT !.at = "got", !.previous = rows[op[p].id],
                               !.revoking = b, !.expires = e]
    BY <1>0, <1>6 DEF RotateGet
  <2>2. /\ op'[p].at = "got" /\ op'[p].cmd = "rotate" /\ op'[p].id = op[p].id
        /\ op'[p].moment = op[p].moment /\ op'[p].doomed = op[p].doomed
    <3>1. op[p].cmd = "rotate"
      BY <1>6 DEF RotateGet
    <3>2. QED
      BY <1>1, <2>1, <3>1 DEF Command
  <2>3. op[p].doomed = {} /\ op[p].id \in minted /\ op[p].moment # Never
    BY <1>1, <1>6 DEF RotateGet, CommandSound
  <2>4. now' = now /\ minted' = minted /\ op[p].moment <= now
    BY <1>1, <1>6 DEF RotateGet, CommandSound
  <2>5. QED
    BY <2>2, <2>3, <2>4 DEF CommandSound
<1>7. CASE RotateRead(p)
  <2>1. op'[p] = [op[p] EXCEPT !.at = "read", !.previous = rows[op[p].id]]
    BY <1>0, <1>7 DEF RotateRead
  <2>2. /\ op'[p].at = "read" /\ op'[p].cmd = "rotate" /\ op'[p].id = op[p].id
        /\ op'[p].moment = op[p].moment /\ op'[p].doomed = op[p].doomed
        /\ op'[p].previous = rows[op[p].id]
    <3>1. op[p].cmd = "rotate"
      BY <1>7 DEF RotateRead
    <3>2. QED
      BY <1>1, <2>1, <3>1 DEF Command
  <2>3. op[p].doomed = {} /\ op[p].id \in minted /\ op[p].moment # Never
    BY <1>1, <1>7 DEF RotateRead, CommandSound
  <2>4. now' = now /\ minted' = minted /\ rows' = rows /\ op[p].moment <= now
    BY <1>1, <1>7 DEF RotateRead, CommandSound
  <2>5. rows[op[p].id].revoked # Never => ~Usable(op[p].id)'
    BY <2>2, <2>4 DEF Usable, Status
  <2>6. QED
    BY <2>2, <2>3, <2>4, <2>5 DEF CommandSound
<1>10. CASE RecordRotated(p)
  <2>1. CASE End(p)
    BY <1>0, <2>1, EndSound
  <2>2. CASE Go(p, "rotated") /\ op[p].revoking
    <3>1. op'[p] = [op[p] EXCEPT !.at = "rotated"]
      BY <1>0, <2>2 DEF Go
    <3>2. /\ op'[p].at = "rotated" /\ op'[p].cmd = "rotate" /\ op'[p].id = op[p].id
          /\ op'[p].moment = op[p].moment /\ op'[p].doomed = op[p].doomed
          /\ op'[p].revoking
      BY <1>1, <1>10, <2>2, <3>1 DEF Command, RecordRotated
    <3>3. op[p].doomed = {} /\ op[p].id \in minted /\ ~Usable(op[p].id)
      BY <1>1, <1>10, <2>2 DEF RecordRotated, CommandSound
    <3>4. now' = now /\ minted' = minted /\ rows' = rows /\ op[p].moment <= now
      BY <1>1, <1>10 DEF RecordRotated, CommandSound
    <3>5. ~Usable(op[p].id)'
      BY <3>2, <3>3, <3>4 DEF Usable
    <3>6. QED
      BY <3>2, <3>3, <3>4, <3>5 DEF CommandSound
  <2>3. QED
    BY <1>10, <2>1, <2>2 DEF RecordRotated
<1>8. ASSUME NEW n \in Ids, RotateCommit(p, n)
      PROVE  CommandSound(p)'
  <2> DEFINE c == op[p].id
             inserted == [rows EXCEPT ![n] = Fresh(op[p].previous.scopes, op[p].expires)]
  <2>1. /\ op'[p].at = "written" /\ op'[p].cmd = "rotate" /\ op'[p].id = c
        /\ op'[p].new = n /\ op'[p].moment = 0
        /\ op'[p].revoking = op[p].revoking /\ op'[p].doomed = op[p].doomed
    BY <1>0, <1>8, WrittenFields DEF RotateCommit
  <2>2. op[p].doomed = {} /\ c \in minted /\ op[p].moment # Never
    BY <1>1, <1>8 DEF RotateCommit, CommandSound
  <2>3. n \in minted' /\ c \in minted' /\ n # c
    BY <1>8, <2>2 DEF RotateCommit
  <2>4. ASSUME op[p].revoking
        PROVE  ~Usable(c)'
    <3>1. CASE op[p].previous.revoked # Never
      <4>1. ~Usable(c)
        BY <1>1, <1>8, <3>1 DEF RotateCommit, CommandSound
      <4>2. \A i \in minted : ~Usable(i) => ~Usable(i)'
        BY StaysUnusable
      <4>3. (~rows'[c].stored \/ Status(rows'[c], now') # "active")
        BY <2>2, <4>1, <4>2 DEF Usable
      <4>4. QED
        BY <2>1, <4>3 DEF Usable
    <3>2. CASE op[p].previous.revoked = Never
      <4>1. rows' = Revoked(inserted, c, op[p].moment)
        BY <1>8, <2>4, <3>2 DEF RotateCommit
      <4>2. inserted[c] = rows[c] /\ inserted[c] \in Row /\ DOMAIN inserted = Ids /\ c \in Ids
        BY <1>0, <2>2, <2>3
      <4> HIDE DEF inserted
      <4>3. ~rows'[c].stored \/ rows'[c].revoked = op[p].moment
        BY <4>1, <4>2 DEF Revoked, Row
      <4>4. ~rows'[c].stored \/ Status(rows'[c], now') # "active"
        BY <2>2, <4>3 DEF Status
      <4>5. QED
        BY <2>1, <4>4 DEF Usable
    <3>3. QED
      BY <3>1, <3>2
  <2>5. op'[p].revoking => ~Usable(op[p].id)'
    BY <2>1, <2>4
  <2>6. QED
    BY <1>n, <2>1, <2>2, <2>3, <2>5 DEF CommandSound
<1>11. CASE RevokeRead(p)
  <2>1. op[p].id \in minted /\ op[p].doomed = {} /\ op[p].revoking = FALSE
        /\ op[p].moment # Never /\ op[p].moment <= now
    BY <1>1, <1>11 DEF RevokeRead, CommandSound, Command
  <2>2. now' = now /\ minted' = minted /\ rows' = rows
    BY <1>11 DEF RevokeRead
  <2>3. CASE Written(p, "no_id") /\ rows[op[p].id].revoked # Never
    <3>1. /\ op'[p].at = "written" /\ op'[p].cmd = "revoke" /\ op'[p].id = op[p].id
          /\ op'[p].moment = 0 /\ op'[p].revoking = op[p].revoking
          /\ op'[p].doomed = op[p].doomed
      BY <1>0, <1>11, <2>3, WrittenFields DEF RevokeRead
    <3>2. ~Usable(op[p].id)'
      BY <2>2, <2>3, <3>1 DEF Usable, Status
    <3>3. QED
      BY <1>n, <2>1, <2>2, <3>1, <3>2 DEF CommandSound
  <2>4. CASE Go(p, "read")
    <3>1. op'[p] = [op[p] EXCEPT !.at = "read"]
      BY <1>0, <2>4 DEF Go
    <3>2. /\ op'[p].at = "read" /\ op'[p].cmd = "revoke" /\ op'[p].id = op[p].id
          /\ op'[p].moment = op[p].moment /\ op'[p].revoking = op[p].revoking
          /\ op'[p].doomed = op[p].doomed
      BY <1>1, <1>11, <3>1 DEF Command, RevokeRead
    <3>3. QED
      BY <2>1, <2>2, <3>2 DEF CommandSound
  <2>5. QED
    BY <1>11, <2>3, <2>4 DEF RevokeRead
<1>12. CASE RevokeWrite(p)
  <2>1. op[p].id \in minted /\ op[p].doomed = {} /\ op[p].revoking = FALSE
        /\ op[p].moment # Never
    BY <1>1, <1>12 DEF RevokeWrite, CommandSound, Command
  <2>2. /\ op'[p].at = "written" /\ op'[p].cmd = "revoke" /\ op'[p].id = op[p].id
        /\ op'[p].moment = 0 /\ op'[p].revoking = op[p].revoking
        /\ op'[p].doomed = op[p].doomed
    BY <1>0, <1>12, WrittenFields DEF RevokeWrite
  <2>3. ~rows'[op[p].id].stored \/ rows'[op[p].id].revoked = op[p].moment
    BY <1>0, <1>12, <2>1 DEF RevokeWrite, Revoked, Row
  <2>4. ~Usable(op[p].id)'
    BY <2>1, <2>2, <2>3 DEF Usable, Status
  <2>5. minted' = minted
    BY <1>12 DEF RevokeWrite
  <2>6. QED
    BY <1>n, <2>1, <2>2, <2>4, <2>5 DEF CommandSound
<1>13. ASSUME NEW t \in Instant, PrunePreview(p, t)
       PROVE  CommandSound(p)'
  <2>1. CASE End(p)
    BY <1>0, <2>1, EndSound
  <2>2. CASE op' = [op EXCEPT ![p].at = "shown", ![p].cutoff = t]
    <3>1. op'[p] = [op[p] EXCEPT !.at = "shown", !.cutoff = t]
      BY <1>0, <2>2
    <3>2. /\ op'[p].at = "shown" /\ op'[p].cmd = "prune" /\ op'[p].moment = op[p].moment
          /\ op'[p].revoking = op[p].revoking /\ op'[p].doomed = op[p].doomed
      BY <1>1, <1>13, <3>1 DEF Command, PrunePreview
    <3>3. op[p].doomed = {} /\ op[p].revoking = FALSE /\ op[p].moment # Never
          /\ op[p].moment <= now /\ now' = now
      BY <1>1, <1>13 DEF PrunePreview, CommandSound, Command
    <3>4. QED
      BY <3>2, <3>3 DEF CommandSound
  <2>3. QED
    BY <1>13, <2>1, <2>2 DEF PrunePreview
<1>14. CASE PruneList(p)
  <2> DEFINE doomed == Eligible(op[p].moment, op[p].cutoff)
  <2>1. CASE End(p)
    BY <1>0, <2>1, EndSound
  <2>2. CASE op' = [op EXCEPT ![p].at = "listed", ![p].doomed = doomed]
    <3>1. op'[p] = [op[p] EXCEPT !.at = "listed", !.doomed = doomed]
      BY <1>0, <2>2
    <3>2. /\ op'[p].at = "listed" /\ op'[p].cmd = "prune" /\ op'[p].moment = op[p].moment
          /\ op'[p].revoking = op[p].revoking /\ op'[p].doomed = doomed
          /\ op'[p].cutoff = op[p].cutoff
      BY <1>1, <1>14, <3>1 DEF Command, PruneList
    <3>3. op[p].revoking = FALSE /\ op[p].moment # Never /\ op[p].moment <= now
      BY <1>1, <1>14 DEF PruneList, CommandSound, Command
    <3>4. UNCHANGED <<rows, minted, withdrawn, now>>
      BY <1>14 DEF PruneList
    <3>5. ASSUME NEW c \in doomed
          PROVE  c \in minted /\ ~Usable(c) /\ EndedBefore(c, op[p].cutoff)
      <4>1. /\ c \in Ids /\ rows[c].stored /\ rows[c] \in Row
            /\ Status(rows[c], op[p].moment) # "active"
            /\ Retired(rows[c]) # Never /\ Retired(rows[c]) < op[p].cutoff
        BY <1>0, <3>5 DEF Eligible
      <4>2. c \in minted /\ (rows[c].revoked # Never => rows[c].revoked \in withdrawn[c])
        BY <4>1 DEF RowsSound
      <4>3. rows[c].expires \in Nat /\ op[p].moment \in Nat /\ now \in Nat
        BY <1>0, <1>1, <1>n, <4>1 DEF Row
      <4>4. ~Usable(c)
        BY <3>3, <4>1, <4>3 DEF Usable, Status
      <4>5. EndedBefore(c, op[p].cutoff)
        BY <4>1, <4>2 DEF EndedBefore, Retired
      <4>6. QED
        BY <4>2, <4>4, <4>5
    <3>6. \A c \in op'[p].doomed : /\ c \in minted' /\ ~Usable(c)'
                                   /\ EndedBefore(c, op[p].cutoff)'
      BY <3>2, <3>4, <3>5 DEF Usable, EndedBefore
    <3> HIDE DEF doomed
    <3>7. QED
      BY <3>2, <3>3, <3>4, <3>6 DEF CommandSound
  <2>3. QED
    BY <1>14, <2>1, <2>2 DEF PruneList
<1>15. CASE PruneDelete(p)
  <2>1. /\ op'[p].at = "written" /\ op'[p].cmd = "prune" /\ op'[p].moment = 0
        /\ op'[p].revoking = op[p].revoking /\ op'[p].doomed = op[p].doomed
    BY <1>0, <1>15, WrittenFields DEF PruneDelete
  <2>2. op[p].revoking = FALSE /\ op[p].doomed \subseteq minted
    BY <1>1, <1>15 DEF PruneDelete, CommandSound, Command
  <2>3. \A c \in op[p].doomed : ~rows'[c].stored /\ c \in minted'
    BY <1>0, <1>15, <2>2 DEF PruneDelete, NoRow
  <2>4. QED
    BY <1>n, <2>1, <2>2, <2>3 DEF CommandSound
<1>16. ASSUME NEW c \in Ids, RecordPruned(p, c)
       PROVE  CommandSound(p)'
  <2>1. CASE End(p)
    BY <1>0, <2>1, EndSound
  <2>2. CASE op' = [op EXCEPT ![p].doomed = @ \ {c}]
    <3>1. op'[p] = [op[p] EXCEPT !.doomed = op[p].doomed \ {c}]
      BY <1>0, <2>2
    <3>2. /\ op'[p].at = "written" /\ op'[p].cmd = "prune" /\ op'[p].moment = op[p].moment
          /\ op'[p].revoking = op[p].revoking /\ op'[p].doomed = op[p].doomed \ {c}
      BY <1>1, <1>16, <3>1 DEF Command, RecordPruned
    <3>3. op[p].revoking = FALSE /\ op[p].moment <= now
      BY <1>1, <1>16 DEF RecordPruned, CommandSound, Command
    <3>4. UNCHANGED <<rows, minted, now>>
      BY <1>16 DEF RecordPruned
    <3>5. \A i \in op[p].doomed : i \in minted /\ ~rows[i].stored
      BY <1>1, <1>16 DEF RecordPruned, CommandSound
    <3>6. QED
      BY <3>2, <3>3, <3>4, <3>5 DEF CommandSound
  <2>3. QED
    BY <1>16, <2>1, <2>2 DEF RecordPruned
<1>17. QED
  <2>1. minted \subseteq Ids
    BY <1>0
  <2>2. QED
    BY <2>1, <1>2, <1>3, <1>4, <1>5, <1>6, <1>7, <1>8, <1>10, <1>11, <1>12, <1>13,
       <1>14, <1>15, <1>16 DEF CommandStep, Commands

\* Only one command moves at a time.
LEMMA OneMoves ==
  ASSUME TypeOK, NEW p \in Operators, CommandStep(p), NEW q \in Operators, q # p
  PROVE  op'[q] = op[q]
<1> USE DEF Go, End, Written
<1>0. op \in [Operators -> Command]
  BY DEF TypeOK
<1>1. /\ \A cmd, c : Begin(p, cmd, c) => op'[q] = op[q]
      /\ \A n, s, e : Create(p, n, s, e) => op'[q] = op[q]
      /\ \A b, e : RotateGet(p, b, e) => op'[q] = op[q]
  BY <1>0 DEF Begin, Create, RotateGet
<1>2. /\ \A n : RotateCommit(p, n) => op'[q] = op[q]
      /\ \A t : PrunePreview(p, t) => op'[q] = op[q]
      /\ \A c : RecordPruned(p, c) => op'[q] = op[q]
  BY <1>0 DEF RotateCommit, PrunePreview, RecordPruned
<1>3. Stop(p) \/ NotFound(p) \/ RotateRead(p) \/ RevokeRead(p) \/ PruneList(p)
        => op'[q] = op[q]
  BY <1>0 DEF Stop, NotFound, RotateRead, RevokeRead, PruneList
<1>4. RecordCreated(p) \/ RecordRotated(p) \/ RecordRevoked(p) \/ RevokeWrite(p)
        \/ PruneDelete(p) => op'[q] = op[q]
  BY <1>0 DEF RecordCreated, RecordRotated, RecordRevoked, RevokeWrite, PruneDelete
<1>5. QED
  BY <1>1, <1>2, <1>3, <1>4 DEF CommandStep

LEMMA CommandsStep ==
  ASSUME IInv, [Next]_vars, TypeOK', Ages, RowsSound'
  PROVE  CommandsSound'
<1>1. SUFFICES ASSUME NEW q \in Operators
               PROVE  CommandSound(q)'
  BY DEF CommandsSound
<1>2. CASE CommandStep(q)
  BY <1>2, OwnCommand
<1>3. CASE op'[q] = op[q]
  BY <1>3, OtherCommand DEF IInv, CommandsSound
<1>4. CASE \E r \in Requests : RequestStep(r)
  <2>1. op' = op
    <3>1. PICK r \in Requests : RequestStep(r)
      BY <1>4
    <3>2. \A h, b, s : Arrive(r, h, b, s) => op' = op
      BY DEF Arrive
    <3>3. OtherHeader(r) \/ Lookup(r) \/ Touch(r) \/ Authorize(r) => op' = op
      BY DEF OtherHeader, Lookup, Touch, Authorize
    <3>4. QED
      BY <3>1, <3>2, <3>3 DEF RequestStep
  <2>2. QED
    BY <1>3, <2>1
<1>5. CASE Tick \/ UNCHANGED vars
  BY <1>3, <1>5 DEF Tick, vars
<1>6. CASE \E p \in Operators : p # q /\ CommandStep(p)
  BY <1>3, <1>6, OneMoves DEF IInv
<1>7. QED
  BY <1>2, <1>4, <1>5, <1>6 DEF Next

-----------------------------------------------------------------------------
\* What is known of a request that does not move survives everybody's steps.
LEMMA OtherRequest ==
  ASSUME TypeOK, TypeOK', Ages, NEW q \in Requests, req'[q] = req[q],
         RequestSound(q), RightlyLetIn(q)
  PROVE  RequestSound(q)' /\ RightlyLetIn(q)'
<1>1. /\ req'[q].header \in Ids => req'[q].header \in minted'
      /\ req'[q].header = "legacy" => req'[q].genuine
      /\ req'[q].at \in {"away", "arrived"} => req'[q].actor = "anonymous"
      /\ req'[q].at \in {"touching", "identified"} => req'[q].actor # "anonymous"
      /\ req'[q].at = "touching" => req'[q].actor \in Ids
  BY DEF RequestSound, Ages
<1>2. req'[q].dead => req'[q].header \in Ids /\ ~Usable(req[q].header)'
  BY StaysUnusable DEF RequestSound
<1>3. RequestSound(q)'
  BY <1>1, <1>2 DEF RequestSound
<1>4. ASSUME req[q].actor \in Ids, rows'[req[q].actor].stored
      PROVE  req[q].scopes = rows'[req[q].actor].scopes
  <2>1. req[q].actor \in minted
    BY <1>4 DEF RightlyLetIn, RequestSound, OtherHeaders
  <2>2. QED
    BY <1>4, <2>1 DEF Ages, RightlyLetIn
<1>5. RightlyLetIn(q)'
  BY <1>4 DEF RightlyLetIn
<1>6. QED
  BY <1>3, <1>5

\* A visitor who is refused is anonymous, and has nothing to be wrong about.
LEMMA RefuseSound ==
  ASSUME req \in [Requests -> Request], NEW r \in Requests, Refuse(r)
  PROVE  RequestSound(r)' /\ RightlyLetIn(r)'
<1>1. req'[r] = [Away EXCEPT !.at = IF req[r].need = "public" THEN "served"
                                    ELSE "unauthenticated"]
  BY DEF Refuse
<1>2. /\ req'[r].at \in {"served", "unauthenticated"} /\ req'[r].header = "nothing"
      /\ req'[r].need = "public" /\ req'[r].actor = "anonymous" /\ ~req'[r].dead
  BY <1>1 DEF Away
<1>3. "nothing" \notin Ids /\ "anonymous" \notin Ids
  BY DEF OtherHeaders
<1>4. QED
  BY <1>2, <1>3 DEF RequestSound, RightlyLetIn

\* The step a request takes lets in only whom the table lets in.
LEMMA OwnRequest ==
  ASSUME IInv, NEW r \in Requests, RequestStep(r)
  PROVE  RequestSound(r)' /\ RightlyLetIn(r)'
<1>0. /\ rows \in [Ids -> Row] /\ minted \subseteq Ids /\ req \in [Requests -> Request]
  BY DEF IInv, TypeOK
<1>1. req[r] \in Request /\ RequestSound(r) /\ RightlyLetIn(r)
  BY <1>0 DEF IInv, RequestsSound, EffectiveOnNextRequest
<1>n. "nothing" \notin Ids /\ "legacy" \notin Ids /\ "anonymous" \notin Ids
  BY DEF OtherHeaders
<1>2. ASSUME NEW h \in Ids \cup OtherHeaders, NEW b \in BOOLEAN,
             NEW s \in Scopes \cup {"public"}, Arrive(r, h, b, s)
      PROVE  RequestSound(r)' /\ RightlyLetIn(r)'
  <2> DEFINE dead == h \in Ids /\ ~Usable(h)
  <2>1. req'[r] = [req[r] EXCEPT !.at = "arrived", !.header = h, !.genuine = b,
                                 !.need = s, !.dead = dead]
    BY <1>0, <1>2 DEF Arrive
  <2>2. req[r].actor = "anonymous"
    BY <1>1, <1>2 DEF Arrive, RequestSound
  <2>3. UNCHANGED <<rows, minted, now>> /\ (h \in Ids => h \in minted) /\ (h = "legacy" => b)
    BY <1>2, <1>n DEF Arrive
  <2>4. h \in Ids /\ ~Usable(h) => ~Usable(h)'
    BY <2>3 DEF Usable
  <2> HIDE DEF dead
  <2>5. /\ req'[r].at = "arrived" /\ req'[r].header = h /\ req'[r].genuine = b
        /\ req'[r].actor = "anonymous" /\ req'[r].dead = dead
    BY <1>1, <2>1, <2>2 DEF Request
  <2>6. req'[r].dead => req'[r].header \in Ids /\ ~Usable(req[r].header)'
    <3>1. dead => h \in Ids /\ (~rows'[h].stored \/ Status(rows'[h], now') # "active")
      BY <2>4 DEF dead, Usable
    <3>2. QED
      BY <2>5, <3>1 DEF Usable
  <2>7. RequestSound(r)'
    BY <2>3, <2>5, <2>6 DEF RequestSound
  <2>8. RightlyLetIn(r)'
    BY <1>n, <2>5 DEF RightlyLetIn
  <2>9. QED
    BY <2>7, <2>8
<1>3. CASE OtherHeader(r)
  <2>1. CASE Refuse(r)
    BY <1>0, <2>1, RefuseSound
  <2>2. CASE Identify(r, "legacy", LegacyScopes) /\ req[r].header = "legacy"
    <3>1. req'[r] = [req[r] EXCEPT !.at = "identified", !.actor = "legacy",
                                   !.scopes = LegacyScopes]
      BY <1>0, <2>2 DEF Identify
    <3>2. /\ req'[r].at = "identified" /\ req'[r].actor = "legacy"
          /\ req'[r].header = "legacy" /\ req'[r].genuine = req[r].genuine
          /\ req'[r].dead = req[r].dead
      BY <1>1, <2>2, <3>1 DEF Request
    <3>3. req[r].genuine /\ ~req[r].dead
      BY <1>1, <1>n, <2>2 DEF RequestSound
    <3>4. QED
      BY <1>n, <3>2, <3>3 DEF RequestSound, RightlyLetIn
  <2>3. QED
    BY <1>3, <2>1, <2>2 DEF OtherHeader
<1>4. CASE Lookup(r)
  <2> DEFINE c == req[r].header
  <2>1. CASE Refuse(r)
    BY <1>0, <2>1, RefuseSound
  <2>2. CASE Recognise(r, c) /\ Usable(c) /\ req[r].genuine
    <3>1. /\ req'[r].at \in {"touching", "identified"} /\ req'[r].actor = c
          /\ req'[r].header = c /\ req'[r].genuine /\ req'[r].dead = req[r].dead
          /\ req'[r].scopes = rows[c].scopes
      BY <1>0, <1>1, <2>2 DEF Recognise, Identify, Request
    <3>2. UNCHANGED <<rows, minted, now>> /\ c \in Ids
      BY <1>4 DEF Lookup
    <3>3. ~req[r].dead /\ c \in minted /\ c # "anonymous" /\ c # "legacy"
      BY <1>1, <1>n, <2>2, <3>2 DEF RequestSound
    <3>4. RequestSound(r)'
      BY <3>1, <3>2, <3>3 DEF RequestSound
    <3>5. RightlyLetIn(r)'
      BY <3>1, <3>2, <3>3 DEF RightlyLetIn
    <3>6. QED
      BY <3>4, <3>5
  <2>3. QED
    BY <1>4, <2>1, <2>2 DEF Lookup, Usable
<1>5. CASE Touch(r)
  <2>1. req'[r] = [req[r] EXCEPT !.at = "identified", !.when = Never]
    BY <1>0, <1>5 DEF Touch, Proceed
  <2>2. /\ req'[r].at = "identified" /\ req'[r].actor = req[r].actor
        /\ req'[r].header = req[r].header /\ req'[r].genuine = req[r].genuine
        /\ req'[r].dead = req[r].dead /\ req'[r].scopes = req[r].scopes
    BY <1>1, <2>1 DEF Request
  <2>3. req[r].actor \in Ids /\ req[r].at = "touching" /\ UNCHANGED <<minted, now>>
    BY <1>1, <1>5 DEF Touch, RequestSound
  <2>4. req[r].header = req[r].actor /\ req[r].genuine /\ ~req[r].dead
        /\ req[r].actor # "anonymous"
    BY <1>1, <1>n, <2>3 DEF RightlyLetIn
  <2>5. rows'[req[r].actor].stored => rows[req[r].actor].stored
                                      /\ rows'[req[r].actor].scopes = rows[req[r].actor].scopes
    BY <1>0, <1>5, <2>3 DEF Touch, Touched, Row
  <2>6. RequestSound(r)'
    <3>1. req[r].actor \in minted' /\ req[r].actor # "legacy"
      BY <1>1, <1>n, <2>3, <2>4 DEF RequestSound
    <3>2. QED
      BY <2>2, <2>3, <2>4, <3>1 DEF RequestSound
  <2>7. RightlyLetIn(r)'
    <3>1. rows[req[r].actor].stored => req[r].scopes = rows[req[r].actor].scopes
      BY <1>1, <2>3 DEF RightlyLetIn
    <3>2. QED
      BY <2>2, <2>4, <2>5, <3>1 DEF RightlyLetIn
  <2>8. QED
    BY <2>6, <2>7
<1>6. CASE Authorize(r)
  <2>1. req[r].at = "identified" /\ UNCHANGED <<rows, minted, now>>
    BY <1>6 DEF Authorize
  <2>2. CASE req' = [req EXCEPT ![r] = [Away EXCEPT !.at = "forbidden"]]
    <3>1. req'[r] = [Away EXCEPT !.at = "forbidden"]
      BY <1>0, <2>2
    <3>2. /\ req'[r].at = "forbidden" /\ req'[r].header = "nothing"
          /\ req'[r].actor = "anonymous" /\ ~req'[r].dead
      BY <3>1 DEF Away
    <3>3. QED
      BY <1>n, <3>2 DEF RequestSound, RightlyLetIn
  <2>3. CASE /\ req' = [req EXCEPT ![r].at = "served"]
             /\ req[r].need = "public" \/ req[r].need \in req[r].scopes
    <3>1. req'[r] = [req[r] EXCEPT !.at = "served"]
      BY <1>0, <2>3
    <3>2. /\ req'[r].at = "served" /\ req'[r].actor = req[r].actor
          /\ req'[r].header = req[r].header /\ req'[r].genuine = req[r].genuine
          /\ req'[r].dead = req[r].dead /\ req'[r].scopes = req[r].scopes
          /\ req'[r].need = req[r].need
      BY <1>1, <3>1 DEF Request
    <3>3. RequestSound(r)'
      <4>1. req[r].dead => ~Usable(req[r].header)'
        BY <1>1, <2>1, <3>2 DEF RequestSound, Usable
      <4>2. req'[r].dead => req'[r].header \in Ids /\ ~Usable(req[r].header)'
        BY <1>1, <3>2, <4>1 DEF RequestSound, Usable
      <4>3. /\ req[r].header \in Ids => req[r].header \in minted'
            /\ req[r].header = "legacy" => req[r].genuine
        BY <1>1, <2>1 DEF RequestSound
      <4>4. QED
        BY <3>2, <4>2, <4>3 DEF RequestSound
    <3>4. RightlyLetIn(r)'
      BY <1>1, <2>1, <2>3, <3>2 DEF RightlyLetIn, RequestSound
    <3>5. QED
      BY <3>3, <3>4
  <2>4. QED
    BY <1>6, <2>2, <2>3 DEF Authorize
<1>7. QED
  BY <1>2, <1>3, <1>4, <1>5, <1>6 DEF RequestStep

LEMMA RequestsStep ==
  ASSUME IInv, [Next]_vars, TypeOK', Ages
  PROVE  RequestsSound' /\ EffectiveOnNextRequest'
<1>1. SUFFICES ASSUME NEW q \in Requests
               PROVE  RequestSound(q)' /\ RightlyLetIn(q)'
  BY DEF RequestsSound, EffectiveOnNextRequest
<1>2. CASE RequestStep(q)
  BY <1>2, OwnRequest
<1>3. CASE req'[q] = req[q]
  BY <1>3, OtherRequest DEF IInv, RequestsSound, EffectiveOnNextRequest
<1>4. CASE \E p \in Operators : CommandStep(p)
  <2>1. PICK p \in Operators : CommandStep(p)
    BY <1>4
  <2>2. /\ \A cmd, c : Begin(p, cmd, c) => req' = req
        /\ \A n, s, e : Create(p, n, s, e) => req' = req
        /\ \A b, e : RotateGet(p, b, e) => req' = req
    BY DEF Begin, Create, RotateGet
  <2>3. /\ \A n : RotateCommit(p, n) => req' = req
        /\ \A t : PrunePreview(p, t) => req' = req
        /\ \A c : RecordPruned(p, c) => req' = req
    BY DEF RotateCommit, PrunePreview, RecordPruned
  <2>4. Stop(p) \/ NotFound(p) \/ RotateRead(p) \/ RevokeRead(p) \/ PruneList(p)
          => req' = req
    BY DEF Stop, NotFound, RotateRead, RevokeRead, PruneList
  <2>5. RecordCreated(p) \/ RecordRotated(p) \/ RecordRevoked(p) \/ RevokeWrite(p)
          \/ PruneDelete(p) => req' = req
    BY DEF RecordCreated, RecordRotated, RecordRevoked, RevokeWrite, PruneDelete
  <2>6. QED
    BY <1>3, <2>1, <2>2, <2>3, <2>4, <2>5 DEF CommandStep
<1>5. CASE Tick \/ UNCHANGED vars
  BY <1>3, <1>5 DEF Tick, vars
<1>6. ASSUME NEW r \in Requests, r # q, RequestStep(r)
      PROVE  req'[q] = req[q]
  <2>0. req \in [Requests -> Request]
    BY DEF IInv, TypeOK
  <2>1. /\ \A h, b, s : Arrive(r, h, b, s) => req'[q] = req[q]
        /\ Touch(r) \/ Authorize(r) => req'[q] = req[q]
    BY <1>6, <2>0 DEF Arrive, Touch, Proceed, Authorize
  <2>2. OtherHeader(r) \/ Lookup(r) => req'[q] = req[q]
    BY <1>6, <2>0 DEF OtherHeader, Lookup, Refuse, Identify, Recognise
  <2>3. QED
    BY <1>6, <2>1, <2>2 DEF RequestStep
<1>7. QED
  BY <1>2, <1>3, <1>4, <1>5, <1>6 DEF Next

-----------------------------------------------------------------------------
\* What the trail already says stays true; what is added is what the command did.
LEMMA TrailStep ==
  ASSUME IInv, [Next]_vars, TypeOK', Ages
  PROVE  TrailIsTrue'
<1>0. minted \subseteq Ids /\ trail \subseteq Events
  BY DEF IInv, TypeOK
<1> DEFINE True(e) == /\ e.id \in minted
                      /\ e.kind = "revoked" => ~Usable(e.id)
                      /\ e.kind = "pruned"  => ~rows[e.id].stored
<1>1. ASSUME NEW e, True(e)
      PROVE  True(e)'
  BY <1>1, StaysUnusable DEF IInv, Ages
<1>2. \A e \in trail : True(e)
  BY DEF IInv, TrailIsTrue
<1>3. CASE trail' = trail
  BY <1>1, <1>2, <1>3 DEF TrailIsTrue
<1>4. ASSUME NEW c, NEW k, Record(k, c), True([kind |-> k, id |-> c])
      PROVE  TrailIsTrue'
  <2>1. \A e \in trail' : True(e)
    BY <1>2, <1>4 DEF Record
  <2>2. QED
    BY <1>1, <2>1 DEF TrailIsTrue
<1>5. ASSUME NEW p \in Operators, CommandStep(p)
      PROVE  TrailIsTrue'
  <2>0. CommandSound(p)
    BY DEF IInv, CommandsSound
  <2>1. CASE RecordCreated(p)
    <3>1. Record("created", op[p].new) /\ op[p].new \in minted
      BY <2>0, <2>1 DEF RecordCreated, CommandSound
    <3>2. QED
      BY <1>4, <3>1
  <2>2. CASE RecordRotated(p)
    <3>1. Record("rotated", op[p].new) /\ op[p].new \in minted
      BY <2>0, <2>2 DEF RecordRotated, CommandSound
    <3>2. QED
      BY <1>4, <3>1
  <2>3. CASE RecordRevoked(p)
    <3>1. Record("revoked", op[p].id) /\ op[p].id \in minted /\ ~Usable(op[p].id)
      BY <2>0, <2>3 DEF RecordRevoked, CommandSound
    <3>2. QED
      BY <1>4, <3>1
  <2>4. ASSUME NEW c \in Ids, RecordPruned(p, c)
        PROVE  TrailIsTrue'
    <3>1. Record("pruned", c) /\ c \in minted /\ ~rows[c].stored
      BY <2>0, <2>4 DEF RecordPruned, CommandSound
    <3>2. QED
      BY <1>4, <3>1
  <2>5. /\ \A cmd, c : Begin(p, cmd, c) => trail' = trail
        /\ \A n, s, e : Create(p, n, s, e) => trail' = trail
        /\ \A b, e : RotateGet(p, b, e) => trail' = trail
    BY DEF Begin, Create, RotateGet
  <2>6. /\ \A n : RotateCommit(p, n) => trail' = trail
        /\ \A t : PrunePreview(p, t) => trail' = trail
    BY DEF RotateCommit, PrunePreview
  <2>7. Stop(p) \/ NotFound(p) \/ RotateRead(p) \/ RevokeRead(p) \/ PruneList(p)
          \/ RevokeWrite(p) \/ PruneDelete(p) => trail' = trail
    BY DEF Stop, NotFound, RotateRead, RevokeRead, PruneList, RevokeWrite, PruneDelete
  <2>8. QED
    BY <1>3, <1>5, <2>1, <2>2, <2>3, <2>4, <2>5, <2>6, <2>7 DEF CommandStep
<1>6. ASSUME NEW r \in Requests, RequestStep(r)
      PROVE  trail' = trail
  <2>1. \A h, b, s : Arrive(r, h, b, s) => trail' = trail
    BY DEF Arrive
  <2>2. OtherHeader(r) \/ Lookup(r) \/ Touch(r) \/ Authorize(r) => trail' = trail
    BY DEF OtherHeader, Lookup, Touch, Authorize
  <2>3. QED
    BY <1>6, <2>1, <2>2 DEF RequestStep
<1>7. CASE Tick \/ UNCHANGED vars
  BY <1>3, <1>7 DEF Tick, vars
<1>8. QED
  BY <1>3, <1>5, <1>6, <1>7 DEF Next

-----------------------------------------------------------------------------
LEMMA InitInv == Init => IInv
<1> SUFFICES ASSUME Init
             PROVE  IInv
  OBVIOUS
<1>0. Never \in Instant /\ 1 \in Instant /\ 1 # Never
  BY DEF Never, Instant
<1>1. now = 1 /\ trail = {[kind |-> "created", id |-> c] : c \in minted}
      /\ minted = {c \in Ids : rows[c].stored}
      /\ withdrawn = [c \in Ids |-> {}] /\ op = [p \in Operators |-> Idle]
      /\ req = [r \in Requests |-> Away]
  BY DEF Init
<1>2. \A c \in Ids : rows[c] \in Row /\ rows[c].revoked = Never
  <2>1. ASSUME NEW first \in FirstRows
        PROVE  first \in Row /\ first.revoked = Never
    <3>1. CASE first = NoRow
      BY <3>1, EmptyTypes DEF NoRow
    <3>2. CASE first # NoRow
      <4>1. PICK s \in SUBSET Scopes, e \in Expiries(1) : first = Fresh(s, e)
        BY <3>2 DEF FirstRows
      <4>2. e \in Instant
        BY <1>0, ExpiryType
      <4>3. first \in Row
        BY <4>1, <4>2, FreshType
      <4> QED
        BY <4>1, <4>3 DEF Fresh
    <3> QED
      BY <3>1, <3>2
  <2>2. rows \in [Ids -> FirstRows]
    BY DEF Init
  <2> QED
    BY <2>1, <2>2
<1>3. TypeOK
  <2>1. rows \in [Ids -> Row]
    <3>0. rows \in [Ids -> FirstRows]
      BY DEF Init
    <3>1. rows = [c \in Ids |-> rows[c]]
      BY <3>0
    <3>2. \A c \in Ids : rows[c] \in Row
      BY <1>2
    <3>3. QED
      BY <3>1, <3>2
  <2>2. trail \subseteq Events /\ minted \subseteq Ids
    BY <1>1 DEF Events
  <2>3. op \in [Operators -> Command] /\ req \in [Requests -> Request]
    BY <1>1, EmptyTypes
  <2>4. QED
    BY <1>0, <1>1, <2>1, <2>2, <2>3 DEF TypeOK
<1>4. RowsSound
  BY <1>1, <1>2 DEF RowsSound
<1>5. CommandsSound
  <2> SUFFICES ASSUME NEW p \in Operators
               PROVE  CommandSound(p)
    BY DEF CommandsSound
  <2>1. op[p] = Idle
    BY <1>1
  <2>2. /\ op[p].at = "idle" /\ op[p].doomed = {} /\ op[p].revoking = FALSE
        /\ op[p].moment <= now
    <3>1. /\ Idle.at = "idle" /\ Idle.doomed = {} /\ Idle.revoking = FALSE
          /\ Idle.moment = 0
      BY DEF Idle, Never
    <3>2. QED
      BY <1>1, <2>1, <3>1
  <2>3. QED
    BY <2>1, <2>2 DEF CommandSound
<1>6. RequestsSound /\ EffectiveOnNextRequest
  <2> SUFFICES ASSUME NEW r \in Requests
               PROVE  RequestSound(r) /\ RightlyLetIn(r)
    BY DEF RequestsSound, EffectiveOnNextRequest
  <2>1. /\ req[r].at = "away" /\ req[r].header = "nothing"
        /\ req[r].actor = "anonymous" /\ ~req[r].dead
    BY <1>1 DEF Away
  <2>2. "nothing" \notin Ids /\ "anonymous" \notin Ids
    BY DEF OtherHeaders
  <2>3. QED
    BY <2>1, <2>2 DEF RequestSound, RightlyLetIn
<1>7. TrailIsTrue
  BY <1>1 DEF TrailIsTrue
<1>8. QED
  BY <1>3, <1>4, <1>5, <1>6, <1>7 DEF IInv

LEMMA InvStep ==
  ASSUME IInv, [Next]_vars
  PROVE  IInv'
<1>1. TypeOK' /\ Ages /\ RowsSound'
  BY TypeStep, TableAges, RowsStep
<1>2. CommandsSound' /\ RequestsSound' /\ EffectiveOnNextRequest' /\ TrailIsTrue'
  BY <1>1, CommandsStep, RequestsStep, TrailStep
<1>3. QED
  BY <1>1, <1>2 DEF IInv

(***************************************************************************)
(* In every reachable state the table, the commands in flight, the requests*)
(* in flight and the audit trail agree (all of credential_store.py,        *)
(* credential_service.py and authn.py as Credentials models them).         *)
(***************************************************************************)
THEOREM Invariance == Spec => []IInv
BY InitInv, InvStep, PTL DEF Spec

(***************************************************************************)
(* Every variable keeps its type, whatever the interleaving of commands    *)
(* and requests.                                                           *)
(***************************************************************************)
THEOREM TypeCorrect == Spec => []TypeOK
<1>1. IInv => TypeOK
  BY DEF IInv
<1>2. QED
  BY <1>1, Invariance, PTL

(***************************************************************************)
(* A request that arrives after its credential stopped working is never    *)
(* let in as that credential (authn.py, authenticate; security.py,         *)
(* require_scope).                                                         *)
(***************************************************************************)
THEOREM NextRequest == Spec => []EffectiveOnNextRequest
<1>1. IInv => EffectiveOnNextRequest
  BY DEF IInv
<1>2. QED
  BY <1>1, Invariance, PTL

(***************************************************************************)
(* What the audit trail says of a credential is so (credential_service.py, *)
(* every _record).                                                         *)
(***************************************************************************)
THEOREM TruthfulTrail == Spec => []TrailIsTrue
<1>1. IInv => TrailIsTrue
  BY DEF IInv
<1>2. QED
  BY <1>1, Invariance, PTL

(***************************************************************************)
(* A credential that stopped working never works again                     *)
(* (credential_store.py, update_last_used, revoke and rotate).             *)
(***************************************************************************)
THEOREM Withdrawal == Spec => WithdrawnForGood
<1>1. ASSUME IInv, [Next]_vars
      PROVE  \A c \in minted : ~Usable(c) => ~Usable(c)'
  <2>1. TypeOK /\ TypeOK' /\ Ages
    BY <1>1, TypeStep, TableAges DEF IInv
  <2>2. QED
    BY <2>1, StaysUnusable
<1>2. QED
  BY <1>1, Invariance, PTL DEF Spec, WithdrawnForGood

-----------------------------------------------------------------------------
\* Only a rotation and a revoke write revoked_at, and a rotation only beside
\* the row it has just inserted.
LEMMA RotationStep ==
  ASSUME IInv, [Next]_vars, NEW c \in Ids,
         rows[c].revoked = Never, rows'[c].revoked # Never,
         \A p \in Operators : ~RevokedBy(p, c)
  PROVE  \E n \in Ids \ minted : rows'[n].stored /\ rows'[n].scopes = rows[c].scopes
<1>0. /\ rows \in [Ids -> Row] /\ minted \subseteq Ids
      /\ op \in [Operators -> Command] /\ req \in [Requests -> Request]
  BY DEF IInv, TypeOK
<1>1. rows' # rows
  OBVIOUS
<1>2. ASSUME NEW p \in Operators, NEW n \in Ids, NEW s \in SUBSET Scopes,
             NEW e \in Instant, Create(p, n, s, e)
      PROVE  FALSE
  BY <1>0, <1>2 DEF Create, Insert, Fresh
<1>3. ASSUME NEW p \in Operators, NEW n \in Ids, RotateCommit(p, n)
      PROVE  \E i \in Ids \ minted : rows'[i].stored /\ rows'[i].scopes = rows[c].scopes
  <2> DEFINE fresh    == Fresh(op[p].previous.scopes, op[p].expires)
             inserted == [rows EXCEPT ![n] = fresh]
  <2>1. fresh.stored /\ fresh.scopes = op[p].previous.scopes /\ fresh.revoked = Never
    BY DEF Fresh
  <2>2. CommandSound(p) /\ op[p].cmd = "rotate" /\ op[p].at = "read" /\ n \notin minted
    BY <1>3 DEF IInv, CommandsSound, RotateCommit
  <2>3. op[p].id \in minted
    BY <2>2 DEF CommandSound
  <2>4. rows[op[p].id].stored => op[p].previous.scopes = rows[op[p].id].scopes
    BY <2>2 DEF CommandSound
  <2> HIDE DEF fresh
  <2>5. /\ inserted[n] = fresh /\ DOMAIN inserted = Ids
        /\ \A i \in Ids : i # n => inserted[i] = rows[i]
    BY <1>0
  <2>6. inserted[c].revoked = Never
    BY <2>1, <2>5
  <2> HIDE DEF inserted
  <2>7. rows' = inserted \/ rows' = Revoked(inserted, op[p].id, op[p].moment)
    BY <1>3 DEF RotateCommit, inserted, fresh
  <2>8. c = op[p].id /\ inserted[c].stored /\ rows'[n] = fresh
    BY <1>0, <2>2, <2>3, <2>5, <2>6, <2>7 DEF Revoked
  <2>9. rows[c].stored
    BY <2>2, <2>3, <2>5, <2>8
  <2>10. QED
    BY <2>1, <2>2, <2>4, <2>8, <2>9
<1>4. ASSUME NEW p \in Operators, RevokeWrite(p)
      PROVE  FALSE
  <2>1. op[p].id = c
    BY <1>0, <1>4 DEF RevokeWrite, Revoked
  <2>2. QED
    BY <1>4, <2>1 DEF RevokeWrite, RevokedBy
<1>5. ASSUME NEW p \in Operators, PruneDelete(p)
      PROVE  FALSE
  BY <1>0, <1>5 DEF PruneDelete, NoRow
<1>6. ASSUME NEW r \in Requests, Touch(r)
      PROVE  FALSE
  BY <1>0, <1>6 DEF Touch, Touched, Row
<1>7. CASE \E p \in Operators : CommandStep(p)
  BY <1>1, <1>2, <1>3, <1>4, <1>5, <1>7, QuietCommands DEF CommandStep, Commands
<1>8. CASE \E r \in Requests : RequestStep(r)
  BY <1>1, <1>6, <1>8, QuietRequests DEF RequestStep
<1>9. QED
  BY <1>1, <1>7, <1>8 DEF Next, Tick, vars

\* Only the deletion of a prune takes a row away.
LEMMA PruneStep ==
  ASSUME IInv, [Next]_vars, NEW c \in Ids, rows[c].stored, ~rows'[c].stored
  PROVE  /\ ~Usable(c)
         /\ \E p \in Operators : op[p].at = "listed" /\ EndedBefore(c, op[p].cutoff)
<1>0. /\ rows \in [Ids -> Row] /\ minted \subseteq Ids
      /\ op \in [Operators -> Command] /\ req \in [Requests -> Request]
  BY DEF IInv, TypeOK
<1>1. rows' # rows
  OBVIOUS
<1>2. ASSUME NEW p \in Operators, NEW n \in Ids, NEW s \in SUBSET Scopes,
             NEW e \in Instant, Create(p, n, s, e)
      PROVE  FALSE
  BY <1>0, <1>2 DEF Create, Insert, Fresh
<1>3. ASSUME NEW p \in Operators, NEW n \in Ids, RotateCommit(p, n)
      PROVE  FALSE
  <2> DEFINE inserted == [rows EXCEPT ![n] = Fresh(op[p].previous.scopes, op[p].expires)]
  <2>1. inserted[c].stored /\ DOMAIN inserted = Ids
    BY <1>0 DEF Fresh
  <2>2. c # n
    BY <1>3 DEF RotateCommit, IInv, RowsSound
  <2>3. inserted[c] \in Row
    BY <1>0, <2>2
  <2> HIDE DEF inserted
  <2>4. rows' = inserted \/ rows' = Revoked(inserted, op[p].id, op[p].moment)
    BY <1>3 DEF RotateCommit, inserted
  <2>5. QED
    BY <2>1, <2>3, <2>4 DEF Revoked, Row
<1>4. ASSUME NEW p \in Operators, RevokeWrite(p)
      PROVE  FALSE
  BY <1>0, <1>4 DEF RevokeWrite, Revoked, Row
<1>5. ASSUME NEW p \in Operators, PruneDelete(p)
      PROVE  /\ ~Usable(c)
             /\ op[p].at = "listed" /\ EndedBefore(c, op[p].cutoff)
  <2>1. CommandSound(p) /\ op[p].at = "listed" /\ c \in op[p].doomed
    BY <1>5 DEF IInv, CommandsSound, PruneDelete
  <2>2. QED
    BY <2>1 DEF CommandSound
<1>6. ASSUME NEW r \in Requests, Touch(r)
      PROVE  FALSE
  BY <1>0, <1>6 DEF Touch, Touched, Row
<1>7. CASE \E p \in Operators : CommandStep(p)
  BY <1>1, <1>2, <1>3, <1>4, <1>5, <1>7, QuietCommands DEF CommandStep, Commands
<1>8. CASE \E r \in Requests : RequestStep(r)
  BY <1>1, <1>6, <1>8, QuietRequests DEF RequestStep
<1>9. QED
  BY <1>1, <1>7, <1>8 DEF Next, Tick, vars

(***************************************************************************)
(* A rotation that revokes the original has put its replacement in the     *)
(* table in the same step (credential_store.py, rotate).                   *)
(***************************************************************************)
THEOREM Rotation == Spec => RotationKeepsAWayIn
<1>1. ASSUME IInv, [Next]_vars
      PROVE  \A c \in Ids :
                /\ rows[c].revoked = Never /\ rows'[c].revoked # Never
                /\ \A p \in Operators : ~RevokedBy(p, c)
                => \E n \in Ids \ minted : /\ rows'[n].stored
                                           /\ rows'[n].scopes = rows[c].scopes
  BY <1>1, RotationStep
<1>2. QED
  BY <1>1, Invariance, PTL DEF Spec, RotationKeepsAWayIn

(***************************************************************************)
(* Pruning deletes only what had ended before its cutoff                   *)
(* (credential_service.py, prune).                                         *)
(***************************************************************************)
THEOREM Pruning == Spec => PruneSparesRecent
<1>1. ASSUME IInv, [Next]_vars
      PROVE  \A c \in Ids : rows[c].stored /\ ~rows'[c].stored =>
                /\ ~Usable(c)
                /\ \E p \in Operators : op[p].at = "listed" /\ EndedBefore(c, op[p].cutoff)
  BY <1>1, PruneStep
<1>2. QED
  BY <1>1, Invariance, PTL DEF Spec, PruneSparesRecent
=============================================================================

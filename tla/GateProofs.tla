------------------------------ MODULE GateProofs ------------------------------
(***************************************************************************)
(* Proofs about Gate and the Pepper it extends, for any number of          *)
(* processes, keys, tokens, capabilities and requests.                     *)
(***************************************************************************)
EXTENDS Gate, TLAPS

-----------------------------------------------------------------------------
(***************************************************************************)
(* The pepper.                                                             *)
(***************************************************************************)
\* Nothing is resolved and nobody has the file open at the start.
LEMMA PepperBegins == PepperInit => PepperInv
  BY PepperAssumption DEF PepperInit, PepperInv, PepperTypeOK, FillsAlone, Resolved

\* A process takes one step towards its pepper.
LEMMA StepKeepsPepper ==
  ASSUME NEW p \in Procs, PepperInv, PepperStep(p)
  PROVE  PepperInv'
<1> USE PepperAssumption DEF PepperInv, PepperTypeOK, FillsAlone, Resolved, Goto, Settle
<1>1. CASE Start(p)
  BY <1>1 DEF Start
<1>2. CASE UseConfigured(p)
  BY <1>2 DEF UseConfigured
<1>3. CASE LookAtFile(p)
  BY <1>3 DEF LookAtFile
<1>4. CASE Create(p)
  BY <1>4 DEF Create
<1>5. CASE Fill(p)
  BY <1>5 DEF Fill
<1>6. CASE FillRaises(p)
  BY <1>6 DEF FillRaises
<1> QED BY <1>1, <1>2, <1>3, <1>4, <1>5, <1>6 DEF PepperStep

\* A process ends, wherever it is.
LEMMA ExitKeepsPepper ==
  ASSUME NEW p \in Procs, PepperInv, Exit(p)
  PROVE  PepperInv'
  BY PepperAssumption DEF PepperInv, PepperTypeOK, FillsAlone, Resolved, Goto, Exit

\* The key in the file is never replaced.
LEMMA KeyStays ==
  ASSUME NEW p \in Procs, PepperInv, PepperStep(p) \/ Exit(p), file \in Procs
  PROVE  file' = file
  BY PepperAssumption DEF PepperInv, PepperTypeOK, FillsAlone, PepperStep, Start, UseConfigured,
     LookAtFile, Create, Fill, FillRaises, Exit, Goto, Settle

\* A process that is up stays up, with its key, until it ends.
LEMMA UpStays ==
  ASSUME NEW p \in Procs, NEW q \in Procs, PepperInv, run[q] = "up",
         PepperStep(p) \/ (p # q /\ Exit(p))
  PROVE  run'[q] = "up" /\ env'[q] = env[q] /\ pepper'[q] = pepper[q]
  BY DEF PepperInv, PepperTypeOK, PepperStep, Start, UseConfigured,
     LookAtFile, Create, Fill, FillRaises, Exit, Goto, Settle

-----------------------------------------------------------------------------
(***************************************************************************)
(* The gate.                                                               *)
(***************************************************************************)
USE GateAssumption, PepperAssumption

\* Nothing has been asked or recorded at the start.
LEMMA GateBegins == Init => IInv
<1> SUFFICES ASSUME Init PROVE IInv
  OBVIOUS
<1>1. PepperInv
  BY PepperBegins DEF Init
<1>2. TypeOK
  <2>1. NoRow \in Row /\ Away \in Request
    BY DEF NoRow, Row, Away, NoHeader, Request, Header, Places, Actors, Reasons
  <2>2. QED
    BY <1>1, <2>1 DEF Init, TypeOK, PepperInv
<1>3. RowsSound
  BY DEF Init, RowsSound, NoRow
<1>4. ASSUME NEW r \in Requests PROVE Sound(r)
  BY DEF Init, Sound, RequestSound, ReasonSound, GenuineVerifies, OneStory, Away, NoHeader, InFlight
<1>5. QED
  BY <1>1, <1>2, <1>3, <1>4 DEF IInv

-----------------------------------------------------------------------------
\* The steps of the pepper leave the rows in force.
LEMMA PepperKeepsRows ==
  ASSUME IInv, NEW p \in Procs, PepperStep(p) \/ Exit(p), rows' = rows
  PROVE  PepperInv' /\ RowsSound'
<1>1. PepperInv'
  BY StepKeepsPepper, ExitKeepsPepper DEF IInv
<1>2. RowsSound'
  BY KeyStays DEF IInv, RowsSound
<1>3. QED
  BY <1>1, <1>2

\* A request nobody touches stays sound while the daemon keeps its pepper and
\* rows keep what they grant, their key, and their end.
LEMMA SoundStays ==
  ASSUME IInv, NEW r \in Requests, req'[r] = req[r], trail'[r] = trail[r],
         req[r].at \in InFlight => run'[Api] = "up" /\ env'[Api] = env[Api],
         \A k \in Tokens : rows[k].status # "absent" =>
            /\ rows'[k].status # "absent" /\ rows'[k].scopes = rows[k].scopes
            /\ rows'[k].from = rows[k].from
            /\ rows[k].status # "active" => rows'[k].status = rows[k].status
  PROVE  Sound(r)'
<1> DEFINE header == req[r].header
<1>1. req[r] \in Request /\ Sound(r)
  BY DEF IInv, TypeOK
<1>2. header.kind = "token" => header.token \in Tokens
  BY <1>1 DEF Request, Header
<1>3. RequestSound(r)'
  BY <1>1, <1>2 DEF Sound, RequestSound, Identified
<1>4. ReasonSound(r)'
  BY <1>1, <1>2 DEF Sound, ReasonSound
<1>5. GenuineVerifies(r)'
  BY <1>1, <1>2 DEF Sound, ReasonSound, GenuineVerifies, InFlight
<1>6. OneStory(r)'
  BY <1>1 DEF Sound, OneStory, Allowed
<1>7. QED
  BY <1>1, <1>3, <1>4, <1>5, <1>6 DEF Sound

\* A request that is dropped with its daemon.
LEMMA SoundDropped ==
  ASSUME IInv, NEW r \in Requests, req'[r] = [req[r] EXCEPT !.at = "dropped"],
         trail'[r] = trail[r], rows' = rows, req[r].at \in InFlight
  PROVE  Sound(r)'
<1>1. req[r] \in Request /\ Sound(r)
  BY DEF IInv, TypeOK
<1>2. req'[r].at = "dropped" /\ req'[r].header = req[r].header /\ req'[r].actor = req[r].actor
      /\ req'[r].reason = req[r].reason
  BY <1>1 DEF Request
<1>3. RequestSound(r)'
  BY <1>2 DEF RequestSound, InFlight
<1>4. ReasonSound(r)' /\ GenuineVerifies(r)'
  BY <1>1, <1>2 DEF Sound, ReasonSound, GenuineVerifies
<1>5. OneStory(r)'
  BY <1>1, <1>2 DEF Sound, OneStory, InFlight
<1>6. QED
  BY <1>1, <1>2, <1>3, <1>4, <1>5 DEF Sound

-----------------------------------------------------------------------------
\* A process resolves its pepper or ends, and with the daemon its requests.
LEMMA ResolveKeeps ==
  ASSUME IInv, NEW p \in Procs, Resolve(p)
  PROVE  IInv'
<1>1. /\ PepperStep(p) \/ Exit(p)
      /\ rows' = rows /\ trail' = trail
  BY DEF Resolve
<1>2. PepperInv' /\ RowsSound'
  BY <1>1, PepperKeepsRows
<1>3. ASSUME NEW r \in Requests
      PROVE  \/ req'[r] = req[r]
             \/ /\ p = Api /\ Exit(p) /\ req[r].at \in InFlight
                /\ req'[r] = [req[r] EXCEPT !.at = "dropped"]
  BY DEF Resolve, IInv, TypeOK, Request, Places, InFlight
<1>4. ASSUME NEW r \in Requests, req'[r] = req[r], req[r].at \in InFlight
      PROVE  run'[Api] = "up" /\ env'[Api] = env[Api]
  <2>1. run[Api] = "up" /\ PepperInv /\ req[r] \in Request
    BY <1>4 DEF IInv, Sound, RequestSound, TypeOK
  <2>2. ~(p = Api /\ Exit(p))
    <3>1. SUFFICES ASSUME p = Api, Exit(p) PROVE FALSE
      OBVIOUS
    <3>2. ~PepperStep(p)
      BY <2>1, <3>1 DEF PepperStep, Start, UseConfigured, LookAtFile, Create, Fill, FillRaises
    <3>3. req'[r] = [req[r] EXCEPT !.at = "dropped"]
      BY <1>4, <3>1, <3>2 DEF Resolve, InFlight, Ended
    <3>4. QED
      BY <1>4, <2>1, <3>3 DEF InFlight, Request
  <2>3. QED
    BY <1>1, <2>1, <2>2, UpStays
<1>5. ASSUME NEW r \in Requests PROVE Sound(r)'
  BY <1>1, <1>3, <1>4, SoundStays, SoundDropped
<1>6. TypeOK'
  <2>1. req' \in [Requests -> Request]
    <3>1. req' = req \/ req' = [r \in Requests |-> req'[r]]
      BY DEF Resolve
    <3>2. ASSUME NEW r \in Requests PROVE req'[r] \in Request
      <4>1. req[r] \in Request
        BY DEF IInv, TypeOK
      <4>2. [req[r] EXCEPT !.at = "dropped"] \in Request
        BY <4>1 DEF Request, Places, Ended
      <4>3. QED
        BY <1>3, <4>1, <4>2
    <3>3. QED
      BY <3>1, <3>2 DEF IInv, TypeOK
  <2>2. QED
    BY <1>1, <1>2, <2>1 DEF IInv, TypeOK, PepperInv
<1>7. QED
  BY <1>2, <1>5, <1>6 DEF IInv

\* A command issues a token under the pepper it resolved.
LEMMA IssueKeeps ==
  ASSUME IInv, NEW p \in Procs, NEW k \in Tokens, Issue(p, k)
  PROVE  IInv'
<1>1. PICK granted \in (SUBSET Scopes) \ {{}} :
        rows' = [rows EXCEPT ![k] = [status |-> "active", scopes |-> granted,
                                     key |-> pepper[p], from |-> env[p]]]
  BY DEF Issue
<1>2. /\ Exit(p) /\ p # Api /\ run[p] = "up" /\ rows[k].status = "absent"
      /\ req' = req /\ trail' = trail
  BY DEF Issue
<1>3. PepperInv'
  BY <1>2, ExitKeepsPepper DEF IInv
<1>4. file' = file
  BY <1>2 DEF Exit
<1>5. RowsSound'
  <2>1. /\ env[p] # Short
        /\ pepper[p] = IF env[p] = Unset THEN file ELSE env[p]
        /\ env[p] = Unset => file \in Procs
    BY <1>2 DEF IInv, PepperInv, Resolved
  <2>2. rows'[k] = [status |-> "active", scopes |-> granted, key |-> pepper[p], from |-> env[p]]
        /\ \A j \in Tokens \ {k} : rows'[j] = rows[j]
    BY <1>1 DEF IInv, TypeOK
  <2>3. QED
    BY <1>4, <2>1, <2>2 DEF IInv, RowsSound
<1>6. TypeOK'
  <2>1. rows' \in [Tokens -> Row]
    BY <1>1 DEF IInv, TypeOK, PepperTypeOK, Row
  <2>2. QED
    BY <1>2, <1>3, <2>1 DEF IInv, TypeOK, PepperInv
<1>7. ASSUME NEW r \in Requests PROVE Sound(r)'
  <2>1. run[Api] = "up" => run'[Api] = "up" /\ env'[Api] = env[Api]
    BY <1>2, UpStays DEF IInv
  <2>2. req[r].at \in InFlight => run[Api] = "up"
    BY DEF IInv, Sound, RequestSound
  <2>3. \A j \in Tokens : rows[j].status # "absent" => rows'[j] = rows[j]
    BY <1>1, <1>2 DEF IInv, TypeOK
  <2>4. QED
    BY <1>2, <2>1, <2>2, <2>3, SoundStays
<1>8. QED
  BY <1>3, <1>5, <1>6, <1>7 DEF IInv

\* A token is revoked by a command, or its date passes.
LEMMA RetireKeeps ==
  ASSUME IInv, NEW k \in Tokens, Retire(k)
  PROVE  IInv'
<1>1. PICK end \in {"revoked", "expired"} : rows' = [rows EXCEPT ![k].status = end]
  BY DEF Retire
<1>2. /\ rows[k].status = "active" /\ req' = req /\ trail' = trail
      /\ (\E p \in Procs \ {Api} : Exit(p)) \/ UNCHANGED pepperVars
  BY DEF Retire
<1>3. PepperInv' /\ file' = file
  BY <1>2, ExitKeepsPepper
     DEF IInv, PepperInv, PepperTypeOK, FillsAlone, Resolved, pepperVars, Exit
<1>4. /\ rows'[k] = [rows[k] EXCEPT !.status = end]
      /\ \A j \in Tokens \ {k} : rows'[j] = rows[j]
      /\ rows' \in [Tokens -> Row]
  BY <1>1 DEF IInv, TypeOK, Row
<1>5. \A j \in Tokens :
        /\ rows'[j].scopes = rows[j].scopes /\ rows'[j].from = rows[j].from
        /\ rows'[j].key = rows[j].key
        /\ rows'[j].status = "absent" <=> rows[j].status = "absent"
        /\ rows[j].status # "active" => rows'[j].status = rows[j].status
  BY <1>2, <1>4 DEF IInv, TypeOK, Row
<1>6. RowsSound'
  BY <1>3, <1>5 DEF IInv, RowsSound
<1>7. TypeOK'
  BY <1>2, <1>3, <1>4 DEF IInv, TypeOK, PepperInv
<1>8. run[Api] = "up" => run'[Api] = "up" /\ env'[Api] = env[Api]
  BY <1>2, UpStays DEF IInv, pepperVars
<1>9. ASSUME NEW r \in Requests PROVE Sound(r)'
  <2>1. req[r].at \in InFlight => run[Api] = "up"
    BY DEF IInv, Sound, RequestSound
  <2>2. QED
    BY <1>2, <1>5, <1>8, <2>1, SoundStays
<1>10. QED
  BY <1>3, <1>6, <1>7, <1>9 DEF IInv

-----------------------------------------------------------------------------
\* A step of one request, if it leaves that request sound and of its type.
LEMMA RequestStepKeeps ==
  ASSUME IInv, NEW r \in Requests, UNCHANGED <<pepperVars, rows>>,
         NEW next \in Request, req' = [req EXCEPT ![r] = next],
         NEW events \in SUBSET Event, trail' = [trail EXCEPT ![r] = events],
         Sound(r)'
  PROVE  IInv'
<1>1. /\ PepperInv' /\ RowsSound'
      /\ run' = run /\ env' = env
  BY DEF IInv, PepperInv, PepperTypeOK, FillsAlone, Resolved, RowsSound, pepperVars
<1>2. TypeOK'
  BY <1>1 DEF IInv, TypeOK, PepperInv
<1>3. ASSUME NEW q \in Requests, q # r PROVE Sound(q)'
  <2>1. req'[q] = req[q] /\ trail'[q] = trail[q]
    BY <1>3 DEF IInv, TypeOK
  <2>2. req[q].at \in InFlight => run[Api] = "up"
    BY DEF IInv, Sound, RequestSound
  <2>3. QED
    BY <1>1, <2>1, <2>2, SoundStays
<1>4. QED
  BY <1>1, <1>2, <1>3 DEF IInv

\* What each kind of step of a request makes of its record and its trail.
LEMMA RequestTypes ==
  ASSUME IInv, NEW r \in Requests
  PROVE  /\ req[r] \in Request /\ trail[r] \in SUBSET Event /\ Sound(r)
         /\ req[r].header.kind = "token" => req[r].header.token \in Tokens
BY DEF IInv, TypeOK, Request, Header

\* The record of one request is replaced, its trail is not.
LEMMA Replaced ==
  ASSUME IInv, NEW r \in Requests, NEW next \in Request, req' = [req EXCEPT ![r] = next],
         trail' = trail
  PROVE  req'[r] = next /\ trail' = [trail EXCEPT ![r] = trail[r]] /\ trail'[r] = trail[r]
BY DEF IInv, TypeOK

\* A request arrives, with any headers and for any endpoint.
LEMMA ArriveKeeps ==
  ASSUME IInv, NEW r \in Requests, Arrive(r)
  PROVE  IInv'
<1>1. PICK header \in Header, need \in Scopes \cup {"health"} :
        req' = [req EXCEPT ![r].at = "arrived", ![r].header = header, ![r].need = need]
  BY DEF Arrive
<1> DEFINE next == [req[r] EXCEPT !.at = "arrived", !.header = header, !.need = need]
<1>2. /\ req[r].at = "away" /\ run[Api] = "up"
      /\ UNCHANGED <<pepperVars, rows, trail>> /\ run' = run
  BY DEF Arrive, pepperVars
<1>3. /\ next \in Request /\ req' = [req EXCEPT ![r] = next] /\ req'[r] = next
      /\ trail' = [trail EXCEPT ![r] = trail[r]] /\ trail'[r] = trail[r]
  <2>1. next \in Request
    <3>1. req[r] \in Request /\ "arrived" \in Places /\ "failing" \in Places /\ "proved" \in Places
      BY RequestTypes DEF Places
    <3>2. QED
      BY <3>1 DEF Request
  <2>2. req' = [req EXCEPT ![r] = next]
    BY <1>1
  <2>3. QED
    BY <1>2, <2>1, <2>2, Replaced
<1>4. Sound(r) /\ trail[r] = {} /\ req[r].reason = "no_reason" /\ req[r].actor = "anonymous"
  BY <1>2, RequestTypes DEF Sound, RequestSound
<1>5. /\ req'[r].at = "arrived" /\ req'[r].reason = "no_reason" /\ req'[r].actor = "anonymous"
      /\ trail'[r] = {}
  <2>1. req[r] \in Request
    BY RequestTypes
  <2>2. next.at = "arrived" /\ next.reason = req[r].reason /\ next.actor = req[r].actor
    BY <2>1 DEF Request
  <2>3. QED
    BY <1>3, <1>4, <2>2
<1>6. Sound(r)'
  BY <1>2, <1>5 DEF Sound, RequestSound, ReasonSound, GenuineVerifies, OneStory
<1>7. QED
  BY <1>2, <1>3, <1>6, RequestTypes, RequestStepKeeps

\* A step that only moves a request on, or refuses it, without recording it.
LEMMA RefuseKeeps ==
  ASSUME IInv, NEW r \in Requests, NEW reason \in Reasons, Refuse(r, reason),
         req[r].at \in {"arrived", "looking"}, UNCHANGED <<pepperVars, rows, trail>>,
         LET header == req[r].header
         IN /\ reason \in {"revoked", "expired"} =>
                 /\ header.kind = "token" /\ header.genuine
                 /\ rows[header.token].status = reason
            /\ reason = "secret_mismatch" =>
                 /\ header.kind = "token" /\ rows[header.token].status # "absent"
                 /\ header.genuine => rows[header.token].from # env[Api]
            /\ reason = "no_such_credential" => header.kind = "token"
  PROVE  IInv'
<1> DEFINE next == [req[r] EXCEPT !.at = "failing", !.reason = reason]
<1>1. /\ next \in Request /\ req' = [req EXCEPT ![r] = next] /\ req'[r] = next
      /\ trail' = [trail EXCEPT ![r] = trail[r]] /\ trail'[r] = trail[r]
  <2>1. next \in Request
    <3>1. req[r] \in Request /\ "arrived" \in Places /\ "failing" \in Places /\ "proved" \in Places
      BY RequestTypes DEF Places
    <3>2. QED
      BY <3>1 DEF Request
  <2>2. req' = [req EXCEPT ![r] = next]
    BY DEF Refuse
  <2>3. QED
    BY <2>1, <2>2, Replaced
<1>2. run[Api] = "up" /\ trail[r] = {} /\ req[r].actor = "anonymous"
  BY RequestTypes DEF Sound, RequestSound, InFlight
<1>3. /\ req'[r].at = "failing" /\ req'[r].reason = reason /\ req'[r].actor = "anonymous"
      /\ req'[r].header = req[r].header /\ trail'[r] = {}
      /\ run' = run /\ env' = env /\ rows' = rows
  <2>1. req[r] \in Request
    BY RequestTypes
  <2>2. next.actor = req[r].actor /\ next.header = req[r].header
        /\ next.at = "failing" /\ next.reason = reason
    BY <2>1 DEF Request
  <2>3. run' = run /\ env' = env /\ rows' = rows
    BY DEF pepperVars
  <2>4. QED
    BY <1>1, <1>2, <2>2, <2>3
<1>4. RequestSound(r)'
  BY <1>2, <1>3 DEF RequestSound
<1>5. ReasonSound(r)' /\ GenuineVerifies(r)'
  BY <1>3 DEF ReasonSound, GenuineVerifies
<1>6. Sound(r)'
  BY <1>3, <1>4, <1>5 DEF Sound, OneStory
<1>7. QED
  BY <1>1, <1>6, RequestTypes, RequestStepKeeps

\* A step that only moves a request on; what it must know of it is given.
LEMMA MoveKeeps ==
  ASSUME IInv, NEW r \in Requests, NEW place \in Places, Move(r, place),
         UNCHANGED <<pepperVars, rows, trail>>,
         \/ place = "thin" /\ req[r].at = "arrived"
         \/ place = "error" /\ req[r].at = "looking"
         \/ /\ place = "looking" /\ req[r].at = "arrived"
            /\ req[r].header.kind = "token" /\ ~req[r].header.more
         \/ /\ place = "touching" /\ req[r].at = "looking" /\ req[r].header.genuine
            /\ rows[req[r].header.token].status # "absent"
  PROVE  IInv'
<1> DEFINE next == [req[r] EXCEPT !.at = place]
<1>1. /\ next \in Request /\ req' = [req EXCEPT ![r] = next] /\ req'[r] = next
      /\ trail' = [trail EXCEPT ![r] = trail[r]] /\ trail'[r] = trail[r]
  <2>1. next \in Request
    BY RequestTypes DEF Request
  <2>2. req' = [req EXCEPT ![r] = next]
    BY DEF Move
  <2>3. QED
    BY <2>1, <2>2, Replaced
<1>2. /\ run[Api] = "up" /\ trail[r] = {} /\ req[r].actor = "anonymous"
      /\ req[r].reason = "no_reason"
  BY RequestTypes DEF Sound, RequestSound, InFlight
<1>3. /\ req'[r].at = place /\ req'[r].reason = "no_reason" /\ req'[r].actor = "anonymous"
      /\ req'[r].header = req[r].header /\ trail'[r] = {}
      /\ run' = run /\ env' = env /\ rows' = rows
  <2>1. req[r] \in Request
    BY RequestTypes
  <2>2. next.actor = req[r].actor /\ next.header = req[r].header
        /\ next.at = place /\ next.reason = req[r].reason
    BY <2>1 DEF Request
  <2>3. run' = run /\ env' = env /\ rows' = rows
    BY DEF pepperVars
  <2>4. QED
    BY <1>1, <1>2, <2>2, <2>3
<1>4. RequestSound(r)'
  BY <1>2, <1>3, RequestTypes DEF Sound, RequestSound
<1>5. Sound(r)'
  BY <1>3, <1>4 DEF Sound, OneStory, ReasonSound, GenuineVerifies
<1>6. QED
  BY <1>1, <1>5, RequestTypes, RequestStepKeeps

\* A step that learns who the caller is.
LEMMA IdentifyKeeps ==
  ASSUME IInv, NEW r \in Requests, NEW actor \in Actors, NEW scopes \in SUBSET Scopes,
         Identify(r, actor, scopes), UNCHANGED <<pepperVars, rows, trail>>,
         req[r].at \in {"arrived", "touching"}, ~req[r].header.more,
         \/ /\ req[r].header.kind = "legacy" /\ LegacyConfigured
            /\ actor = "legacy" /\ scopes = LegacyScopes
         \/ /\ req[r].header.kind = "token" /\ req[r].header.genuine
            /\ rows[req[r].header.token].status # "absent"
            /\ actor = req[r].header.token /\ scopes = rows[req[r].header.token].scopes
  PROVE  IInv'
<1> DEFINE next == [req[r] EXCEPT !.at = "proved", !.actor = actor, !.scopes = scopes]
<1>1. /\ next \in Request /\ req' = [req EXCEPT ![r] = next] /\ req'[r] = next
      /\ trail' = [trail EXCEPT ![r] = trail[r]] /\ trail'[r] = trail[r]
  <2>1. next \in Request
    <3>1. req[r] \in Request /\ "arrived" \in Places /\ "failing" \in Places /\ "proved" \in Places
      BY RequestTypes DEF Places
    <3>2. QED
      BY <3>1 DEF Request
  <2>2. req' = [req EXCEPT ![r] = next]
    BY DEF Identify
  <2>3. QED
    BY <2>1, <2>2, Replaced
<1>2. run[Api] = "up" /\ trail[r] = {} /\ req[r].reason = "no_reason"
  BY RequestTypes DEF Sound, RequestSound, InFlight
<1>3. /\ req'[r].at = "proved" /\ req'[r].reason = "no_reason" /\ req'[r].actor = actor
      /\ req'[r].scopes = scopes /\ req'[r].header = req[r].header /\ trail'[r] = {}
      /\ run' = run /\ rows' = rows
  <2>1. req[r] \in Request
    BY RequestTypes
  <2>2. /\ next.at = "proved" /\ next.actor = actor /\ next.scopes = scopes
        /\ next.header = req[r].header /\ next.reason = req[r].reason
    BY <2>1 DEF Request
  <2>3. run' = run /\ rows' = rows
    BY DEF pepperVars
  <2>4. QED
    BY <1>1, <1>2, <2>2, <2>3
<1>4. RequestSound(r)'
  BY <1>2, <1>3 DEF RequestSound, Identified
<1>5. Sound(r)'
  BY <1>3, <1>4 DEF Sound, OneStory, ReasonSound, GenuineVerifies
<1>6. QED
  BY <1>1, <1>5, RequestTypes, RequestStepKeeps

\* A step that ends in an answer, or a denial to come, and may record an event.
LEMMA AnswerKeeps ==
  ASSUME IInv, NEW r \in Requests, NEW place \in Places, Move(r, place),
         NEW event \in Event, Noting(r, event), UNCHANGED <<pepperVars, rows>>,
         event.reason \in {"no_reason", req[r].reason},
         \/ /\ req[r].at = "failing" /\ place \in {"thin", "unauthorized"}
            /\ event.what = "failed"
         \/ /\ req[r].at = "proved" /\ place \in {"thin", "detailed", "served", "denied"}
            /\ event.what = "succeeded" /\ event.actor = req[r].actor
            /\ place = "served" => req[r].need \in req[r].scopes
            /\ place = "detailed" => SystemRead \in req[r].scopes
            /\ place = "denied" => req[r].need \notin req[r].scopes
         \/ /\ req[r].at = "denied" /\ place = "forbidden"
            /\ event.what = "denied" /\ event.actor = req[r].actor
  PROVE  IInv'
<1> DEFINE next == [req[r] EXCEPT !.at = place]
<1>1. PICK events \in {trail[r], trail[r] \cup {event}} : trail' = [trail EXCEPT ![r] = events]
  BY DEF Noting, IInv, TypeOK
<1>2. /\ next \in Request /\ req' = [req EXCEPT ![r] = next] /\ req'[r] = next
      /\ events \in SUBSET Event /\ trail'[r] = events
  BY <1>1, RequestTypes DEF Move, IInv, TypeOK, Request
<1>3. /\ req'[r].at = place /\ req'[r].reason = req[r].reason /\ req'[r].actor = req[r].actor
      /\ req'[r].scopes = req[r].scopes /\ req'[r].header = req[r].header
      /\ req'[r].need = req[r].need /\ run' = run /\ env' = env /\ rows' = rows
  <2>1. req[r] \in Request
    BY RequestTypes
  <2>2. /\ next.at = place /\ next.actor = req[r].actor /\ next.scopes = req[r].scopes
        /\ next.header = req[r].header /\ next.reason = req[r].reason
        /\ next.need = req[r].need
    BY <2>1 DEF Request
  <2>3. run' = run /\ env' = env /\ rows' = rows
    BY DEF pepperVars
  <2>4. QED
    BY <1>2, <2>2, <2>3
<1>4. Sound(r) /\ run[Api] = "up"
  BY RequestTypes DEF Sound, RequestSound, InFlight
<1>5. req[r].at \in {"proved", "denied"} =>
        Identified(r) /\ req[r].actor \in {"legacy"} \cup Tokens
  BY <1>4, RequestTypes DEF Sound, RequestSound, Identified
<1>6. RequestSound(r)'
  BY <1>3, <1>4, <1>5 DEF Sound, RequestSound, Identified
<1>7. ReasonSound(r)' /\ GenuineVerifies(r)'
  BY <1>3, <1>4 DEF Sound, ReasonSound, GenuineVerifies
<1>8. OneStory(r)'
  <2>1. \A old \in trail[r] :
          /\ req[r].at = "denied" /\ old.what = "succeeded" /\ old.actor = req[r].actor
          /\ old.actor # "anonymous"
    <3>1. req[r].at \in {"failing", "proved"} => trail[r] = {}
      BY <1>4 DEF Sound, RequestSound
    <3>2. SUFFICES ASSUME NEW old \in trail[r], req[r].at = "denied"
                   PROVE  old.what = "succeeded" /\ old.actor = req[r].actor
                          /\ old.actor # "anonymous"
      BY <3>1
    <3>3. old.what \in {"failed", "succeeded", "denied"}
      BY RequestTypes DEF Event
    <3>4. QED
      BY <1>4, <3>2, <3>3 DEF Sound, OneStory
  <2>2. req[r].at = "failing" => req[r].actor = "anonymous"
    BY <1>4 DEF Sound, RequestSound
  <2>3. req[r].at \in {"proved", "denied"} => req[r].actor # "anonymous"
    BY <1>5
  <2>4. place = "forbidden" => ~Allowed(r)'
    BY <1>3, <1>4 DEF Sound, RequestSound, Allowed
  <2>5. \A one \in events : one \in trail[r] \/ one = event
    OBVIOUS
  <2>6. QED
    BY <1>2, <1>3, <2>1, <2>2, <2>3, <2>4, <2>5 DEF OneStory
<1>9. Sound(r)'
  BY <1>2, <1>3, <1>4, <1>6, <1>7, <1>8 DEF Sound
<1>10. QED
  BY <1>1, <1>2, <1>9, RequestStepKeeps

-----------------------------------------------------------------------------
\* The steps of a request.
LEMMA ParseKeeps ==
  ASSUME IInv, NEW r \in Requests, Parse(r)
  PROVE  IInv'
<1>1. req[r].at = "arrived" /\ UNCHANGED <<pepperVars, rows, trail>>
  BY DEF Parse
<1>2. CASE req[r].header.kind = "none" /\ req[r].need = "health"
  BY <1>1, <1>2, MoveKeeps DEF Parse, Places, Ended
<1>3. CASE ~(req[r].header.kind = "none" /\ req[r].need = "health") /\ Ambiguous(req[r].header)
  BY <1>1, <1>3, RefuseKeeps DEF Parse, Reasons
<1>4. CASE ~Ambiguous(req[r].header) /\ Recognise(r)
  <2>1. ~req[r].header.more
    BY <1>4 DEF Ambiguous
  <2>2. ASSUME NEW reason \in {"missing", "malformed", "unconfigured", "unknown"}, Refuse(r, reason)
        PROVE  IInv'
    BY <1>1, <2>2, RefuseKeeps DEF Reasons
  <2>3. CASE req[r].header.kind = "legacy" /\ LegacyConfigured
             /\ Identify(r, "legacy", LegacyScopes)
    BY <1>1, <2>1, <2>3, IdentifyKeeps DEF Actors
  <2>4. CASE req[r].header.kind = "token" /\ Move(r, "looking")
    BY <1>1, <2>1, <2>4, MoveKeeps DEF Places
  <2>5. QED
    BY <1>4, <2>2, <2>3, <2>4 DEF Recognise
<1>5. QED
  BY <1>2, <1>3, <1>4 DEF Parse

LEMMA LookUpKeeps ==
  ASSUME IInv, NEW r \in Requests, LookUp(r)
  PROVE  IInv'
<1> DEFINE header == req[r].header
           row == rows[header.token]
<1>1. /\ req[r].at = "looking" /\ UNCHANGED <<pepperVars, rows, trail>>
      /\ run[Api] = "up" /\ header.kind = "token" /\ header.token \in Tokens
      /\ row \in Row
  BY RequestTypes DEF LookUp, Sound, RequestSound, InFlight, IInv, TypeOK
<1>2. CASE Verdict(header) # "no_reason" /\ Refuse(r, Verdict(header))
  <2>1. /\ Verdict(header) \in {"no_such_credential", "secret_mismatch", "revoked", "expired"}
        /\ Verdict(header) \in {"revoked", "expired"} =>
             header.genuine /\ row.status = Verdict(header)
        /\ Verdict(header) = "secret_mismatch" =>
             row.status # "absent" /\ ~(header.genuine /\ row.key = pepper[Api])
    <3>1. row.status \in {"absent", "active", "revoked", "expired"}
      BY <1>1 DEF Row
    <3> HIDE DEF row
    <3>2. CASE row.status = "absent"
      BY <3>2 DEF Verdict, row
    <3>3. CASE row.status # "absent" /\ ~(header.genuine /\ row.key = pepper[Api])
      BY <3>3 DEF Verdict, row
    <3>4. CASE row.status = "active" /\ header.genuine /\ row.key = pepper[Api]
      BY <1>2, <3>4 DEF Verdict, row
    <3>5. CASE row.status \in {"revoked", "expired"} /\ header.genuine /\ row.key = pepper[Api]
      BY <3>5 DEF Verdict, row
    <3>6. QED
      BY <3>1, <3>2, <3>3, <3>4, <3>5
  <2>2. ASSUME header.genuine, row.status # "absent", row.key # pepper[Api]
        PROVE  row.from # env[Api]
    <3>1. row.key = IF row.from = Unset THEN file ELSE row.from
      BY <1>1, <2>2 DEF IInv, RowsSound
    <3>2. pepper[Api] = IF env[Api] = Unset THEN file ELSE env[Api]
      BY <1>1 DEF IInv, PepperInv, Resolved
    <3>3. QED
      BY <2>2, <3>1, <3>2
  <2>3. QED
    BY <1>1, <1>2, <2>1, <2>2, RefuseKeeps DEF Reasons
<1>3. CASE Verdict(header) = "no_reason" /\ Move(r, "touching")
  <2>1. header.genuine /\ row.status # "absent"
    BY <1>1, <1>3 DEF Verdict, Row
  <2>2. QED
    BY <1>1, <1>3, <2>1, MoveKeeps DEF Places
<1>4. QED
  BY <1>2, <1>3 DEF LookUp

LEMMA TouchKeeps ==
  ASSUME IInv, NEW r \in Requests, Touch(r)
  PROVE  IInv'
<1> DEFINE header == req[r].header
<1>1. /\ req[r].at = "touching" /\ UNCHANGED <<pepperVars, rows, trail>>
      /\ Identify(r, header.token, rows[header.token].scopes)
      /\ header.kind = "token" /\ ~header.more /\ header.genuine /\ header.token \in Tokens
      /\ rows[header.token].status # "absent"
  BY RequestTypes DEF Touch, Sound, RequestSound
<1>2. rows[header.token].scopes \in SUBSET Scopes
  BY <1>1 DEF IInv, TypeOK, Row
<1>3. QED
  BY <1>1, <1>2, IdentifyKeeps DEF Actors

LEMMA FailKeeps ==
  ASSUME IInv, NEW r \in Requests, Fail(r)
  PROVE  IInv'
<1> DEFINE event == [what |-> "failed", actor |-> "anonymous", reason |-> req[r].reason]
           place == IF req[r].need = "health" THEN "thin" ELSE "unauthorized"
<1>1. event \in Event
  BY RequestTypes DEF Event, Request, Actors
<1>2. place \in Places /\ place \in {"thin", "unauthorized"}
  BY DEF Places, Ended
<1>3. /\ req[r].at = "failing" /\ Move(r, place) /\ Noting(r, event)
      /\ UNCHANGED <<pepperVars, rows>>
  BY DEF Fail
<1> HIDE DEF place
<1>4. QED
  BY <1>1, <1>2, <1>3, AnswerKeeps

LEMMA SucceedKeeps ==
  ASSUME IInv, NEW r \in Requests, Succeed(r)
  PROVE  IInv'
<1> DEFINE event == [what |-> "succeeded", actor |-> req[r].actor, reason |-> "no_reason"]
<1>1. event \in Event
  BY RequestTypes DEF Event, Request
<1>2. req[r].at = "proved" /\ Noting(r, event) /\ UNCHANGED <<pepperVars, rows>>
  BY DEF Succeed
<1>3. req[r].actor # "anonymous"
  BY <1>2, RequestTypes DEF Sound, RequestSound, Identified
<1>4. PICK place \in {"thin", "detailed", "served", "denied"} :
        /\ Move(r, place)
        /\ place = "served" => req[r].need \in req[r].scopes
        /\ place = "detailed" => SystemRead \in req[r].scopes
        /\ place = "denied" => req[r].need \notin req[r].scopes
  <2>1. CASE req[r].need = "health"
    BY <2>1 DEF Succeed
  <2>2. CASE req[r].need # "health"
    BY <1>3, <2>2 DEF Succeed, Allowed
  <2>3. QED
    BY <2>1, <2>2
<1>5. place \in Places
  BY DEF Places, Ended
<1>6. QED
  BY <1>1, <1>2, <1>4, <1>5, AnswerKeeps

LEMMA DenyKeeps ==
  ASSUME IInv, NEW r \in Requests, Deny(r)
  PROVE  IInv'
<1> DEFINE event == [what |-> "denied", actor |-> req[r].actor, reason |-> "no_reason"]
<1>1. event \in Event
  BY RequestTypes DEF Event, Request
<1>2. /\ req[r].at = "denied" /\ Noting(r, event) /\ Move(r, "forbidden")
      /\ UNCHANGED <<pepperVars, rows>>
  BY DEF Deny
<1>3. "forbidden" \in Places
  BY DEF Places, Ended
<1>4. QED
  BY <1>1, <1>2, <1>3, AnswerKeeps

LEMMA NextKeeps == IInv /\ [Next]_vars => IInv'
<1> SUFFICES ASSUME IInv, [Next]_vars PROVE IInv'
  OBVIOUS
<1>1. ASSUME NEW p \in Procs, Resolve(p) PROVE IInv'
  BY <1>1, ResolveKeeps
<1>2. ASSUME NEW p \in Procs, NEW k \in Tokens, Issue(p, k) PROVE IInv'
  BY <1>2, IssueKeeps
<1>3. ASSUME NEW k \in Tokens, Retire(k) PROVE IInv'
  BY <1>3, RetireKeeps
<1>4. ASSUME NEW r \in Requests, Arrive(r) PROVE IInv'
  BY <1>4, ArriveKeeps
<1>5. ASSUME NEW r \in Requests, Handle(r) PROVE IInv'
  <2>1. CASE LookUpRaises(r)
    BY <2>1, MoveKeeps DEF LookUpRaises, Places, Ended
  <2>2. QED
    BY <1>5, <2>1, ParseKeeps, LookUpKeeps, TouchKeeps, FailKeeps, SucceedKeeps, DenyKeeps
       DEF Handle
<1>6. CASE UNCHANGED vars
  <2>1. /\ run' = run /\ env' = env /\ file' = file /\ pepper' = pepper
        /\ rows' = rows /\ req' = req /\ trail' = trail
    BY <1>6 DEF vars, gateVars, pepperVars
  <2>2. TypeOK' /\ PepperInv' /\ RowsSound'
    BY <2>1 DEF IInv, TypeOK, PepperInv, PepperTypeOK, FillsAlone, Resolved, RowsSound
  <2>3. ASSUME NEW r \in Requests PROVE Sound(r)'
    <3>1. req[r].at \in InFlight => run[Api] = "up"
      BY DEF IInv, Sound, RequestSound
    <3>2. QED
      BY <2>1, <3>1, SoundStays
  <2>4. QED
    BY <2>2, <2>3 DEF IInv
<1>7. QED
  BY <1>1, <1>2, <1>3, <1>4, <1>5, <1>6 DEF Next

\* The strengthened invariant of the gate and of the pepper under it: what is
\* known of the file, of every row and of a request at each of its awaits.
THEOREM Invariance == Spec => []IInv
  BY GateBegins, NextKeeps, PTL DEF Spec

\* Every variable of Gate and Pepper keeps its type (interface/security.py).
THEOREM TypeCorrect == Spec => []TypeOK
<1>1. IInv => TypeOK
  BY DEF IInv
<1>2. QED
  BY <1>1, Invariance, PTL

\* Any number of processes that start at once and die anywhere agree on the
\* key in the data directory (security/pepper.py, resolve_pepper).
THEOREM OnePepperForAll == Spec => []OnePepper
<1>1. IInv => OnePepper
  BY DEF IInv, PepperInv, Resolved, OnePepper
<1>2. QED
  BY <1>1, Invariance, PTL

\* The key that reached the file is never replaced (the "x" of its opening).
THEOREM FirstKeyIsKept == Spec => FirstKeyStays
<1>1. IInv /\ [Next]_vars => [(file \in Procs) => (file' = file)]_pepperVars
  <2> SUFFICES ASSUME IInv, [Next]_vars, file \in Procs PROVE file' = file
    OBVIOUS
  <2>1. PepperInv
    BY DEF IInv
  <2>2. \/ UNCHANGED pepperVars
        \/ \E p \in Procs : PepperStep(p) \/ Exit(p)
    BY DEF Next, Resolve, Issue, Retire, Arrive, Handle, Parse, LookUp, LookUpRaises, Touch,
       Fail, Succeed, Deny, vars
  <2>3. QED
    BY <2>1, <2>2, KeyStays DEF pepperVars
<1>2. QED
  BY <1>1, Invariance, PTL DEF Spec, FirstKeyStays

\* No token is refused to its holder because of who started first
\* (security/authn.py, verify_secret under the daemon's pepper).
THEOREM TokensVerify == Spec => []GenuineTokensVerify
<1>1. IInv => GenuineTokensVerify
  BY DEF IInv, Sound, GenuineTokensVerify
<1>2. QED
  BY <1>1, Invariance, PTL

\* Whoever is let in proved it with one header (interface/security.py).
THEOREM GrantsAreProved == Spec => []GrantedWasProved
<1>1. IInv => GrantedWasProved
  <2> SUFFICES ASSUME IInv, NEW r \in Requests
               PROVE  /\ req[r].at = "served" => Proves(req[r].header, req[r].need)
                      /\ req[r].at = "detailed" => Proves(req[r].header, SystemRead)
    BY DEF GrantedWasProved
  <2>1. /\ req[r].at \in {"served", "detailed"} => Identified(r)
        /\ req[r].at = "served" => req[r].need \in req[r].scopes
        /\ req[r].at = "detailed" => SystemRead \in req[r].scopes
    BY DEF IInv, Sound, RequestSound
  <2>2. QED
    BY <2>1 DEF Identified, Proves
<1>2. QED
  BY <1>1, Invariance, PTL

\* The reason recorded of a refusal is the truth (AuthFailureDetail).
THEOREM DetailsAreTrue == Spec => []DetailIsHonest
<1>1. IInv => DetailIsHonest
  BY DEF IInv, Sound, ReasonSound, DetailIsHonest
<1>2. QED
  BY <1>1, Invariance, PTL

\* The trail of a request agrees with its answer (interface/security.py).
THEOREM TrailIsConsistent == Spec => []TrailTellsOneStory
<1>1. IInv => TrailTellsOneStory
  BY DEF IInv, Sound, TrailTellsOneStory
<1>2. QED
  BY <1>1, Invariance, PTL
=============================================================================

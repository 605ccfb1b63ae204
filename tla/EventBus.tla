------------------------------ MODULE EventBus ------------------------------
(***************************************************************************)
(* InProcessEventBus and Subscription (core/events.py), the coroutines     *)
(* that publish through the bus, and one SSE stream over it (task_events   *)
(* in interface/api.py).                                                   *)
(*                                                                         *)
(* publish appends to the history, awaits every handler, and only then     *)
(* offers the event to the subscriptions it found when it began; other     *)
(* publishers and the stream run during those awaits.  An event is named   *)
(* by its position in log.                                                 *)
(***************************************************************************)
EXTENDS Integers, Sequences, FiniteSets

CONSTANTS
  Task,          \* the publisher that is the streamed task's own coroutine
  Related,       \* publishers of the same task id (an approval being resolved)
  Unrelated,     \* publishers of other tasks
  Quota,         \* bound: how many events each publisher publishes at most
  HistorySize,   \* deque maxlen (2000 in the code)
  HistoryLimit,  \* events one replay returns (200)
  QueueSize,     \* subscription queue (512)
  End            \* the None that tells a consumer the subscription is closed

Publishers == {Task} \cup Related \cup Unrelated

ASSUME SizeAssumption ==
  /\ HistorySize \in Nat \ {0} /\ HistoryLimit \in Nat \ {0} /\ QueueSize \in Nat \ {0}
  /\ Quota \in [Publishers -> Nat]

ASSUME EndAssumption == End \notin Nat

VARIABLES
  log,        \* every event ever appended: its publisher, and whether terminal
  pub,        \* per publisher: the event it is publishing, 0 if none
  heard,      \* per publisher: its event's list of subscriptions has the stream's
  published,  \* the events whose publish() has returned
  finished,   \* handle.done(): the task's coroutine has ended
  sub,        \* the stream's subscription: "none", "open" or "closed"
  queue,      \* its queue
  dropped,    \* its counter
  stream,     \* where the stream's generator is
  wants,      \* the client asked for a replay
  replay,     \* events the replay has still to send, the oldest first
  sent,       \* the events sent to the client
  whole       \* history: the replay had every event of the task so far

busVars == <<log, pub, heard, published>>
subVars == <<sub, queue, dropped>>
streamVars == <<stream, wants, replay, sent, whole>>
eventVars == <<busVars, finished, subVars, streamVars>>

Events == 1..Len(log)

\* Subscription.offer's filter, and history's: the streamed task's events.
Mine(e) == log[e].by \in {Task} \cup Related

Terminal(e) == log[e].terminal

EventInit ==
  /\ log = <<>> /\ published = {}
  /\ pub = [p \in Publishers |-> 0]
  /\ heard = [p \in Publishers |-> FALSE]
  /\ finished = FALSE
  /\ sub = "none" /\ queue = <<>> /\ dropped = 0
  /\ stream = "unopened" /\ wants = FALSE /\ replay = {} /\ sent = {} /\ whole = FALSE

-----------------------------------------------------------------------------
\* publish.

Count(p) == Cardinality({e \in Events : log[e].by = p})

\* Under the lock: the history grows, the lists are copied.
BeginPublish(p, terminal) ==
  /\ pub[p] = 0
  /\ Count(p) < Quota[p]
  /\ p = Task => ~finished /\ ~\E e \in Events : Terminal(e)
  /\ terminal => p = Task
  /\ log' = Append(log, [by |-> p, terminal |-> terminal])
  /\ pub' = [pub EXCEPT ![p] = Len(log')]
  /\ heard' = [heard EXCEPT ![p] = (sub = "open")]
  /\ UNCHANGED <<published, finished, subVars, streamVars>>

\* Mutant: a full queue drops the oldest and does not count it.
OfferSilently(e) ==
  IF sub # "open" \/ ~Mine(e) THEN UNCHANGED subVars
  ELSE /\ queue' = Append(IF Len(queue) < QueueSize THEN queue ELSE Tail(queue), e)
       /\ UNCHANGED <<sub, dropped>>

\* Mutant: the newest event takes the place of the oldest.
OfferInPlace(e) ==
  IF sub # "open" \/ ~Mine(e) THEN UNCHANGED subVars
  ELSE /\ IF Len(queue) < QueueSize
          THEN queue' = Append(queue, e) /\ UNCHANGED dropped
          ELSE queue' = [queue EXCEPT ![1] = e] /\ dropped' = dropped + 1
       /\ UNCHANGED sub

\* Mutant: a full queue refuses the newest event instead of dropping the oldest.
OfferRefuses(e) ==
  IF sub # "open" \/ ~Mine(e) THEN UNCHANGED subVars
  ELSE /\ IF Len(queue) < QueueSize
          THEN queue' = Append(queue, e) /\ UNCHANGED dropped
          ELSE dropped' = dropped + 1 /\ UNCHANGED queue
       /\ UNCHANGED sub

\* Subscription.offer: drop the oldest when full.
Offer(e) ==
  IF sub # "open" \/ ~Mine(e) THEN UNCHANGED subVars
  ELSE /\ IF Len(queue) < QueueSize
          THEN queue' = Append(queue, e) /\ UNCHANGED dropped
          ELSE queue' = Append(Tail(queue), e) /\ dropped' = dropped + 1
       /\ UNCHANGED sub

\* The handlers are through, each returned or its exception was caught and
\* counted: the subscriptions get the event, publish returns.
Publish(p) ==
  /\ pub[p] # 0
  /\ IF heard[p] THEN Offer(pub[p]) ELSE UNCHANGED subVars
  /\ published' = published \cup {pub[p]}
  /\ pub' = [pub EXCEPT ![p] = 0]
  /\ UNCHANGED <<log, heard, finished, streamVars>>

\* The publisher is cancelled during a handler: CancelledError is no Exception,
\* so it escapes publish, and the event is in the history and nowhere else.
CancelPublish(p) ==
  /\ pub[p] # 0
  /\ pub' = [pub EXCEPT ![p] = 0]
  /\ finished' = (finished \/ p = Task)
  /\ UNCHANGED <<log, heard, published, subVars, streamVars>>

\* The task's coroutine ends: after its terminal event, or without one.
FinishTask ==
  /\ pub[Task] = 0
  /\ ~finished
  /\ finished' = TRUE
  /\ UNCHANGED <<busVars, subVars, streamVars>>

-----------------------------------------------------------------------------
\* The stream.

Open(wantsReplay) ==
  /\ stream = "unopened"
  /\ wants' = wantsReplay
  /\ sub' = "open"
  /\ stream' = "opened"
  /\ UNCHANGED <<busVars, finished, queue, dropped, replay, sent, whole>>

\* Subscription.close: the sentinel, unless the queue is full.
CloseSubscription ==
  /\ sub' = "closed"
  /\ queue' = IF sub = "open" /\ Len(queue) < QueueSize THEN Append(queue, End) ELSE queue
  /\ UNCHANGED dropped

EndStream == stream' = "ended" /\ CloseSubscription

\* bus.history(task_id): of the events the deque still has, the last
\* HistoryLimit that match.
Remembered == {e \in Events : Mine(e) /\ e > Len(log) - HistorySize}
Buffered == {e \in Remembered : Cardinality({f \in Remembered : f > e}) < HistoryLimit}

\* The replay is out: a task that is done needs no live stream.
GoLive == IF finished THEN EndStream ELSE stream' = "live" /\ UNCHANGED subVars

\* The generator starts: the history is copied now, not when the stream opened.
\* It is suspended only where it sends.
Start ==
  /\ stream = "opened"
  /\ replay' = IF wants THEN Buffered ELSE {}
  /\ whole' = (wants /\ \A e \in Events : Mine(e) => e \in Buffered)
  /\ IF replay' = {} THEN GoLive ELSE stream' = "replaying" /\ UNCHANGED subVars
  /\ UNCHANGED <<busVars, finished, wants, sent>>

ReplayNext ==
  /\ stream = "replaying"
  /\ \E e \in replay :
       /\ \A f \in replay : e <= f
       /\ sent' = sent \cup {e}
       /\ replay' = replay \ {e}
       /\ IF Terminal(e) THEN EndStream ELSE UNCHANGED <<stream, subVars>>
  /\ UNCHANGED <<busVars, finished, wants, whole>>

EndReplay ==
  /\ stream = "replaying"
  /\ replay = {}
  /\ GoLive
  /\ UNCHANGED <<busVars, finished, wants, replay, sent, whole>>

\* subscription.get, without which the stream sends a keepalive and waits on.
TakeLive ==
  /\ stream = "live"
  /\ queue # <<>>
  /\ IF Head(queue) = End
     THEN /\ queue' = Tail(queue)
          /\ stream' = "ended"
          /\ UNCHANGED <<sub, sent>>
     ELSE /\ sent' = sent \cup {Head(queue)}
          /\ IF Terminal(Head(queue))
             THEN stream' = "ended" /\ sub' = "closed"
             ELSE UNCHANGED <<stream, sub>>
          /\ queue' = Tail(queue)
  /\ UNCHANGED <<busVars, finished, dropped, wants, replay, whole>>

\* The client goes away.  A generator that has begun is closed, and its finally
\* closes the subscription; one that has not runs nothing, and the subscription
\* stays on the bus.
Disconnect ==
  /\ stream \in {"opened", "replaying", "live"}
  /\ stream' = "abandoned"
  /\ IF stream = "opened" THEN UNCHANGED subVars ELSE CloseSubscription
  /\ UNCHANGED <<busVars, finished, wants, replay, sent, whole>>

\* bus.aclose, at the end of Runtime.stop: after the grace, whatever still runs or
\* publishes.
CloseBus ==
  /\ sub = "open"
  /\ CloseSubscription
  /\ UNCHANGED <<busVars, finished, streamVars>>

Streaming == Start \/ ReplayNext \/ EndReplay \/ TakeLive

EventNext ==
  \/ \E p \in Publishers, terminal \in BOOLEAN : BeginPublish(p, terminal)
  \/ \E p \in Publishers : Publish(p) \/ CancelPublish(p)
  \/ FinishTask
  \/ \E wantsReplay \in BOOLEAN : Open(wantsReplay)
  \/ Streaming
  \/ Disconnect
  \/ CloseBus

\* The event loop runs a handler to its end and a generator whose client reads.
EventFairness ==
  /\ \A p \in Publishers : WF_eventVars(Publish(p))
  /\ WF_eventVars(Streaming)

EventSpec == EventInit /\ [][EventNext]_eventVars /\ EventFairness

-----------------------------------------------------------------------------
\* Properties.

EventTypeOK ==
  /\ log \in Seq([by: Publishers, terminal: BOOLEAN])
  /\ pub \in [Publishers -> 0..Len(log)]
  /\ heard \in [Publishers -> BOOLEAN]
  /\ published \subseteq Events /\ dropped \in Nat
  /\ finished \in BOOLEAN /\ whole \in BOOLEAN /\ wants \in BOOLEAN
  /\ sub \in {"none", "open", "closed"}
  /\ queue \in Seq(Events \cup {End}) /\ Len(queue) <= QueueSize
  /\ stream \in {"unopened", "opened", "replaying", "live", "ended", "abandoned"}
  /\ replay \subseteq Events /\ sent \subseteq Events

\* The events of its task that were published and the client has not been sent.
Missing == {e \in published : Mine(e) /\ e \notin sent}

\* No gap goes unnoticed between the replay and the live part, and none is larger
\* than the counter says: of a live stream that has emptied its queue and found
\* the whole history, the client misses no more events of its task than were
\* dropped, whatever was in flight when it subscribed or copied the history.
CaughtUp ==
  stream = "live" /\ sub = "open" /\ queue = <<>> /\ whole =>
    Cardinality(Missing) <= dropped

\* What waits in the queue is in the order in which each publisher published.
LiveInOrder ==
  \A i, j \in DOMAIN queue :
    /\ i < j
    /\ queue[i] # End /\ queue[j] # End
    /\ log[queue[i]].by = log[queue[j]].by
    => queue[i] < queue[j]

EndingPublished == \E e \in published : Terminal(e)

\* The subscription is open, or its queue holds the sentinel.
Told == sub = "open" \/ \E i \in DOMAIN queue : queue[i] = End

\* Once the task's ending is published, a stream that asked for a replay ends,
\* at whatever point of the publication it was opened, and of a shutdown: unless
\* its queue was full when the bus closed (see ClosedIsTold).
StreamEnds ==
  EndingPublished /\ stream # "unopened" /\ wants /\ Told
    ~> stream \in {"ended", "abandoned"}

-----------------------------------------------------------------------------
\* The inductive invariant.

\* An event that is being published is its publisher's own and latest, and has
\* reached no queue.
InFlight ==
  \A p \in Publishers : pub[p] # 0 =>
    /\ log[pub[p]].by = p
    /\ pub[p] \notin published
    /\ \A e \in Events : log[e].by = p => e <= pub[p]

\* Only what was published, and only the task's, is in the queue.
QueuePublished ==
  \A i \in DOMAIN queue : queue[i] # End => queue[i] \in published /\ Mine(queue[i])

\* The replay is over when the stream is live.
ReplayOver == stream \in {"unopened", "opened", "live"} => replay = {}

\* Where an event waits that the client has not been sent.
Ahead(e) == e \in replay \/ \E i \in DOMAIN queue : queue[i] = e

\* The events that are missing for good.
Gap == {e \in Missing : ~Ahead(e)}

\* A stream that still delivers, and found the whole history when it began.
Following == stream \in {"replaying", "live"} /\ sub = "open" /\ whole

\* The event p is publishing will be offered to the stream, or it is in the
\* history the stream has copied.
Offered(p) == pub[p] # 0 /\ Mine(pub[p]) => heard[p] \/ pub[p] \in sent \cup replay

\* What the client will never be sent was dropped and counted.
Accounted ==
  Following => Cardinality(Gap) <= dropped /\ \A p \in Publishers : Offered(p)

EventInv ==
  EventTypeOK /\ InFlight /\ QueuePublished /\ LiveInOrder /\ ReplayOver /\ Accounted

-----------------------------------------------------------------------------
\* Why StreamEnds holds.

\* Only the task's own coroutine publishes an ending, and a stream that goes on has
\* sent none.
EndingsFinal ==
  /\ \A e \in Events : Terminal(e) => log[e].by = Task
  /\ \A e \in sent : Terminal(e) => stream \in {"ended", "abandoned"}

\* The published ending is still ahead of a stream that found the whole history
\* and for which nothing was dropped.
EndingInReach ==
  Following /\ dropped = 0 /\ EndingPublished =>
    \E e \in published : Terminal(e) /\ Ahead(e)

-----------------------------------------------------------------------------
\* What the repository says, and the code does not do.

\* core/events.py:134, get returns "Next event, or ``None`` once the subscription
\* is closed": a consumer of a closed subscription never waits on an empty queue.
ClosedIsTold == ~(stream = "live" /\ sub = "closed" /\ queue = <<>>)

\* docs/ARCHITECTURE.md:215, "Dropped events are counted and reported": a stream
\* that ends, and sent no ending, has sent whatever was waiting for it.
NoneLeftBehind ==
  stream = "ended" /\ (\A e \in sent : ~Terminal(e)) =>
    \A i \in DOMAIN queue : queue[i] = End
=============================================================================

# Scrappy OS, verified

TLA+ specifications of the Scrappy OS control plane (`src/src/scrappy_os`),
the TLC configurations that check them, and TLAPS proofs about the parts that
matter most. Every definition is read from the code; `PROJECT.json` maps each one
to its lines. Where the code and its documents disagree, the model follows the
code; two runs that must fail, and a section below, keep the disagreements on record.

Source paths below are relative to `src/src/scrappy_os`.

## The system

One process runs an asyncio event loop. A task is a coroutine that plans with a
model, executes the plan's steps through one executor, and judges the result.
Several tasks, API requests and streams share the loop; other processes
(`scrappy approve`, `scrappy token`) share the SQLite file.

| Component | State | Operations | Talks to |
|---|---|---|---|
| Orchestration loop, `brain/orchestrator.py`, `brain/limits.py` | `Task.state`, `TaskBudget`, the plan in progress, `executed_steps`, the outcome | plan, review, run steps, verify, replan, roll back, end | agents, executor, bus, episodic memory |
| Agents, `agents/` | none | plan, review, verify, recover | model provider |
| Executor, `tools/executor.py` | the `ToolCall` in hand | resolve, validate, classify, judge, approve, spend, run, record | registry, policy, approvals, audit, bus |
| Policy, `security/policy.py` | none | `evaluate` | |
| Approvals, `security/approvals.py` | the `approvals` table, waiters | request, resolve, consume, wait_for, expire | store, bus; CLI prompt, API, other processes |
| Audit, `security/audit.py` | `audit_events`, `tool_calls` | record, record_call, record_result | store, bus handler |
| Event bus, `core/events.py` | history deque, handlers, subscriptions and their queues | publish, subscribe, history, close | everyone |
| API, `interface/api.py` | tracked task handles | submit, get, stream, resolve approval | runtime, bus, approvals |
| Runtime, `heart/runtime.py` | active tasks, counters, status, the parts' open or closed | start, stop, submit, spawn, health | all of the above |
| Heartbeat, `breath/heartbeat.py` | its task, last beat | start, stop, beat | bus |
| Store, `memory/store.py` | one connection that every coroutine shares, with its open transaction | execute, transaction, fetch, migrate | SQLite |
| Credentials, `security/credential*.py`, `interface/token_cli.py` | the `credentials` table | create, rotate, revoke, prune, touch | store; API requests, other processes |
| Authentication, `security/authn.py`, `authz.py`, `interface/security.py` | none, but for the request in hand | authenticate, require scope, optional identity | credential store, pepper |
| Pepper, `security/pepper.py` | one file | load or create | file system |
| Tools, `tools/*.py` | worker threads, processes | run | the machine |
| Providers, `models/` | one lazily made HTTP client, a JSON mode per context | generate, generate_structured, health_check, aclose | model servers |

What is hard in it, and what makes each part correct:

* **Budgets.** Nothing but the budgets ends the loop, and each is checked at some
  points and spent at others. Steps, replans and inferences must stay bounded on
  every path, recovery and errors included; a task must be reported exactly once,
  truthfully, and move only along `TASK_TRANSITIONS`.
* **The gate.** Between reading an approval and writing it there is an await; other
  people and other processes answer meanwhile, the approval lapses, the store fails.
  Nothing may run that policy or a human did not clear; the outcome's flags and the
  ledger must tell what happened.
* **Rule order.** The policy is a list of rules where the first match wins: it must
  leave no hole, and a worse risk must never be judged more kindly.
* **Publication.** `publish` awaits its handlers between copying the list of
  subscriptions and offering to them; a stream joins a replay of the history to a
  bounded live queue. No event may be missed unnoticed and every stream must end.
* **Shared store.** One connection for all coroutines, several processes on one file: a
  commit or a rollback is everybody's, and a migration meets another one.
* **Credentials.** Rotation, revocation, expiry and pruning race with requests; the key
  that tokens are verified with is made by whichever process starts first.
* **Start and stop.** Work may arrive, beat or be probed while parts are closing.
* **What a timeout leaves behind.** The executor's timeout ends a call and not its thread
  or its processes, which go on beside the next call.
* **One provider for everybody.** Turns of several tasks share a client and a mode.

`PROJECT.json` lists each of these at its line under `hazards`.

## Modules

| Module | Models |
|---|---|
| `TaskLifecycle` | abstract: what a task promises its watchers |
| `Orchestrator` | `Orchestrator.run` and `TaskBudget`; implements `TaskLifecycle` |
| `Policy` | `PolicyEngine.evaluate` and the risk order, as operators |
| `ApprovalLifecycle` | abstract: what an approval promises |
| `Approvals` | `ApprovalManager` and everyone who writes the table |
| `Executor` | `ToolExecutor.execute`, composed with `Policy` and `Approvals`; implements `ApprovalLifecycle` |
| `EventBus` | the bus, the publishers, a subscription and the SSE stream over it |
| `Credentials` | the `credentials` table, the `scrappy token` commands that write it and the requests that authenticate against it |
| `Store` | connect with its migration, `execute`, `transaction` and close on one connection |
| `Pepper` | `resolve_pepper` in several processes |
| `Gate` | a request from its headers to its answer and audit rows; composed with `Pepper` |
| `Runtime` | start, stop, objectives, the heartbeat and health probes |
| `Tools` | the threads of `fs.write`, `fs.move` and `fs.delete`, the processes of `shell.run` and the git tools |
| `Inference` | the agents' turns, their repairs, and the provider's client and JSON mode |
| `MC*` | the instances TLC checks |
| `*Proofs` | theorems about `Orchestrator`, `Executor`, `Credentials`, `Store` and `EventBus` (`ServicesProofs`), `Gate` with `Pepper`, `Runtime`, `Tools`, `Inference` |

A definition marked `Mutant:` is a plausible bug of the definition below it; it is
used by nothing, and is there to show that a property notices it (`mutants` in
`PROJECT.json`).

### Orchestrator

State: the fields of `TaskBudget` (`stepsExecuted`, `replans`,
`consecutiveFailures`, `modelCalls`; the clock is the Boolean `timeUp`),
`Task.state`, the plan and the cursor in it, `executed_steps`, and the outcome.
`at` is the await where the coroutine is suspended. Between two awaits the coroutine
runs alone, so one action is one stretch of code up to the next model turn, tool
call or terminal event: `BeginCycle` and `RefuseCycle` are the two results of the
checks at the top of the loop, `Propose` / `Approve` / `Reject` the two planning
turns, `RunStep` / `EndSteps` the step loop, `Complete` / `Abort` / `Replan` /
`Rollback` verification, `Recover` / `UndoStep` / `EndUndo` recovery, `Raise` the
handlers in `run`. `publish` puts an event in the history before its first await, so
`Complete`, `Fail` and `EndUndo` end the task and report it (`Emit`) in one step; while the
handlers of that event run the task is `closing`, and `Conclude` is their end.
`DeadlinePasses` and `Cancel` may come between any two: a task cancelled while it is closing
has been reported, any other cancelled one has not and is in no final state. Agents answer anything their schema admits, and
any turn may fail (`ModelFails`); the executor answers one of the outcomes the loop
can tell apart, or lets a `StoreError` through, after or before the tool ran.

Histories (`cycles`, `attempted`, `ran`, `reports`) are only read by properties;
`attempted` and `ran` hold each step with the cycle it belongs to, so that
`HandedIsTheCycle` can say both what Mahesh's list must hold and what it must not.
`TaskLifecycle` sees of all this a `Move` from state to state, or a `Finish`: the final
state and its event at once.

### Policy, Approvals, Executor

A request is what policy and the executor look at: tool known, arguments valid, tool
enabled, declared and classified risk, ceiling, dry run, approvals allowed, a path
outside the workspace. `Rule` tries the rules in the code's order.

`resolve` and `consume` are two actions each: the read with its checks, which leaves
an `intent`, and the `UPDATE` by id. Between them anyone else may act. Deciders are
API requests and `scrappy approve`; the executor writes through the same actions.
`Abandon` is an await that raises (cancellation, store failure), with the statement
applied or not. `Lapse` is the clock passing `expires_at`.

`Executor` follows a call through `execute`: `Judge`, then `Refuse`, `Allow` or `Ask`;
with a prompt attached `AnswerPrompt`, `SettlePrompt`, `Consume`, `Spend`; then `Start`
and `Finish`. Every way out of `execute` is an action of its own. `Raise` is what
`execute` does not catch. Ledger writes and events inside a stretch concern only the
call itself and belong to its action.

### EventBus

`log` is the sequence of all events; an event is its position. `BeginPublish` is the
code under the lock, `Publish` the end of the handlers and the offers,
`CancelPublish` a `CancelledError` in a handler. `heard` records whether the stream's
subscription was in the copied list. The stream's generator is suspended only where it
sends, so `Start`, `ReplayNext`, `EndReplay` and `TakeLive` are its steps; `replay` and `sent` are the
sets of positions it has yet to replay and has sent. A client may go away before the
generator has begun: its `finally` then never runs and the subscription stays on the bus
(`Disconnect`). `CloseBus` comes whenever `Runtime.stop` gets there, whatever still runs or
publishes. Publishers
are the task's own coroutine, publishers of the same task id (an approval being
resolved), and publishers of other tasks.

### Credentials

`rows` is the table; a row is `stored`, has scopes, an expiry, a revocation moment and
a last use. `trail` is the part of the audit log that speaks of credentials; `now` is
the wall clock the processes share. `op` and `req` hold each command and each request:
the await where it is and its local variables. `minted` (ids ever inserted) and
`withdrawn` (every `revoked_at` ever written to a row) are histories, except that
`minted` also says which ids a person can know.

One SQL statement, or one transaction, is one step, because SQLite commits it whole;
what lies between two of them is an await. So `rotate` is `RotateGet` (the service reads
and issues), `RotateRead` (the store reads again), `RotateCommit` (its transaction),
`RecordRotated` and `RecordRevoked`; `revoke` is `RevokeRead`, `RevokeWrite`,
`RecordRevoked`; `prune` is the CLI's `PrunePreview`, then `PruneList`, `PruneDelete` and
one `RecordPruned` per row. `Stop` is the process killed, a statement that raises, or
"no" to the confirmation. A request arrives with a credential and the right or a wrong
secret, with the configured legacy token, or with nothing usable; `Lookup` is the single
read and `status_at`, `Touch` the late `last_used_at`, which may fail, and `Authorize`
is `require_scope`. `need = "public"` is `optional_identity`.

### Store

`door`, `next` and `columns` are the processes that open the file: `BeginConnect` opens it,
`CheckColumn` is one `PRAGMA table_info`, `AlterColumn` one `ALTER TABLE`, which raises
when another process was faster, `EndConnect` the commit of the version row, `Leave` a
close, a failed connect or the process's death. The coroutines of one process, `Singles`
that call `execute` and `Groups` that use `transaction`, each go through `Statement`, then
`Commit` or `CommitRaises`, or `StatementRaises` and, for a transaction, `Rollback`.
`pending` is the one open transaction of the connection, whoever wrote into it; `disk` is
the file. `crossed` (who wrote while another did) and `robbed` (whose rows another's
rollback discarded) are histories: the properties say what is promised to the others.

### Pepper and Gate

`Pepper` is a process that resolves its key: `UseConfigured`, `LookAtFile`, `Create`
(`O_CREAT | O_EXCL`), `Fill` when the handle is closed, `FillRaises`, `Exit` anywhere. A
generated key is named after its process.

`Gate` adds the daemon's requests. A row remembers the key its verifier was made with.
`Parse` is everything before the first await (`optional_identity`, the headers, the static
token); `LookUp` is the row coming back, `LookUpRaises` the store failing, `Touch` the
last-used write, `Fail`, `Succeed` and `Deny` the audit writes with what follows them,
each of which may lose its row. `Issue` and `Retire` are commands and the passing of a
date. `Credentials` has the table's life in detail and a single Boolean for the
secret; `Gate` has the request in detail and a row that only ends.

### Runtime

`life` is the await where `start` or `stop` is: `connecting`, `greeting` (the first
event), `up`, `quieting` (the heartbeat's stop), `waiting` (the grace), `parting` (the last
event), `closing` (the router), `shutting` (the store). An objective is `running`, then
`publishing` its ending to the handlers attached at that moment, then `done`; a cancelled
one only ends. `Forget` is the done callback. `Beat`, `Beaten` and `HeartEnds` are the
loop of `Heartbeat`; a probe is `Ask`, `StoreChecked`, `ProviderChecked`, and `Answer` or
`AnswerRaises`. `GraceOver` is `wait_for` giving up, `Waited` its end and the cancellation
of whoever came meanwhile.

### Tools

A call is `Begin`, `Validate` (paths and commands, before any thread exists), `Finish` or
`Timeout`; the last two are the executor's. A file tool's thread goes on by itself:
`LookTo...` is the existence check, then `OpenBackup` and `CopyBackup` (`copy2`),
`OpenFile` and `WriteFile` (`write_bytes`), `Move`, `Remove`: one system call each, which
may raise (`ThreadRaises`). `fd` follows the file a thread has open through a rename.
`kept` is a history: nobody else has changed the call's paths since it looked. A process
tool has a leader and one forked child, each of which may ignore SIGTERM or be `foreign`:
run as another user, so that `killpg` raises and the tool suppresses that. The child may hold
the pipes;
`Terminate`, `Kill`, `Killed` are `shell.run`'s escalation, `GiveUp` the git tools', which
signal nobody. `Die` is the daemon's death.

### Inference

A turn is `Ask` with its first request, then `Accepted`, `Repaired`, `Rejected`, `Raises` or
`Cancel`. A coroutine runs up to the await on the server, so a request leaves in the step
that decides on it. `mode` is `_JSON_MODE` in each task's context, `client` is `_client`,
`alive` the clients that are not closed. `Close` and `Closed` are the two ends of `aclose`,
`Probe` and `Probed` of `health_check`. The three kinds of provider differ in whether they
set the mode and whether they can send at all (an OpenAI-compatible one needs a key).

## Runs

Passing runs; each property also has a mutant of the code that breaks it.

| Run | States | Shows |
|---|---|---|
| `orchestrator` | 143346 | budgets, one truthful report in the history, Mahesh is handed the cycle that is undone; the loop implements `TaskLifecycle`; every run that is not cancelled ends |
| `executor` | 14932 | nothing runs uncleared, flags and ledger truthful, the policy sound on every request; a lapsed approval is never spent; a call ends unless its human never answers |
| `executor_prompt` | 4466 | with only the prompt answering, an approval is answered once and spent once, whatever fails |
| `events` | 715659 | a stream misses no more events than the drop counter says, wherever the replay met the queue; the queue keeps each publisher's order; a stream with replay ends, whenever the bus closes |
| `credentials` | 1402472 | nobody is let in with a credential that had stopped working; what is withdrawn stays so; a rotation leaves a way in; a prune deletes only what had ended; the trail claims nothing false |
| `store` | 208858 | who opens the file finds every column; a transaction nobody wrote alongside is whole and leaves nothing when undone; what was acknowledged is in the file unless another's rollback came first |
| `gate` | 4757128 | first starts that race for the pepper cost nobody a token; who is served proved it with one header; recorded reasons are true and agree with the answer |
| `runtime` | 1534921 | counters count what was reported, once; `stop` leaves no task it knew of on a closed store, returns, and its status stands against late probes |
| `tools` | 441908 | what a write replaces is in the file or the backup, whatever fails; answers are true; `shell.run` leaves no leader behind that it may signal; every call is answered |
| `inference` | 45612 | a turn's requests ask for JSON as that turn does, whoever shares the provider; requests, calls and repairs add up |

Runs that must fail. Each is a sentence of the repository the code does not keep;
`findings` in `PROJECT.json` quotes it.

| Run | The document says | The code |
|---|---|---|
| `executor_race` | `resolve` raises if already resolved | checked one await before the write |
| `store_transaction` | a transaction is not interleaved with another caller's writes | one connection and no lock: any caller's commit takes half of it to the file |

### Bounds, and why they are enough

* *Orchestrator.* Two steps (a plan can repeat one and drop the other), plans of up to
  three, recovery of up to two, four executed steps, two replans, two failures in a row
  and six inferences: small enough for each limit to be the one that bites, large enough
  for two replans followed by a rollback. The counters are bounded by the budgets
  themselves, so there is no state constraint.
* *Executor.* One call and at most one other decider. Calls share nothing but the
  table, and no row belongs to two calls; a third writer adds no new kind of
  interleaving to read-decide-write, and the proofs hold for any number of either.
  `AllRequests` has every combination of the nine fields with a tool that exists, takes
  its arguments and is declared no lower than it is classified, and one request
  without each of the first two.
* *EventBus.* A queue of two, a history of three, a replay of two, the task publishing
  twice, an approval and a neighbour once each: the queue and the deque both overflow
  and the replay is cut.
* *Credentials.* Two commands, each used once, and one request, over two ids and three
  instants, with one possible expiry in the middle. Two commands are a race; requests do
  not see each other, and the table is all they share with commands. Two ids are a credential
  and its replacement. The clock can stand before, at and after the expiry. The legacy
  token is narrowed to scopes none of the modelled endpoints asks for
  (`LegacyScopes = {}`), so that an identified request is also refused. Ids and commands
  are interchangeable (`Symmetry`); there is no liveness in this run, so that is sound.
* *Store.* Two single writes and two transactions of two rows, a second process, two
  columns on a file that starts with none, one or both of them. A commit or a
  rollback of one coroutine meets another at each place, with a third beside; two
  columns are the least with which a process can lose the race at the second one.
  Writers of a kind are interchangeable (`WriterSymmetry`, no liveness).
* *Gate.* The daemon and two commands, one configured key or none or a short one, one
  token, one request with any headers, two scopes. Two processes race for the file while a
  third looks; requests share nothing but the rows. Commands are interchangeable.
* *Runtime.* Two objectives, a probe, two starts, two beats (`MaxStarts`, `MaxBeats`): one
  objective that `stop` waits for while the other arrives late, and a second life that
  would count twice what the first left attached.
* *Tools.* Two calls over two writable paths and one that is not, any of which may exist.
  `MCInit` leaves out arguments that tell nothing apart: a destination for what has none, a
  second name for the first path (`first` breaks that symmetry by hand, because there is
  liveness), and company for a process tool, which shares nothing with other calls. Two
  threads on one path meet at each of their system calls.
* *Inference.* Two objectives of two turns each, one repair, one probe, two stops: one turn
  begins, repairs or ends anywhere in another, and the client is made, closed and made
  again. Objectives are interchangeable (no liveness).

`CHECK_DEADLOCK FALSE`: a task, a call, a stream, a command, a turn and the last life of
the runtime end, and the system then stops. `gate` and `store` stop when the last request
or row is settled and nobody starts again.

### Fairness

* `Orchestrator`: weak fairness of the loop as a whole. Provider calls and tools run
  under a timeout, so each await returns or raises. Nothing is assumed of the clock,
  of cancellation, or of what the agents answer: they may ask for another cycle forever.
* `Executor`: weak fairness of each call's own steps. Nobody has to answer a prompt,
  and nothing has to fail, so `EndsUnlessAsking` allows a call to wait in its prompt.
* `EventBus`: weak fairness of each publication's end (a handler is one insert) and of
  the generator (a client that reads). Nothing is assumed of the tasks or of closing.
* `Runtime`: weak fairness of a `stop` that has begun (`Stopping`), of the heartbeat's
  end and of a cancelled task's. Objectives need never end by themselves, and nobody need
  stop the runtime: `StopEnds` rests on the grace period and the cancellations.
* `Tools`: weak fairness of validation, which awaits nothing outside the loop, and of the
  executor's timer. Threads, processes and signals need never get anywhere, and
  `CallsAnswer` holds all the same.
* `Credentials`, `Store`, `Gate`, `Inference`: none. A command may be killed, a request
  abandoned and a server silent; all their properties are safety properties.

`StreamEnds` has a premise, `Told`: the subscription is open or its queue holds the
sentinel. A full queue loses the sentinel when the bus closes, and its stream then sends
keepalives for good (`ClosedIsTold`, below). It also depends on a bound of the instance that the code does not enforce: the
publishers that share the task's id publish fewer events after its ending than the
queue holds (512 in the code). With more, the ending itself could be dropped;
`EndingReached` says so without the bound: nothing dropped, and the ending is there.

## Proofs

TLAPS proves, for every value of the constants:

* `OrchestratorProofs`: `TypeCorrect`, then `Invariance` of `IInv`, and from it
  `Budgets`, `Overrun`, `InferencePerCycle`, `FailuresCapped`, `TruthfulReport`, `RecoveryInput`
  and `LifecycleImplemented`. The properties are not inductive: that three more turns
  at most follow the last check, or that an ending is reported once, depends on where
  the coroutine is. `IInv` states each fact per suspension point (`StateByPoint`,
  `CyclesByPoint`, `OverrunByPoint`, `CallsByPoint`, `ReportsByPoint`, `HandedByPoint`), one lemma per
  conjunct. Assumed: `BudgetAssumption` (the bounds of `core/config.py`) and
  `SchemaAssumption`. Every step either leaves state and report alone or is one
  of the few that end a task (`EndingOrNot`, `Ending`): the refinement maps a step to a `Move`
  of `TaskLifecycle`, to `Finish` with its event, or to a stutter, also when the task is
  cancelled before or while its handlers run. `RecoveryInput` rests on `HandedByPoint`: no
  step that was tried belongs to a later cycle than the present one, so at review the present
  cycle has none, and `executed_steps` then follows it.
  `InferencePerCycle` (three turns a cycle and one for recovery, whatever the
  inference limit) is proved only, no run checks it. `RunIsBounded` gives the loop a
  variant, `Fuel`: what replans and steps are left, each replan at the price of one way
  through a cycle, plus the points still ahead in this one. Every step of the loop lowers
  it and nothing else raises it, so a run has at most `5 * MaxReplans + MaxPlanSteps + 9`
  steps.
* `ExecutorProofs`: `Invariance` of `IInv`, and from it `TypeCorrect`, `Gatekeeping`,
  `FlagsTruthful`, `LedgerComplete`, `LapsedStaysUnspent`; and `PolicySound`. The gate's property
  speaks of what ran; the invariant has to say what every writer's pending intent may
  still do to a row (`IntentsSound`), that the row asks for what the verdict asked
  (`VerdictSound`), and what a call has obtained at each point (`PlacesSound`).
  `Consented` is monotone, because answers are only ever added to the history: this is
  why the race in `executor_race`, which does overwrite answers, cannot open the gate.
  Assumed: `WritersDiffer`, `IdleIsNoIntent`, `RequestAssumption`,
  `PromptingAssumption`.
  Two more have the hypothesis `OneParty` (a prompt and no deciders, or one decider and no
  prompt), which is how `executor_prompt` is configured: `ApprovalImplemented`, that every
  request's row implements `ApprovalLifecycle`, and `AnswersStand`, that no answer is
  replaced. Beside `IInv` they need `Unraced`: a pending intent still fits the row it was
  formed from (`Fits`), because whoever may write the row next is the one who read it
  (`SoleWriter`). Without the hypothesis both are false, as `executor_race` shows; with it
  they hold under cancellation and a failing store, so the race is their only cause.
* `CredentialsProofs`: `Invariance` of `IInv`, and from it `TypeCorrect`,
  `NextRequest`, `TruthfulTrail`, `Withdrawal`, `Rotation` and `Pruning`: every
  property of the run, for any number of commands, requests and credentials and any
  clock. The argument is that the table only ages (`TableAges`): whatever a step does to
  the row of a credential that exists, it keeps scopes and expiry, never takes a
  revocation back and never restores a deleted row. Therefore what a command or a
  request learnt before an await (`CommandSound`, `RequestSound`) is still true after it
  (`OtherCommand`, `OtherRequest`), and each step need only establish what its own next
  one relies on (`OwnCommand`, `OwnRequest`). Assumed: `CredentialAssumption` (a clock
  that has room, ids that are not confused with the other headers).
* `ServicesProofs`, of `Store`: `Inductive`, and from it `TypeCorrect`, `OpenedIsMigrated`,
  `TransactionsAreWhole`, `RollbackIsClean` and `AcknowledgedStays`: every property of the
  passing run. The invariant says where the rows of an uncrossed transaction are at each of
  its places (`Units`), that two who write together have crossed (`Crossing`), that the
  columns before the one a process is at are there (`Caught`), and what is pending or in
  the file (`Kept`). Assumed: `StoreAssumption`. `LockedTransactionsAreWhole` is about a
  system that is not the code: if every step were `Exclusive` (no statement runs while
  another coroutine has yet to commit or roll back), the sentence `store_transaction`
  refutes would be true.
* `ServicesProofs`, of `EventBus`: `EventInductive`, and from it `EventTypeCorrect`,
  `NothingMissedUncounted` (`CaughtUp`) and `QueueInOrder` (`LiveInOrder`), for any
  publishers, any number of events and any sizes of history, replay and queue. The
  invariant has to follow each event of the task at every point of a stream: it is sent,
  or to be replayed, or in the queue, or in flight towards it, and the others (`Gap`) are
  at most as many as were dropped (`Accounted`). What is in flight is its publisher's
  latest and in no queue yet (`InFlight`), which is why the end of a publication cannot
  put an event behind a later one of its publisher. `EndingReached` adds `EndingsFinal` and shows
  that a published ending is still before any stream that found the whole history and lost
  nothing. Assumed: `SizeAssumption`, `EndAssumption`.
* `GateProofs`: first that `Pepper` keeps its own invariant, then `Invariance`, and from it
  `TypeCorrect`, `OnePepperForAll`, `FirstKeyIsKept`, `TokensVerify`, `GrantsAreProved`,
  `DetailsAreTrue` and `TrailIsConsistent`. A row keeps the key in the file or the one
  configured (`RowsSound`), and what a request learnt from a row is still so when it is
  recorded, because a row only ends (`ReasonSound`, `Identified`). `SoundStays` is the
  lemma that a step of anybody else keeps a request sound. Assumed: `PepperAssumption`,
  `GateAssumption`.
* `RuntimeProofs`: `Invariance`, and from it `TypeCorrect`, `CountersAreRight`,
  `OnlyLateOnesOutlive`, `StoppedIsSaid` and `BeatsAreCounted`. What each stage of a life
  says of flags, bus and store (`LifeSound`), of the beats, and of the tasks that are still
  going; the counters need that a report is heard at most once and a step of
  arithmetic about cardinality (`OneMore`). `StopIsBounded` says how a `stop` gets on: its
  stages only go forward (`StagesLeft`), while it waits nobody joins those it waits for,
  the end of the grace leaves none of them uncancelled, a cancelled one can only end
  (`StopAdvances`), and at no point is it waiting for something that cannot happen
  (`StopCanGoOn`). Assumed: `RuntimeAssumption`.
* `ToolsProofs`: `Invariance`, and from it `TypeCorrect`, `FoundStays`, `AnswersHold` and
  `LeadersAreGone`. A step of another call either leaves a call's paths alone or ends its
  `kept` (`HeldQuiet`, `Touched`), so that only its own steps have to be looked at, one by
  one (`StepHeld`). `LeadersAreGone` leaves out a process that `killpg` may not signal, as
  `LeaderIsGone` does. Assumed: `ToolsAssumption`.
* `InferenceProofs`: `Invariance`, and from it `TypeCorrect`, `ModesAreOwn`, `TurnsAddUp`
  and `ClientsAreFound`. A turn's step touches its own objective only (`TurnIsOwn`); what
  an objective has sent and may still send stays within its turns' allowance
  (`AllowanceGrows` is the product that the SMT solver does not find). Assumed:
  `InferenceAssumption`.

Some properties are proved and no longer run, because the theorem says more than an
instance would: `CyclesPaidFor` (in `Budgets`), `OnePepper`, `FirstKeyStays`, `BeatsAgree`,
`NoClientIsLost`, `LoopDescends`, `StopAdvances`, `StopCanGoOn` and `EndingInReach`; and
every proof module proves its module's type invariant.

Only model-checked: the liveness properties (`Terminates`, `EndsUnlessAsking`, `StreamEnds`,
`StopEnds`, `CallsAnswer`), because liveness under fairness and `ENABLED` are outside the
prover's reach. Their safety part is proved where it is not immediate: a variant for
`Terminates` (`RunIsBounded`), progress without a way back for `StopEnds`
(`StopIsBounded`), an ending that is still ahead for `StreamEnds` (`EndingReached`). What
remains to TLC is that the fair step is enabled, and that a call goes straight from
`Begin` to its answer. Every safety invariant and every action property of a passing run
is stated by a theorem.

## Other disagreements, not kept as runs

Each is a sentence of the repository the code does not quite keep. The first nine are
stated as definitions: added to the run of their module, each shows its
counterexample.

* Vishnu can only remove steps (`docs/AGENT_PROTOCOL.md`): its own list runs, whatever is in
  it. `ReviewOnlyRemoves` in `Orchestrator`.
* Mahesh gets the steps that ran (`docs/AGENT_PROTOCOL.md`): only those of the last cycle.
  `MaheshSeesEveryRunStep` in `Orchestrator`.
* The worse of the declared and the classified risk is judged (`tools/executor.py:8`): the
  classified one is. `WorseRiskJudged` in `Executor`.
* Every tool call is recorded with its approval state (`docs/SECURITY.md:185-188`): it is
  filed before there is one. `LedgerNamesApproval` in `Executor`.
* `Subscription.get` returns `None` once closed (`core/events.py:134`): lost when the queue
  is full. `ClosedIsTold` in `EventBus`.
* Dropped events are counted and reported (`docs/ARCHITECTURE.md:215`): a stream that finds
  the handle done returns with events still queued, which nobody counts
  (`interface/api.py:399`). `NoneLeftBehind` in `EventBus`.
* Revoking again keeps the original moment (`security/credential_store.py`): two commands
  that both read the row unrevoked both write it. `RevocationMomentKept` in `Credentials`.
* `Heartbeat.stop` waits for the current beat (`breath/heartbeat.py`): it cancels the beat
  where it is. `BeatsFinish` in `Runtime`.
* A timed-out command's whole process group goes with it (`tools/shell.py:19-20`): when the
  leader has been reaped and a child holds the pipes, nobody is signalled.
  `GroupIsGone` in `Tools`. A call the executor cancels, and a git command that times out
  (`tools/git.py:88`), signal nobody at all. A process that `killpg` may not signal lives
  on behind an error that says it was terminated (`tools/shell.py:182`).
* `classify_command` never goes below PRIVILEGED for what it does not recognise
  (`security/risk.py:135`): an executable on none of its lists is READ (line 188).
* `health_check` must never raise (`models/base.py:113`): on a client that is being closed it
  does, and the router catches it.
* The limit of `brain/limits.py:79` is one of inferences by its message, and counts turns:
  a repair is a second inference of one turn.
* Every limit is said to be checked before the expensive thing (`brain/limits.py:5`); the
  inference limit is not, in the review, verification and recovery of a cycle begun below
  it. `ModelCallOverrun` bounds by how much it is passed: three.
* Steps the executor refused are handed to Mahesh with those that ran
  (`brain/orchestrator.py:236` appends before it looks; `agents/mahesh.py:79`).
* A limit hit between two steps ends the step loop and not the task
  (`brain/orchestrator.py:230-233`, against lines 16-17).
* Without a prompt a call that needs approval fails at once and leaves a pending approval
  (`tools/executor.py:219`), where `README.md:281` says the task parks.
* A stream opened without replay during the task's last publication is not offered the
  ending and sends keepalives for good (`interface/api.py:395-399`).
* A client that goes away before its stream begins leaves the subscription on the bus until
  the bus closes, although `stream` closes it in a `finally` (`interface/api.py:417`).
* A publisher cancelled inside a handler leaves an event without an audit row
  (`core/events.py:192`, against `heart/runtime.py:122`).
* A `scrappy token` command killed between its write and its record leaves a change
  without an audit row (`security/credential_service.py:122-123`, against
  `docs/ARCHITECTURE.md:387`). `TrailIsTrue` is the direction that does hold.
* Revoking a revoked credential keeps the row's moment and files a second moment in the
  audit payload (`security/credential_service.py:148-151`).
* What `prune` deletes is its own list and not the one it showed
  (`interface/token_cli.py:437-463`); `PruneSparesRecent` says what it can be.

## Plan

Done: the loop, the gate, the bus, the credentials, the store, the pepper and a request,
the runtime with its heartbeat, the tools' threads and processes, inference, and the
proofs above. What is left, in this order:

1. `ApprovalWait`: `wait_for` and `expire`, two waiters and an answer from another process.
   Nothing in `src` calls either yet.
2. The API's task table, which evicts handles of tasks that are still running.
3. The rest of the tools: directories, `fs.mkdir`, `process.kill` and a pid that has found
   a new owner.
4. The classifier's table as an operator beside `Policy`.

## Not modelled

* *Text.* Prompts, rendering, redaction, logging, argument parsing and the classifier's
  tables. `doctor` is a set of independent read-only checks.
* *Paths.* How a string resolves to a path is an input: `Tools` has resolved paths that are
  writable or not. A symbolic link that is swapped between the validation and the
  thread is therefore outside it, and so are directories.
* *API.* The task table (`_track`), pagination and the OpenAPI surface. A cancelled handle
  raises in `get_task`; nothing else depends on it.
* *Approvals.* `wait_for` and `expire`, which nothing calls.
* *Runtime.* Two `start`s at once. A task spawned after `stop` has cancelled those it found
  is in the model (`late`), what it then meets in the closed parts is one step.
* *Providers.* What a reply's text holds, the mock's keyword planner, plain `generate`, which
  nothing in `src` calls, and a server that trickles, whose reply is late for ever.
* *Memory.* Working memory feeds prompts only; episodic and semantic memory are single
  queries, and that remembering may raise is in the loop's `StepRaises`.
* *Tools.* `http.get`, the read-only tools, `process.kill`.

`components` in `PROJECT.json` lists every part with its status.

# AlphaPilot Control Console: specifications

TLA+ specifications of the stateful core of `alphapilot_control_console`, the
TLC configurations that check them on small instances, and TLAPS proofs of the
properties that matter most. Paths below are relative to
`src/alphapilot_control_console/` unless they begin with `docs/`.

Most of the package's ~74,000 lines build documents: audits, evidence,
projections for the console's pages, acceptance hand-offs. What can lose money
or corrupt state is a much smaller part: the path from a signal to an exchange
order, the market data and the threads that trigger it, and the processes,
leases and files that decide who may run it. The specifications are about that
part.

## 1. The system

### 1.1 Components, their state and their operations

| Component | Code | State it keeps | Operations that change it |
| --- | --- | --- | --- |
| Demo order path | `demo_execution_engine.py`, `demo_execution_store.py`, `evolution_demo_service.py`, `demo_runtime_guard.py`, `runtime_identity.py` | SQLite: execution records by idempotency key, events, flags `paused` and `killSwitch` | batch cycle, reconcile cycle, `execute`, `reconcile`, `recover_open_records`, pause, resume, kill switch |
| Live engine and batch | `live_execution_engine.py`, `live_auto_execution_service.py`, `live_canary_service.py`, `live_execution_store.py` | ledger like Demo's, arming, kill switch | `execute`, `reconcile_record`, batch, arm, disarm, pause, kill switch |
| Execution runtime lease | `execution_runtime_lease.py` | one row per environment, no fencing token | acquire, assert, heartbeat, release |
| Unified automatic execution | `unified_auto_execution_{controller,runner,store,adapters}.py`, `execution_control.py` | runtime row, candle checkpoints, action requests; event queue, wake-up | heartbeat, `on_candle_closed`, start, enable, arm, pause, stop, emergency stop, disable |
| Private WebSocket channel | `exchange_connectors/okx_demo_private_ws.py` | pending requests, socket state | connect, log in, send and await, acknowledge, close |
| Market data runtime | `okx_public_market_runtime.py`, `demo_prewarmed_market_state.py` | sockets, confirmed candles, pending close batches | connect, reseed, apply a candle, emit a batch |
| Foundation leases | `server_foundation/lease.py` | one row per (environment, role), a fencing sequence, an event log | `acquire`, `assert_authority`, `heartbeat`, `release` |
| Foundation role runtime | `server_foundation/{worker,checkpoint,supervisor,cli}.py` | per role: checkpoint, health file, stop request; per process: claim, cycle count | worker loop, `start`, `stop`, `health`, `restart` |
| Strategy factory | `strategy_factory_orchestrator.py`, `strategy_factory_continuous_runner.py` | SQLite: research runs; marker and receipt files; the runner's state file | create, start, pause, resume, refresh, import, `run_once`, enable, disable |
| REST clients | `exchange_connectors/okx_{demo,live}_client.py` | none | signed HTTP calls |
| Engineering smokes | `demo_engineering_smoke_*.py`, `live_engineering_smoke_*.py` | attempt records | one guarded round trip and its recovery |
| AI orchestration | `ai_orchestration/` | budgets, circuit breaker, cache | routed model calls |
| Risk profiles, releases | `risk_profile_store.py`, `*_release_service.py` | hash-bound records | review and activation |
| Local sandbox | `sandbox_auto_runner.py`, `state_store.py` | paper positions | paper trading under one lock |
| HTTP console | `http_app.py`, `http_write_security.py` | none of its own | routes to the services above |
| Evidence and audits | `v*_evidence.py`, `*_audit*.py` | documents | builders |

### 1.2 How they interact

* The market runtime's socket thread applies confirmed candles and emits a
  batch of closes, which queues an event for the automatic runner and wakes its
  thread. The runner's thread calls the controller for each event, and every
  15 seconds; the controller calls the Demo or Live adapter, which reconciles
  and runs a batch cycle. HTTP handlers call the same services from request
  threads. They meet in SQLite, statement by statement: nothing else orders
  them.
* The ledger meets the exchange through the private WebSocket or REST. A
  request may be accepted, rejected, lost, or answered too late.
* Live batches of several console processes are kept apart by the execution
  lease, which has no fencing token.
* Role workers are processes of their own. They meet in the lease table and in
  the files of their role, which the supervisor's `start` and `stop` commands,
  again processes of their own, read, delete and write.
* Research workers are processes that outlive the console, which sees them
  through a receipt file and a marker that they leave at exit.

### 1.3 What is hard

* A crash between a committed intent and its recorded outcome; a placement
  with no answer; a reconcile that writes what it read before somebody else
  wrote.
* Two callers between a `SELECT` and an `INSERT`; a flag read before the send;
  a kill switch pressed in between; a resume that overtakes a kill switch.
* A process that stalls between checking its lease and using it, for longer
  than the lease lasts; a clock that is read before a lock is waited for.
* A wake-up set before anybody waits; events drained together; a stop during a
  heartbeat; a death between a batch and its checkpoint.
* An acknowledgement, a timeout and a reconnection racing for one order; a
  timer and the last confirmation racing for one batch.
* Files replaced, deleted or read in an order that nobody wrote a test for.
* A protection (the pause) that also stops what would lift its cause.

The list, line by line, is `hazards` in `PROJECT.json`.

### 1.4 What makes the components correct

* Order paths: an intent is durable before it can be an order; a signal becomes
  at most one order, whatever crashes and whoever retries; a record is closed
  only as the exchange closed it; after ambiguity nothing is placed until an
  operator says so; the kill switch bounds what can stay open; no symbol has
  more positions than its limit.
* Private channel: a call sends one request; what it answers is true.
* Leases: one authority at a time; nobody is locked out for more than a term.
* Automatic execution: a stop lets one heartbeat finish and no more; a failure
  stops entries; a close is run, once, in order, and without waiting for the
  next interval (but for the start, 3.4); an action is dispatched once.
* Market data: a close is emitted, once, and its batch is never forgotten.
* Role runtime: a superseded worker does no lasting harm; stop stops.
* Strategy factory: a run has one worker; the runner starts none while one is
  at work.

## 2. Modules

| Module | What it is |
| --- | --- |
| `OrderPromise` | abstract: what an order path owes a signal |
| `DemoExecution` | batch cycles of any number of threads, ledger, operator, exchange, restarts |
| `LiveExecution` | the same for Live, with the lease, arming, risk gate and private reads |
| `PrivateOrders` | one placement in detail: socket, acknowledgement, REST fallback |
| `RoleLease` | abstract: what a runtime lease promises |
| `FoundationLease` | the fenced lease store, with the gaps inside each call |
| `FoundationRuntime` | EXTENDS `FoundationLease`: worker loop, files, start and stop |
| `ExecutionLease` | the order-authority lease, without a token |
| `AutoExecution` | runner thread, controller, checkpoints, operator, for one environment |
| `ActionRequests` | the table that makes operator actions repeatable |
| `MarketCloses` | sockets, confirmations and close batches of one timeframe |
| `StrategyFactory` | research runs, continuous runner, HTTP requests, worker processes |
| `*_proofs` | theorems about the module they EXTEND |
| `MC*` | symmetry sets and constant values for TLC |

They compose as the code does. `FoundationRuntime` takes the actions of
`FoundationLease` into its own. `LiveExecution` sees of the execution lease
whether it is free, held by a caller or lapsed, which is what `ExecutionLease`
is shown to implement (`RoleLease`). `DemoExecution` has one step for what is a
race in `PrivateOrders`: a request leaves, and an answer comes or does not; what
it relies on, one request per call and true answers, is what `PrivateOrders` is
checked for. `AutoExecution` has one step for a batch. `DemoExecution` and
`LiveExecution` implement the same `OrderPromise`; `FoundationLease` and
`ExecutionLease` the same `RoleLease`.

The specification modules define some operators marked "Mutant": a plausible
slip in the action that follows. They are part of no specification; putting one
in that action's place shows that a property can fail.

### 2.1 `DemoExecution`

A *caller* is a thread in `run_evolution_demo_batch_cycle`. A *signal* stands
for one idempotency key and so for one `clOrdId`. `pc` says where a caller is;
each value names the next statement that commits, sends or reads shared state.

| Control states | Code |
| --- | --- |
| `idle` -> `list` | blockers of the status: paused, killed (`BeginCycle`) |
| `list`, `recover`, `settle` | `recover_open_records` over a snapshot; `reconcile` asks the exchange and writes in a later step |
| `recover` -> `batch` or `idle` | private read and `evaluate_demo_runtime_guard` (`GuardPasses`, `GuardBlocks`, `TransientFailure`) |
| `batch` | the loop over arbitrated signals: latency gate and leverage (`SkipSignal`, `LeverageSet`, `LeverageUnknown`) |
| `killgate`, `pausegate` | identity assertion and the two flag reads of `execute` |
| `lookup`, `insert`, `reread` | `create_intent`: SELECT, INSERT, SELECT |
| `send`, `await` | `_place_order`: the request leaves, then an answer or none |
| `rejectpause`, `fail`, `failpause`, `raised` | the record is written first, the pause after it; then the exception travels |
| `after` | the batch asks for the pause flag again before the next signal |

`rec`, `paused` and `killSwitch` survive a crash, and so do the exchange and
the requests on the wire; everything else is lost. `sends`, `orphans`,
`straddle` and `ambiguous` are history: no action of the program reads them.

What is free: which signals a batch executes (scanning and arbitration), when
account drift makes the guard block, when the exchange answers and what, when
orders fill or are canceled. `live` stands for `live` and `partially_filled`,
`canceled` also for `mmp_canceled`: no branch of the modelled code tells them
apart. Errors of SQLite itself are left out.

Two constants are facts about the configuration. `Verified` is the set of
callers and signals for which the engine holds the `RuntimeIdentity` of the
signal's release; without it an entry fails closed at the assertion
(`IdentityRefused`). Nothing in `evolution_demo_service.py` passes an identity
at this commit; the runs verify some signals, to say what holds when the
assertion lets an entry through. `PayloadRepeats` says whether a signal comes
back with identical content: the Demo batch stamps each one with its own
`latencyAudit`, so in the batch it does not, but `create_intent` on its own
accepts it. The proofs say when that is safe (`OwnRecords`, 3.4).

### 2.2 `LiveExecution` and `ExecutionLease`

A *caller* is a console process whose heartbeat runs Live cycles, or one of its
HTTP threads. The control states follow the code as in 2.1; added are the lease
(`LeaseGranted`, `Lapses`), the operator's arming with its checks, the private
reads of the portfolio before the send, the limits per symbol and in total, and
the reconciliation that precedes a batch. Signals have an instrument, since the
limit per symbol counts records of the instrument. The Live batch puts no stamp
on its signals, so `create_intent` may find a prepared record of the same content
or of another (`LooksUpIntent` leaves it open): nothing here rests on content.

`Stallers` are the callers that may outlive their lease between the assertion
and the send. The code asserts once and renews nothing in between, so for them
there is no authority at the send (`live_execution_engine.py:59`); properties
say what still holds for the others, and for the ledger they share. `overrun`
(history) collects the signals that a staller was at work on when its lease
lapsed. A killed process can leave its lease behind; a caller can die anywhere.
An order may be canceled after a partial fill (`partial`): its position stays,
its record is closed as canceled.

`ExecutionLease` has `acquire`, `assert_authority`, `heartbeat` and `release`,
each with the gap between its check and its change. A heartbeat extends whatever
row the environment has; a release deletes its own only.

### 2.3 `PrivateOrders`

The socket's thread runs every callback; a caller registers its order, sends
over the app it saw, and waits. `conn` counts the apps; `flags` are the three
events that a callback sets and a close clears; `pending` is `_pending_orders`.
An acknowledgement carries the `clOrdId`, so one of a call that has timed out
may arrive while the next call for the same order waits. Requests and
acknowledgements may be lost; a request may be executed after its call gave up.

### 2.4 `AutoExecution` and `ActionRequests`

One environment: the runner thread (`read`, `wait`, `clear`, `drain`, `next`),
the heartbeat (`preflight` ... `save`) and its endings, the socket and timer
threads that queue a close and then set the wake-up (any number of them between
the two, in any order, also before the runner thread exists), HTTP threads that start, enable, arm,
record, pause, stop, emergency stop and disable, and the death of the process.
`armed` is the process id in the row, as the code compares process ids.
`straddle` (history) marks the heartbeat that had read the row when the ARM was
withdrawn; `torn` the candles whose batch was not followed by its checkpoint.
Two more say where the code promises less: `early`, that all that is queued was
queued when the thread started and cleared its wake-up; `disordered`, that a close
was accepted after a later one, of the queue or of a checkpoint.

`PidReuse` is a circumstance that the code does not exclude and does not survive
(see 3.4); the property it would break is claimed without it.

`ActionRequests` is the table behind `POST /api/execution-control/action`: a
thread finds no row, claims, dispatches, completes, answers; the answer may be
lost, an UPDATE may fail, the process may die.

### 2.5 `MarketCloses`

Two sockets, the reseeding in `_on_open` with loaders that may fail for some
instruments, a universe that may change with it, confirmations that are lost
when the business socket drops, a timer for a pending batch that holds none.
Emitting is in three
steps, since `_emit_close_batch` looks at the coverage before it takes the lock.

### 2.6 `FoundationLease`, `FoundationRuntime` and `RoleLease`

`acquire` is one transaction, but its clock is read before the write lock is
waited for. `heartbeat` and `release` check in one transaction and act in
another, and a renewal reads the clock a second time in between. Each gap is a
pair of actions (`AcquireBegin`, `AcquireGranted` and so on), and any number of
ticks and of other processes' steps fit in between. The fencing token stands
for lease id, owner id and token hash, which are renewed with it. `RoleLease`
allows a stillborn grant (dated in the past by a slow `acquire`) and the revival
of a lapsed lease by a late renewal, because the code does, and forbids a grant
while a lease is held.

`FoundationRuntime` is one role; roles share only the manifest. `Holders` are
the worker processes.

| Actions | Code |
| --- | --- |
| `Boot` ... `RenewsLease` | `run_forever` and the head of `run_once` |
| `Resumes`, `ResumeRefused`, `StartsFresh`, `Superseded`, `Archives` | `load_for_resume`, `archive_superseded` |
| `WritesTemporary`, `ReplacesCheckpoint` | `FoundationCheckpointStore.write`: one temporary file for all writers, then `os.replace` |
| `WritesReport`, `PublishesReport` | `_write_json_atomic` of the health file: again one temporary file, `draft`, for all writers |
| `Closes` ... `MarksStopped` | `close` |
| `StartBegins` ... `StartEnds` | `FoundationSupervisor.start` |
| `StopBegins` ... `StopTimesOut` | `FoundationSupervisor.stop`, in a process without children |
| `Dies`, `Deploys`, `Passes` | a killed process, a new manifest, time |

A stall needs no action of its own: a process that takes no step is stalled.

### 2.7 `StrategyFactory`

Every handler reads a row, looks at files, and updates the row in a later
statement; a step is one access to the table with the file operations that
follow it. Handlers are HTTP threads and the continuous runner, whose round is
`idle` (refresh the current run, or list the active ones), `scan` (look at one
of them after the other), create and launch. A launch is `count` or `launch`,
then `Spawns`, then `record`; an import is `reread`, then `import`. Workers
pause, end, die, and leave receipts and markers; the console can die at any
step, and the workers outlive it.

Nothing orders two handlers of one run, so some of what one would like to hold
does not. Three history variables say exactly when: `raced` are the runs whose
launch met another launch or an import, whose import was overtaken by another
receipt, or whose pause was written over a status it had not read; `torn` those
whose launch the console did not survive; `since` those that were being launched
when the runner listed the active ones, or were launched after it. Outside of
these the properties hold; the proofs show that no other exception is needed.

## 3. Runs

| Run | Instance | Shows |
| --- | --- | --- |
| `demo_single` | 1 caller, 3 signals, of which one without a verified identity, identical content, 1 crash | the ledger is ahead of the wire; no second send even of repeated content; restart residue and ambiguity stop entries; kill-switch exposure; closed records are final |
| `demo_pair` | 2 callers, 1 signal, 2 crashes, attended and not killed | `OrderPromise` is implemented; no closed record disagrees with the exchange; a closed order is closed in the ledger (liveness) |
| `live_pair` | 2 processes, of which one may stall, 1 signal, 1 position per symbol, 1 death, 1 arming | the process that does not stall sends under the lease; closed records are true and `OrderPromise` is implemented, but for a signal at which a process outlived its lease |
| `live_single` | 1 process, 3 signals of one instrument, limits of 2 per symbol and 2 in total, 1 death, 1 arming, 1 kill | nothing is sent while another outcome is unknown; kill-switch exposure; no symbol exceeds its limit of positions |
| `private_orders` | 2 threads, 2 orders, 2 calls each, 2 connections | one request per call; answers are true |
| `execution_lease` | 3 processes, term 2, 5 ticks, 3 grants | `RoleLease` is implemented; nobody is locked out for more than a term |
| `auto` | 1 HTTP thread, 2 releases, 2 candles, 3 actions, 1 death | wake-ups (but for what was queued before the thread started), stop, failure, order and uniqueness of evaluations (of closes accepted in order); no step loses an accepted close, and every close is run (liveness) |
| `requests` | 3 threads, 2 ids, 2 contents, 5 posts, 1 death | one dispatch and one outcome per id |
| `market` | 3 instruments, 2 candles, 1 drop | a close is emitted once; a batch is never left by everybody, and is emitted (liveness) |
| `runtime` | 2 workers, 2 grants, 1 manifest | one authority, only holders extend, `RoleLease` is implemented; reports of a superseded worker predate the takeover; a checkpoint is refused only to a superseded worker |
| `live` | 1 worker, 2 grants, 1 cycle, 2 manifests | a stop request is honoured (liveness) |
| `factory` | 2 runs, 1 HTTP thread, the runner, 2 requests, 2 launches per run, 1 fault | one worker per run; the runner waits |

Every specification has one type invariant (`TypeOK`,
`RuntimeTypeOK`, `MarketTypeOK` and so on). They are theorems (section 4), so the runs
spend no check on them.

### 3.1 Bounds

* *Signals.* Signals interact only through flags, limits and one caller's place
  in its batch; two are enough for "one was ambiguous, the other follows". The
  third of `demo_single` fails its identity assertion; the three of
  `live_single` are for one symbol with two places, so that the limit binds while
  one of its positions is open, unanswered or left by a death; they are alike, and
  the run uses their symmetry. Properties about one signal's record use
  one signal and spend the states on a second caller.
* *Callers, threads, instruments.* A race over a record, a row or a batch needs
  two parties; `requests` has a third thread that repeats what two others race
  for, `market` a third instrument that leaves the universe while two close.
* *Crashes.* One restart reaches every state in which something was left
  behind; a second one adds a restart during recovery, which `demo_pair` has and
  the proofs cover elsewhere.
* *Armings, kills.* The Live runtime starts killed and paused, so each Live run
  has one arming that anything can overtake: the kill switch pressed between its
  check and its two flags, a failure, a death. A second arming while a cycle
  runs, and the kill switch with two callers, are left to the theorems of the
  same properties, which bound neither.
* *Grants, ticks, cycles.* With two grants there is one takeover;
  `execution_lease` has three, so that a late heartbeat can meet a row two
  owners later. `MaxTime` lets a whole term pass between any two steps, and
  `MaxAge` is below `TTL`, as `maximum_age_seconds` is below the term.
* *The runtime row.* `auto` compares states by all variables but `status`
  (`VIEW ButStatus`): the program writes it for the operator and never reads it,
  and no property names it, so states that differ in it alone go on alike.
* *Actions, requests, launches.* Arm, stop and arm again is three actions; a
  launch that is overtaken by another is two requests and two launches. With
  three launches one more corner appears in `StrategyFactory`, a late import;
  the proof found it, and `raced` names it.

The theorems of section 4 hold without any of these bounds: the bounds there are
constants.

### 3.2 Deadlock

The runs of `DemoExecution` and `LiveExecution` check for deadlock: there,
something can always happen. The others do not: their clocks and counters are
bounded, and a world in which every process is off and every counter is at its
bound has really stopped.

### 3.3 Fairness

* `RunnerFairness` (`DemoExecution`): some thread, as the runner's heartbeat
  does, starts a cycle again and again (strong fairness of `BeginCycle`, since a
  pause may come and go), and no thread stops inside one; a record that is
  queried again and again is answered at some time, to one of the threads; the
  exchange acts, and a request leaves the wire no later than its expiry.
  `AttendedSpec` adds that the operator resumes a paused runtime, which is what
  the console asks of its operator, and that nobody presses the kill switch,
  which ends every later cycle and which nothing in the program resets
  (`demo_execution_engine.py:384`).
* `RunningSpec` (`AutoExecution`): the runner thread is started and scheduled, its
  waits end (they have timeouts), and so do the calls of its heartbeat. Nothing is
  assumed of the threads that set the wake-up, of the operator, or of the process
  staying alive: a death empties the queue.
* `EmittingSpec` (`MarketCloses`): timers fire, and a thread that is emitting
  goes on. Nothing is assumed of the network.
* `WorkerFairness` (`FoundationRuntime`): a worker process that can step does.
  Nothing is assumed of the supervisor, of time, or of deaths.

### 3.4 Circumstances that are excluded

Where the code does not provide something in every circumstance, the
circumstance is a constant, and the property is claimed without it:

| Constant | Value | What it leaves out |
| --- | --- | --- |
| `PayloadRepeats` | FALSE in `demo_pair` | a signal presented again with the same content by another caller: `create_intent` then hands out a prepared record that another caller is about to send. What prevents it in Demo is the stamp the batch puts on its signals, not the ledger. The theorems need that, or a single caller (`OwnRecords` in `DemoExecution_proofs`). |
| `MaxPerSymbol` | 1 in `live_pair` | the second line of Live: with one position per symbol, the default (`risk_profile_store.py:145`), a record that a dead process prepared fills its symbol and the gate refuses it to the next one. The theorems need that, or a single caller (`OwnRecords` in `LiveExecution_proofs`). |
| `Stallers` | one of two | `SendsUnderAuthority` is claimed for the others: a process stalled for a whole term between its assertion and its send meets no second assertion. |
| `PidReuse` | FALSE | a new process with the pid of the one that was armed: it counts as armed (`unified_auto_execution_store.py:128`). |

Where the circumstance is a course of events and not a configuration, the runs
contain it, and the property names it:

| Variable | Exception |
| --- | --- |
| `overrun` (`LiveExecution`) | `ImplementsOrderPromise` and `ClosedAgrees` end for a signal, and `PositionLimit` for its symbol, when a process outlives its lease at work on it: its successor may find the record it prepared, and both send (3.5). |
| `early` (`AutoExecution`) | `NoLostWakeup`: a close that was queued and signalled before the thread started waits for the interval, an action of the operator, or the next close. |
| `disordered` (`AutoExecution`) | `CheckpointsAdvance`, `OnceUnlessTorn`: a close accepted after a later one is run after it. |
| `straddle`, `torn`, `raced`, `since` | 2.1, 2.4 and 2.7. |

### 3.5 Observed while modelling

Behaviour of the code that the models reproduce and that no document forbids
plainly enough to call it a defect. Whoever changes these places should know.

*Order paths.*
* A record left `prepared` is never queried and never changed: it pauses every
  later Demo cycle for ever (`demo_execution_engine.py:366`). Entries stay
  blocked, which is `CrashResidueBlocksEntries`, but nothing recovers.
* The pause that is set with an unknown order turns away the reconcile cycle
  too, before `recover_open_records` (`evolution_demo_service.py:1214`); the
  query waits for an operator who resumes. `ClosedOrdersSettle` is therefore
  claimed for attended operation.
* With two callers a stale reconciliation can reopen a closed record; the next
  pass closes it again. `ClosedIsFinal` is claimed for one caller.
* Nothing in `evolution_demo_service.py` hands a runtime identity to the Demo
  engine, so its entries fail closed at the assertion.
* Live: arming clears the kill switch, including one that was pressed while it
  checked (`live_canary_service.py:218`). Filled records count against the limit
  per symbol after the position is gone (`live_auto_execution_service.py:139`).
  `emergency_flatten_and_kill` is called by no route of the console.
* Live: two processes may send one signal. One that stalls for a term between its
  lookup and its INSERT prepares the record late; the successor that holds the
  lease by then, selected the signal before that and looks it up after it, is
  handed the record if the content is equal (`live_execution_store.py:112`), and
  nothing in the batch makes it differ. A fresh cycle is stopped by the limit of
  one position per symbol; so is a successor that merely lags, as long as it took
  its snapshot after the record was there.
* With a limit of two or more positions per symbol no stall is needed: a process
  that waits between its selection and the lease while another one prepares the
  signal and dies takes the lapsed lease, finds the record and sends it.
* An order that is canceled after a partial fill closes its record as canceled; the
  position it left is in no count of the ledger.

*Automatic execution.*
* A heartbeat that has read the row writes `ARMED` states over a stop that came
  meanwhile, and finishes its batch (`unified_auto_execution_controller.py:150`).
* The console attaches the close listener and runs the sockets for up to 15 s
  before it starts the runner (`http_app.py:2060`, `:2068`), and `start` clears the
  wake-up (`unified_auto_execution_runner.py:63`): a close of that time is kept, but
  waits for the interval, although "a confirmed close wakes the runner immediately"
  (`docs/superpowers/plans/2026-07-13-top100-demo-release.md:293`).
* `wake` accepts closes in any order. A candle that arrives after a later one, by a
  timer or after a restart, is run after it, takes the checkpoint back, and the
  later candle may be evaluated again.
* An action request whose completing UPDATE fails uses up its id: it is neither
  repeated nor answered.

*Market data.*
* Instruments that have rows are not reloaded after a lost connection, so their
  history keeps a gap (`okx_public_market_runtime.py:133`). So does a candle
  that closes between the first seeding and the subscription.
* The timer of a batch whose instruments have all left the universe emits
  nothing; the batch stays pending with the timer that has fired, so that a later
  confirmation that does not complete it starts no other one (`:333`).
* A batch may be emitted without instruments whose confirmation is still on its
  way (`:337`); either socket's `on_open` reseeds for both (`:533`).

*Role runtime.*
* Checkpoints are not fenced at `os.replace`: a worker that stalled there
  overwrites its successor's, and the next worker resumes behind a cycle that
  was reported (`server_foundation/checkpoint.py:82`).
* `stop` may report `stopped` while a worker is starting, when it looks before
  the worker has a lease or a health file; the worker then throws the request
  away and runs (`server_foundation/supervisor.py:296`).
* A second `start` for a role that runs removes the first one's health file, and
  when it fails it stops that worker.
* A healthy report does not imply present authority: a renewal that touches no
  row is not noticed until the next cycle.

*Strategy factory.*
* `resume_run` does not count running runs, so `MAX_CONCURRENT_RUNS` does not
  bound it; two starts that overlap both launch.
* A console that dies between `Popen` and the UPDATE leaves a run queued with its
  worker at work; started again, the new worker is judged by the old one's
  receipt.
* A pause noted after the run completed, and a worker that finishes before its
  launch is recorded or dies without a receipt, leave a row that stays active
  for ever. So does a run queued by a start that failed. The runner waits for
  each of them.

## 4. Proofs

Every theorem holds for all values of the constants that satisfy the modules'
assumptions: any number of callers, signals, processes, runs, crashes. Each
proof module has the types first, then one inductive invariant per property,
proved with a step per action. TLC has checked what is proved, on the instances
of section 3; `SymbolLimit` also on an instance with two processes.

**`DemoExecution_proofs`.**

* `LedgerFirst`: a caller from `reread` on works on a signal that has a record,
  and records are never removed; so has every request and every order.
* `ResidueBlocks`: an orphan is still prepared, because only the caller that
  inserted a record writes a prepared one, and that caller is gone; and a
  caller that is past `list` has each orphan in its work or has noted residue.
* `SentOnce`, `ClosedAgrees`, `RejectedIsNoOrder`, `DemoRefines` (under
  `OwnRecords`: content does not repeat, or there is one caller). What they need
  of it is `NoHandOver`: nobody finds a prepared record of its own content. A
  lone caller does not, since a prepared record is either its own work or an
  orphan (`PreparedInv`), and with an orphan it does not get past its recovery
  pass. Then at most one caller is between the INSERT and the end of a
  placement for a signal (the key is UNIQUE), and before its send nothing was
  sent; a request, an order or an answer exists only after that send. A status
  that a reconciliation holds is either `unknown` or one the order really had,
  and closed orders stay closed. The refinement maps the INSERT to `Intend`, the
  send to `Send`, what the exchange does to `Trade`, and all else to a stutter.
* `PromiseSuffices`: the abstract promise by itself implies that nothing is sent
  twice, so `OrderPromise` is not weaker than what it stands for.
* `SettlesRight`: an open record of an order that has ended stays open or is
  closed as the order ended, whoever writes it and however late.
* `KillBounded`: after the countdown, whoever is past the gates or on the wire
  and whatever is open was so at that moment: both flags stay up, unless
  somebody resumes, and resuming does not clear the kill switch.
* `AmbiguityStops`; `ClosedStaysClosed` (for one caller).

**`LiveExecution_proofs`.** `Working` ties control states to signals and to what
a caller has in hand.

* `AuthorityAtSend`: a caller that does not stall has authority in every control
  state from the assertion to the send (`Held`): its lease cannot lapse there.
* `KillIsBounded`: as for Demo, with `Straddled`, as long as the switch is set.
* `DoubtIsStop` (one caller): `Cautious` says that a doubt is a record the
  recovery pass will meet, or the flag it has set, from each control state on.
* `ClosedIsTrue`, `LiveRefines` (under Live's `OwnRecords`: there is one caller, or
  a symbol has one position at most), for every signal outside of `overrun`:
  `Ledger` counts who is placing and what is sent, `Closing` says what a state that
  was read, or an answer that came, allows to be written. Nothing is assumed of
  content or of stalls. Whoever is in a batch holds the lease, or its signal is in
  `overrun` (`Leased`), so one process at a time is at any other signal. A lone
  caller finds what it selected without a record (`Fresh`). Otherwise a prepared
  record, which a process that died left, fills the symbol in the snapshot of
  whoever comes next, so the gate refuses (`Viewed`).
* `SymbolLimit` (under the same `OwnRecords`), for every symbol without a signal in
  `overrun` (`Clean`): what is or may become a position of a symbol (`Exposed`) is
  among the records that the gate counts (`ExposedCounted`), so whoever passed the
  gate has room for its order (`Room`). Only a send makes `Exposed` larger
  (`ExposedSteps`), and only one caller is in a batch of the symbol (`Alone`), so
  the room is still there at its send (`LimitedSend`).

**`PrivateOrders_proofs`.** `Calling` counts the requests of a call by its
control state, `Entries` ties a pending entry to a call that waits, `Truthful`
says that whatever a callback has noted is true of its order, and `OneCall` that
with one call there is at most one request or order. The last is what makes a
refusal final.

**`ActionRequests_proofs`.** One thread at most is past the claim of an id, the
row remembers its content, and no row means no dispatch; so `OneDispatch` and
`OneOutcome` hold across any number of deaths.

**`AutoExecution_proofs`.**

* `WakesUp`: a queued event while the thread is anywhere from `wait` to `clear` has
  its wake-up set, or a thread about to set it, or was queued before the start and
  nothing since (`Awake`); clearing comes before draining.
* `StopBounded` (without `PidReuse`): what the heartbeat has read of the row was
  true when it read it, or the ARM was withdrawn since and `straddle` says so.
* `FailureIsStop`: after a failure entries are closed until an operator opens
  them, and only the failing thread itself is on its way to close them.
* `CheckpointsInOrder`, `EvaluatedOnce` (both up to the first close that comes after
  a later one, `disordered`): the events in the queue, those drained and the
  current one form a line of increasing candles (`Line`); no checkpoint
  is ahead of it (`Behind`); and what was evaluated lies behind the checkpoint,
  or is being saved, or is torn (`Once`).
* `AcceptedIsKept`: a round takes its events one by one and starts no other
  before they are through (`Round`), and a heartbeat that says `running` has
  the checkpoint of every release at its candle (`Saving`). With that each step,
  a failure and an operator's included, leaves an accepted close in the queue, in
  the round or in its heartbeat, until this heartbeat ends.

**`LeaseMarket_proofs`**, which are the theorems of two small modules.
`ExecutionLease`: the row's term never reaches further than a term
from now, and claims are pairwise different. Without a token in the UPDATE the
row of a successor can be extended by a stranger; `ExecutionLockout`,
`ExecutionAuthority` and `ExecutionRefines` are what holds nevertheless.
`MarketCloses`: an emitter works on its own batch (`OwnBatch`); a timer that has
not fired belongs to a pending batch that nobody is emitting (`OneTimer`);
whoever is emitting has a batch that is pending or emitted (`Underway`), and the
step under the lock that counts the event is the one that marks the batch
(`Marked`). So the last confirmation, the timer and a reseed may all come to one
batch, and `EmittedAtMostOnce` holds; `BatchesAreKept` follows step by step.

**`FoundationRuntime_proofs`.** First the lease by itself. `LeaseInv`: the row
carries the newest token, claims are pairwise different and not above it, and a
process that acquires has no claim. Without it `SingleAuthority` is not
inductive: two processes could hold one token. `LeaseRefines` maps every step to
a step of `RoleLease` or a stutter. `RuntimeUsesLease` shows that each step of
the runtime is a step of the lease store or leaves it alone, so that the lease
theorems carry over. `RuntimeTypeCorrect` needs that a worker inside a cycle has
a claim. `RefusalIsFencing`: no file carries a token above the sequence, and a
worker about to resume has written nothing under its own. `StopConverges`: only
the two moves behind `~stopReq` start a cycle; all others bring a worker closer
to its end.
`ReportsPredateTakeover`: a worker's cycle began before the grant that followed
its own, since renewing is refused from that grant on; and so did the cycle of
whatever lies in the health file or in its draft, whoever put it there.

**`StrategyFactory_proofs`.** `Sound` holds of every run that is neither raced
nor torn: one handler launches it, one worker is busy, the marker means that
none is, a row that is not under way means that none is and that the last
receipt is imported, whoever is about to launch finds it so, and a receipt on
its way into the table is the last one. `OneWorker` follows. `RunnerIsPatient`
adds, for torn runs too, that a run without a receipt has no outcome, so that a
first worker is always on record as active (`WorksActive`), and that what works
and was not excused is still to be looked at, or was launched since the listing
(`Looked`).

**Only model-checked.** The four liveness properties, whose proofs would need
fairness and `ENABLED`. Of each, what does not is proved:

| Property | What is proved of it |
| --- | --- |
| `ClosedOrdersSettle` | `SettlesRight`: nothing that is written to the record leads away from its settlement |
| `ClosesAreRun` | `WakesUp` and `AcceptedIsKept`: a queued close has its wake-up but at the start, and no step loses it |
| `ConfirmedIsEmitted` | `BatchesAreKept`: a batch is never left by everybody |
| `StopIsHonoured` | `StopConverges`: a distance that every step of the worker decreases and no other step increases |

Every other property of a run is a theorem, under the conditions named above,
which each run that checks the property satisfies: `demo_single` and
`live_single` have one caller; `demo_pair` has two, whose content does not repeat;
`live_pair` has two and one position per symbol.

## 5. Not modelled

*In the modelled components.* Demo and Live: `record_closed_outcome`, the status
projections, `cancel_open_orders`, `emergency_flatten_and_kill`, and the
arithmetic of sizing and risk, of which Live's limits are kept. Role runtime:
`runtime_identity.json`, the startup reconciliation gate, torn writes of
temporary files (a write of one is a step, its replacement another), and `stop`
in the process that spawned the workers outside of a failed start. Automatic
execution: `retire_checkpoints`, the stop of the thread at shutdown. Private
channel: the push channels. Market data: tickers, quotes, metadata and the
freshness of channels. Strategy factory: the choice of candidates, what a
receipt's outcome does to memory and ledger, and `record_checkpoint`, which
nothing in the console calls. Errors of SQLite are modelled where a component
exists to survive them (`ActionRequests`), and not elsewhere.

*Components.*
* The REST clients sign and send; what may come of a request is part of the
  order path's modules.
* The engineering smokes run one supervised order on the engines that
  `DemoExecution` and `LiveExecution` model, with records of their own that
  nothing else reads.
* AI orchestration is advisory: budgets and a circuit breaker around model
  calls, off the order path.
* Risk profiles and releases change by review and are constants to a batch.
* The local sandbox trades on paper under one lock, without an exchange.
* The HTTP console routes; its requests are the other threads of the modules.
* Evidence, audits and reports, by far the largest part of the package, build
  documents from what they are given: no concurrent state to specify.

## 6. Where to go on

1. Engineering smokes as refinements of a single guarded order, with their
   recovery after a restart.
2. The runner as the environment of the batch: `AutoExecution` has one step for
   a batch, `DemoExecution` has one for its trigger; a refinement would say that
   the one is the other.
3. The emergency flatten, when a route calls it: its bounded rounds against
   orders that still fill.
4. The strategy lifecycle ledger, once the console rather than the worker
   writes it.

# A TLA+ model of Teco Quant Options Pro

The program is a local, read-only-by-default options dashboard for Indian index
derivatives: a Python backend that acquires market data from the Dhan broker,
validates and stores it, scores it, paper-trades the signals and serves the result
over HTTP, and a TypeScript frontend that displays it. This directory holds TLA+
modules of its concurrent and stateful parts, TLC configurations that check them on
small instances, and proofs that the TLA+ proof system checks.

Paths below are relative to `src/`; `tq/` stands for `backend/src/teco_quant/`.

## 1. Inventory

| Part | Source | State it keeps | Operations | What must hold |
|---|---|---|---|---|
| Execution control | `tq/execution/` | SQLite ledger: signals, approvals, orders, positions, journal, kill switch; instrument registry | submit, approve, set_kill_switch, replace_instrument_registry, close_position | one open position per security; at most one broker mutation per correlation id; intent on record before the mutation; approvals before parked signals execute; the limits stop calls |
| Market data service | `tq/market_data_runtime.py` | feed handle, subscription worker, running and stopping flags, registered contracts | start, stop, replace subscriptions, replace contracts, gated context, attach | a started feed is stopped; no feed is left running after stop |
| Live feed supervisor | `tq/brokers/dhan_live.py` | desired instruments, session generation, receive times, health, counters, socket | start, stop, replace_instruments, run loop, accept packet and market status | ready only with fresh packets of this session; a replacement is eventually subscribed |
| Market read model | `tq/api/market_read_model.py` | latest publication by underlying, feed ticks, revision, closed flag | publish, publish_feed_tick, latest_feed_tick, wait_for_revision, close, status | publications only advance; a waiter sees each revision; no trade on unhealthy data |
| Acquisition service | `tq/ingestion/dhan_acquisition.py` | worker thread, events, focus, cooldowns, master cache, cycle lock | start, stop, request_focus, run_once, refresh master, acquire market | one cycle at a time; cooldowns honoured; a focus request is served soon; stop ends the worker |
| Snapshot repository | `tq/persistence/sqlite.py` | snapshots, strategy versions, instrument masters, overrides, hash-chained audit log | open and verify the file, save_ingestion, publish_strategy_config, record_instrument_master, add_manual_override | accepted snapshots ordered; references resolvable; one chain of every writer's events |
| Ingestion | `tq/ingestion/service.py`, `validation.py`, `normalization.py` | none | ingest, validate, normalise | what is accepted can be stored, analysed and shown; a derived change of open interest passes the rules of all who check it |
| Automation and signals | `tq/automation/`, `tq/signals/` | signal history rows | evaluate a snapshot, record the signal, submit its plan | recorded before executed; a decision to buy has a plan that can be executed |
| Runtime and server | `tq/runtime.py`, `tq/server.py`, `tq/__main__.py` | the opened components, request threads | start, close | components closed in reverse order, none lost when closing fails |
| HTTP API | `tq/api/wsgi.py`, `market_leaders.py` | response cache, rate limit of the leaders | GET and POST endpoints, long poll | bounded work per request |
| REST client | `tq/brokers/dhan.py`, `base.py` | none | requests | every failure reaches the caller as a typed error, no hidden retry |
| Catalogue, history | `tq/ingestion/dhan_catalog.py`, `dhan_historical.py` | none | parse, select | pure |
| Analytics, strategy, backtest, config | `tq/analytics/`, `tq/strategy/`, `tq/backtesting/`, `tq/config.py`, `tq/domain/` | none (the backtest: a portfolio in a loop) | pure functions | numeric |
| Frontend | `frontend/src/` | React state, polling generations, cached snapshots | poll, switch market, size positions | no result applied out of order |

How they interact. `BackendRuntime` opens the repository, the read model, the
execution ledger and controller, the market data service and, where credentials are
present, the acquisition service. The acquisition worker runs one cycle at a time
under a lock: it refreshes the instrument master (and hands the verified contracts to
the market data service and the execution registry), fetches chains, has them
normalised, validated and saved, has automation score them and submit the plan to
execution control, and publishes the result to the read model. The live feed's thread
pushes ticks and market status into the read model by callback. HTTP request threads
read the read model, wait on its revision, approve signals and set the kill switch.
The frontend polls those endpoints.

What is hard in it: calls of several threads interleave between short critical
sections (execution, market data service, supervisor); state is read before a lock is
released and used afterwards; the broker can time out after it has accepted; the
process can die between two transactions, and two processes may have one database; the same rule is kept
by several files in their own words; feeds are restarted while they are being
stopped; events are cleared and waited for by different threads; publications,
ticks and HTTP responses arrive out of order.

## 2. Plan

Done, in this order: execution control; the market data service with the close of the
runtime; the live feed supervisor; the acquisition worker's schedule; the read model;
the browser's market loop over the read model (a composition of both); the market database
and the cycle that fills it (`SnapshotRepository`, `IngestionCycle`); the rules from payload to
order (`SnapshotRules`, `SignalRules`, `SnapshotEvaluation`).

What is left, by what it would add:

1. **The cycle's caches**: resolved contracts and their grace, the retry interval of the master
   refresh, the subscriptions and the registry built from them. The hazard at
   `dhan_acquisition.py:1330` waits for it.
2. **Runtime and server**: unwinding of a failed start, the drain of requests at shutdown.
3. **The other two polling hooks** (`useMarketLeaders`, `useBackendStatus`): every poll
   aborts the one before.
4. **The rest of the read model's workspace** and the display's own gate and sizing, against
   the backend's rules.

Every safety property the passing runs check is a theorem. Still worth stating and proving: an
abstract specification of the display (one register per selection, which only advances while a
backend lives) that `MarketClient` implements, as the other four parts have one.

## 3. How the modules correspond to the code

In every module an action is one atomic piece of a thread: what runs under one lock,
one database transaction, or one exchange with the outside. Where a thread is between
two of these is a label (`pc`, `worker`, `closer`, ...), and what it read in an earlier piece
and uses in a later one is a variable of its own. Shared state is written
only under a lock or in an event, so there are no data races to model.

Definitions whose comment begins with "Mutant:" or "Bug:" are not used by any specification.
They are defects a programmer could put into the definition that follows them, and each
property is checked to fail when its module has that defect.

### Execution control

`ExecutionLedger` has the tables as functions from plans to rows. Every writing method of
the ledger class is one `BEGIN IMMEDIATE` transaction and so one operator; constraints
of the schema (`UNIQUE` columns, the unique index on open positions, foreign keys)
make `ExecutionRefused`, which rolls the transaction back. `ExecutionController` has the
calls. A call of `submit` or `approve` by thread `t` is the sequence

    [approve: CheckAwaiting] CheckKillSwitch CheckDailyLoss CheckStreak (TripKillSwitch)
    CheckKnown CheckGates CheckExposure
    RecordReceived, then Block | Park | ExecutePaper | the live exchange   [submit]
    Approve, then ExecutePaper                                             [approve]

and `pc[t]` is the next of them. The exchange with a live gateway is `SubmitAnswered`,
`SubmitTimedOut`, `SubmitUnusable`, then `LookupFound`, `LookupMissing` or
`LookupUnusable`, then `ExecuteLive`, or `RecordUnknown` and `MarkUncertain`, which are two
transactions in the code too. The gateway has no implementation in the repository: after
a timeout or an error the broker may have the order, may not, or may yet come to have
it (`LateAccept`). The environment sets the kill switch, replaces the registry,
closes positions, lets time pass and restarts the process in any of the configured modes.
Prices are left out: a position's profit or loss is a number chosen at its closing.

### Market data service and the close of the runtime

`MarketDataService` has two threads. The acquisition worker runs
cycles and calls the subscription callback: it detaches the feed under the lock
(`worker = "detached"`), stops and joins it outside (`"joining"`), and puts it back when the
join ran out. The closer runs `BackendRuntime.close` and the service's `stop`: mark stopping,
capture the handle, tell and join the worker, tell and join the feed, then give up the
handles or keep them for another try. `feed[f]` is the thread of supervisor `f`: none, running,
or told to stop. Identities in `Feeds` are reused once nobody holds them, so two stand for
any number of supervisors made one after another.

That a feed is such a thread is what `LiveFeedSupervisor` is shown to implement: `FeedThread` is
a thread that runs until it is told to stop, ends only then, and subscribes one generation at a
time. `RuntimeLifecycle` extends it to what the runtime promises of all its producers, without
handles, locks, joins or retries: serve once, stop once; feeds begun and changed only while it
serves; closed when the worker is gone and no feed is untold; dependencies released after that.
`ImplementsLifecycle` maps the service to it by the one living feed (`Thread`, `Subscribed`) and
the flags (`Phase`); a feed that was told and is still alive is "told" there too, which is what
the finding of `market_service_close` leaves alive.

### Live feed supervisor

`LiveFeedSupervisor` opens up one feed thread. The worker's labels follow `_run`: top of the loop,
begin an attempt (a new session), connect, publish the socket under the lock, take the
instruments, send, receive, hand a packet to the consumer, record it, and on an
exception record a failure, clear the socket, close it, back off. `replace_instruments` and
`stop` each take the socket under the lock and close it after; their two halves are
separate actions and can fall anywhere in the worker's steps. `open` is the set of sockets
that are really open, `socket` the handle. An instrument can go stale at any time.

### Acquisition worker

`AcquisitionWorker` is the thread's loop: check the stop event, clear the wake event,
select the symbols, run the cycle, wait. The cycle is its outcome: rate limited, clean, failed.
`left` counts ticks to the deadline of the wait. A wait is left when the wake event is
set or the time is over, a cooldown only for a stop or at its deadline. `request_focus` and
`stop` set their state first and the event in a second step. The symbols are distinct, since
the service takes them through `dict.fromkeys`.

`AcquisitionRotation` adds a count the worker does not keep: of each symbol, the cycles begun
without it since it was last in one or the focus changed, up to one more than there are symbols.
The step of the worker is unchanged and `waited` only watches it.

### Read model, long poll and the browser's loop

`MarketReadModel` has publications by selection (a rank in the order of source time,
sequence and receipt, and the contract's security ids), the time of each cached tick,
the revision and the closed flag. Each client has at most one request thread, which
checks for a reset, enters the wait, is notified or times out, and reads the revision once
more for its answer: four separate critical sections, as in `wsgi.py` and the store.
`MarketClient` adds the hook `useLiveMarketData`. JavaScript runs to the next
`await`, so a loop's step is what it does with the answer it awaited. `Select` is the render with a new
selection and its effect (it aborts one loop and starts another). `workspace` is what the hook returns:
between the render and the effect the state may hold the old selection's workspace, which
`visibleWorkspace` hides. `Learned` is `Math.max`, and
`learned` remembers, for the properties only, which backend process the loop's revision came
from. An aborted loop forgets its revision in the model because nothing reads it again.

### Market database and cycle

`SnapshotRepository` is one SQLite file that several processes may have open. Every write is
`BEGIN IMMEDIATE`, so a transaction has two steps: `Begin` takes the lock and reads (the head of
the stream, the last audit event), a `Commit...` operator decides on what was read and writes.
What makes the transaction raise is `Rollback`. A stream is a contract key: the
digest of a contract names its master and its strikes, so a stream is a pair of a batch and a
window of strikes. `previous` of an event stands for the hash of the chain before it: the number
of events in it.

`IngestionCycle` has a program run per process, `pc[p]` its next step:

    LookForFile, Verify | Connect, CreateSchema, PublishStrategy                     [start]
    FetchMaster, RecordMaster                                                        [refresh]
    FetchChain, ReadPrevious, Validate, Save | SaveRefused,
    Evaluate | EvaluationFails, Submit, Publish                                      [a market]

Whether the file exists is looked up before the connection creates it, so two runs can both find
none; the second then fails on the tables of the first. `AcquisitionFails`, `StorageFails` and `Crash` can come at any of the steps the code can fail at,
and the clock can be set back. The database, the history (a second file), the execution
controller and the read model are different stores, written one after the other. The validator's
verdict is free except for its rule on changes of open interest, which is the one that reads the
database. The snapshot has one leg.

`EvidenceLog` is what all of this promises, without files, transactions, runs or crashes: a set of
saved snapshots that only grows, its accepted part, and what was judged and acted on. A step keeps
one new snapshot, which if accepted continues its stream as it is then, or judges a kept one, or
acts on an accepted and judged one. `ImplementsLog` maps `attempts`, `Accepted`, `history` and
`executed` to it.

### From payload to order

`SnapshotRules` states, each in its own operator, what the normaliser does with a chain, what
the validator accepts, what the tables and the insert accept, what the analytics ask for and what
the read model shows: five sets of rules that four files keep independently. `SignalRules` has
the scoring of a leg, the ranking, the decision's gates in order, the sizing, the draft plan, the
execution plan and what the execution controller asks of it. `SnapshotEvaluation` is the path of
one payload through them: every `Stage` is a call of `_acquire_market`, and the calls that raise
are actions of their own.

Prices, quantities and ratios are natural numbers (percents where the code has fractions), with
`None` for an absent value, `NaN` for one that is not finite, `Naive` for a time without a
timezone and `Malformed` for a payload value of the wrong type. A factor is a share of `Full`,
rounded down, so scores that differ by less than a share are equal here; the thresholds are
those of the code. The formulas of `analytics/pricing.py` are abstracted: `Pricings` are the deltas at the money
and the grades they may answer, a delta falls by ten percent with every strike out of the money,
and of any snapshot they may refuse to answer (`PricingRaises`: a result that is not finite). When two legs have the same score the code's ranking and its plan may name different
strikes of the side; the model follows the plan. Three gates (`DATA_STALE`, `INVALID_EXPIRY`,
`NO_LIQUID_STRIKE`) are kept in the code's order although no accepted snapshot comes to them.

## 4. What is checked

| Run | Instance | What it shows |
|---|---|---|
| `exec_paper` | 3 plans on 2 securities, one submitter, kill switch, 2-tick days, expiries in turn | the exposure gate still holds at the recording (`GateHoldsToRecord`); the streak lock is permanent; nothing short of the next day lifts the daily lock; a recorded signal is settled |
| `exec_race` | 2 plans on one security, two threads that each submit and approve, manual, paper and live mode, half fills, a gateway that answers, times out, accepts late or fails, one restart into another mode | the tables agree; a halt stops calls; at most one mutation per correlation id, and intent before it; parked signals need approval; `SignalExposure` is implemented, so one position per security |
| `market_service` | 2 generations, 2 supervisor identities, 2 joins run out, one failure | one feed thread; a wanted generation is served unless a join ran out; a close ends; `RuntimeLifecycle` is implemented, so no feed is left untold by a close and the worker goes before the databases |
| `live_feed` | 2 instruments, 2 sets, 3 sockets, one failure | readiness within what is wanted; no socket left; a rotation is no failure; a replacement is subscribed; a stop ends the worker; `FeedThread` is implemented |
| `acquisition` | 4 symbols, 2 focus threads, backoffs of 1, 2 and 4 ticks | no focus request sleeps on; cooldowns are honoured; every market is served; the focused one is in every cycle, and no other waits for more cycles than the background has markets |
| `read_model` | 2 selections sharing an option, 2 request threads, room for one tick, 2 closings or restarts | no waiter sleeps on; answers are consistent; the cache keeps its limit |
| `market_client` | 2 expiries of one symbol, 2 loops, one mishap | nothing is missed by a blocked loop; what is displayed is selected; the display catches up |
| `ingestion` | 2 processes on one file, of which one acquires, 2 masters, 2 snapshots, 2 mishaps, 3 times | streams in order with exact changes of open interest; one audit chain that tells of each row once; an accepted snapshot is refused for the clock only; what is shown is the newest saved; `EvidenceLog` is implemented, so no signal or order is without its evidence |
| `evaluation` | about 9,000 payloads of an index, a stock and a commodity, one or two fields at or past a boundary; 8 answers of the pricing model; the limits of the code | what is accepted can be stored, analysed and shown; a derived change passes every check; an ineligible leg has its reasons; a decision to buy has a plan that executes within the operator's limits |

Three further runs each state what a comment of the repository says and find a behaviour of
the code that contradicts it:

- `market_service_close`: "Producers must be gone before their read models and databases"
  (`runtime.py`). The callback has detached a feed and is joining it; `stop` captures
  no handle, counts the feed as stopped and joins the worker; the feed's join runs out and
  the handle is not put back, since the service is stopping. The databases are closed while
  the feed's thread lives.
- `acquisition_stop`: selection changes wake a normal poll "immediately; stop() does too". A
  stop between the check of the stop event and the clearing of the wake event loses its
  wake-up: the worker runs a cycle and sleeps its full delay.
- `evaluation_confirmation`: "A score never bypasses ... manual price confirmation gates"
  (`strategy/spec.py`). The operator's `price_action_confirmed` is stored and shown, and no
  decision reads it: only the signal candle is consulted.

Two behaviours have no run of their own and are the exceptions two properties name. A feed that
was put back after its stop ran out has its stop event set, and later generations only
replace its instruments, so nothing starts it again (`ServedUnlessTimedOut`). And the browser's loop keeps
the maximum of the revisions it has seen: once a restarted backend has counted up to the old
number, the loop blocks although a newer publication is there, until the next
one or the poll's timeout (`NothingMissed` speaks of revisions learned from the living backend).

### Bounds

Bounds are constants that appear only in guards (`MaxClock`, `MaxRestarts`, `MaxTimeouts`,
`MaxFailures`, `MaxMishaps`, `MaxRevision`, `MaxSnapshots`) or in the ranges of inputs (`MaxOrder`,
`MaxTime`, and the delays of the acquisition worker). They are chosen so that each
case has room to happen and to be followed by the ordinary steps:

- Two plans for one security are the least that can compete, a third on another
  security shows the gates are per security and makes a loss streak of two possible while a
  signal is open. Two lots are the least that can be half filled. Three clock values with days of
  two ticks give two days. One restart separates every earlier step from every later one.
- Two joins that run out let the worker's and the closer's both do so, or one twice.
- A socket each for the worker, the replacement and the stop: no caller can hold a
  stale one while the pool is exhausted.
- Backoffs of 1, 2, 4 reach the maximum from below. Of four symbols a focus leaves three to
  rotate over, so a cursor can be left at, before or past the end of them; the bound of
  `ServedInTurn` is met there and one less is violated.
- Two selections that share an option, with room for one tick, make a tick belong to two
  publications and the cache full. Revisions up to 3 outrun a waiter's number by more than
  one; two mishaps allow a restart after a close.
- Two processes are the least that can contend for the file, two masters the least that can
  make a run leave a stream behind, two snapshots the least that refer to each other; a clock of
  three values can be set back between them. With both processes acquiring, the same properties hold
  with one mishap; the run keeps to one that acquires, which leaves room for two.
- Evaluation has the limits of the code itself (30 s of age, 5 s of skew, 36 h of a master, 65 and
  75 points, a gap of 8), and inputs at and just past each. Pairs of altered fields are
  taken for one rising index and one even commodity.
- The loop needs a revision that has come back to the old number after a restart (2), an
  older loop to abort (2 loops), and one mishap at any point.

What a bound hides is covered where a theorem (section 5) holds for all values.

### Deadlock

Deadlock is checked except in the `market_service*`, `acquisition*` and `evaluation*` runs: a closed
service, a stopped worker and a payload that was published have nothing more to do. A cycle can
always fail or go on, and a run that is down can start. The browser and the read model runs cannot stop, since
a waiting thread can always time out and a loop that is not aborted always asks again.
Execution is never stuck because the operator can always set the kill switch.

### Fairness

Only what schedules itself is fair; nothing obliges the environment to act.

- Execution: a call that was begun takes its next step (`WF` of `Step(t)`), since its thread
  runs, transactions end and the gateway answers, errs or times out. Closings, the operator, the
  clock and restarts are not fair. `ReceivedIsSettled` is checked without a crash: the code
  has no recovery of a signal that was RECEIVED when the process died.
- Market data service: the worker's next step, the closer's next step, and the end of a feed
  that was told to stop. A join that runs out is not fair, and `ServedUnlessTimedOut` and
  `CloseEnds` exempt it.
- Supervisor: a live worker's next step, a begun `replace_instruments` or `stop`. Connection
  failures, staleness and replacements are not fair.
- Acquisition: the worker, the passing of time, and the second half of a begun call.
- Ingestion and evaluation state no fairness: their properties are of safety.
- Browser: the current loop's next step and the request thread that serves it. The timeout of the
  long poll belongs to the latter: it is what ends a wait that nothing else ends.

## 5. What is proved

The proof modules hold theorems that hold for every value of the constants: any number of
plans, callers, feeds, symbols, clients, any limits and bounds. They assume the named
`ASSUME`s of the modules only (for instance that plans have a security and a positive quantity,
that `NoFeed` is no feed, that the configured symbols are distinct, or that the pricing model's
grades are shares of the whole), which TLC evaluates on its instances.

| Module | Theorems | Argument |
|---|---|---|
| `ExecutionProofs` | `TypeCorrectness`, `HaltingTheorem`, `OnePositionTheorem`, `GateTheorem`, `StreakTheorem`, `DailyTheorem` | `ControllerTypeOK` is inductive. A halted call is one begun under a kill switch that has stayed on (`HaltIsActive`), so the check it comes to reads it as on. One position per security follows from the refusal of the insert, whichever calls race. `GateTheorem` assumes that no two threads are in a call (`OneCaller`: what the acquisition cycle lock gives while nothing is approved): between the gate and the recording the caller's own writes open no position, and nobody else's can (`GateKept`). For the two locks: while no call is past the limits and nothing is open, no step writes the positions (`LockedSteps`), so the streak and the day's sum stay what they are, and the limits turn every call away |
| `ExecutionOwnershipProofs` | `SingleMutationTheorem`, `IntentTheorem`, `ApprovalTheorem`, `TablesTheorem`, `RefinementTheorem` | `RowsOwned`: past its insert, exactly one submit call owns a plan (`OneOwner`), its row is still RECEIVED and nothing has been sent before "route" (`OwnedRows`); a row once parked never returns to a submit (`ParkedRows`); executed rows are those with an order (`OrderRows`). Neither property is inductive alone: the step that sends has to know that nobody sent before. With `RowsOwned` every step is one of seven kinds for the ledger (`LedgerSteps`), each with what is known of the plan then; that is enough to show that the five tables stay in agreement (an acknowledgement never fills more than the quantity, and an execution finds no order, position or journal row of its plan) and that each step maps to one of `SignalExposure` or to a stutter under `PhaseOf` |
| `MarketDataServiceProofs` | `ServiceTypeCorrectness`, `OneFeedThreadTheorem`, `NoFeedRunsOnTheorem`, `WorkerGoneFirstTheorem`, `LifecycleTheorem` | `HandleInv`: a live feed is in the slot or in the worker's local, unless the service is being stopped, when nothing is created any more (`AliveHeld`); a running feed is in the slot or about to be told (`RunningHeld`); the slot is empty while the worker holds a detached feed (`WorkerHolds`), and a stop in flight has captured what is in the slot (`StopHolds`). `OneFeedThread` alone says nothing of who will stop a feed that is in nobody's hands. For `LifecycleTheorem` every step maps to one of `RuntimeLifecycle` or to a stutter; the hard one is the stop that fails, after which the service may not seem to serve again: `StopEnds` says that a stop in flight belongs to a service that was started and has not been closed, so that one nobody started has no join to fail |
| `LiveFeedSupervisorProofs` | `FeedTypeCorrectness`, `ReadyIsWantedTheorem`, `NotHealthyAfterStopTheorem`, `NoSocketLeftTheorem`, `RotationIsNoFailureTheorem`, `FeedThreadTheorem` | `FeedInv`: only the worker's own socket is open (`OwnSocket`); a connection begins with nothing ready (`BeginsEmpty`); a worker that publishes a connection after a stop's mark does set the connected flag again, but with nothing ready, and gets no further than the check before its first receive (`StoppedConnection`). `Announced`: a socket somebody else has taken was taken after the restart or the stop event was set, so the exception its closing raises in the worker finds the event, whichever of the closes it comes from: that is why a rotation is no failure |
| `AcquisitionWorkerProofs` | `NoFocusSleepsOnTheorem`, `CooldownHonouredTheorem`, `WorkerTypeCorrectness`, `ServedInTurnTheorem` | `WakeInv`: from the moment the worker has selected its symbols until it sleeps, a focus that is pending has its event set or about to be (`RequestsSeen`); outside a wait no time is left, unless a stop cut a cooldown short, and then the worker goes no further than its next look at the stop event (`TimeIsUp`). `Turns`: what a symbol has waited for, its turns still to come from the cursor (`Away`) and the one cycle a new focus has to itself are together at most the length of the background; a cycle moves every other symbol one turn closer, and a change of focus starts the count again wherever it leaves the cursor. It is the quantitative core of `EveryMarketServed`, without its fairness |
| `MarketProofs` | `StoreTypeCorrectness`, `NoWaiterSleepsOnTheorem`, `AnswersTheorem`, `UpdatesAdvanceTheorem`, `ClientTypeCorrectness`, `NothingMissedTheorem`, `DisplayedIsSelectedTheorem` | `StoreInv` relates each request thread's numbers to the revision, `CacheBounded` is by cardinality. `ClientInv` adds `Running` and `Knows`: a loop that learned its revision from this backend and is in its long poll shows the newest publication of its selection unless a revision has come since |
| `IngestionProofs` | `CycleTypeCorrectness`, `EvidenceTheorem`, `AuditTheorem`, `OrderTheorem`, `RefusalTheorem`, `ShownTheorem`, `LogTheorem` | `Locked`: one transaction at most, and what it has read still stands. `IdsApart` and `MastersApart`: an id is of one snapshot, and a master's streams are written by the run that fetched it. `HandsSaved`: past the save, the snapshot in hand is in the database with its status. `FollowsHead`: the snapshot that is built follows an accepted one and nothing has followed that since. None of the five properties is inductive alone: the transaction that inserts has to know what was read before it. `LogTheorem` follows from these: a save keeps one snapshot whose id is new (`IdsApart`), an accepted one continues the stream as the insert itself finds it, whatever the run had read, and what is judged or acted on is in hand and saved |
| `EvaluationProofs` | `DerivedChange`, `StorableTheorem`, `UsableTheorem`, `ReasonsTheorem`, `ActionTheorem` | no induction over time: each stage is a function of the one before, so the invariant is that the stages are what those functions give; the work is that one set of rules implies the other, for any chain, contract and limits. `ActionTheorem` goes back from the decision: a decision to buy means that no gate was shut (`GateConditions`); the conflict gate puts the two best scores a gap apart, so the side drafted for and the side decided for are the same; its best leg is eligible, so has a premium and passes the liquidity the execution plan is checked for again (`BoughtCandidate`); every price is a rounding to the grid of ticks, the stop below and the targets above by at least a tick (`PlanPrices`, `TargetsRise`); the lots are the least of what risk and allocation afford, by division with remainder (`LotsAfforded`) |

The strengthenings were also checked by TLC before they were proved. Four theorems
(`OnePositionTheorem`, `NoFeedRunsOnTheorem`, `WorkerGoneFirstTheorem`, `EvidenceTheorem`) state
what follows from a refinement that a run checks; no run lists these invariants again.

Only model-checked: the liveness properties (`ReceivedIsSettled`, `ServedUnlessTimedOut`,
`CloseEnds`, `ReplacementSubscribed`, `StopEndsWorker`, `EveryMarketServed`, `DisplayCatchesUp`),
which are out of the prover's reach. Of the last but one the proofs have the bound
(`ServedInTurn`), and of the refinements the safety part, which is all `FeedThread`,
`RuntimeLifecycle`, `EvidenceLog` and `SignalExposure` state.

## 6. What is not modelled

- In execution: prices (a fill price that rounds to zero included), the audit events, and
  the fingerprint of the schema. A gate that only compares numbers of the plan is membership in
  `Admissible`.
- In the market data service: the gated context of the strategy, the hand-over of contracts to
  the registry, the health report.
- In the supervisor: decoding of packets, counters, and how long a backoff is.
- In the acquisition service: the caches of resolved contracts, quotes and candles, the retry interval of
  the master refresh, and the hand-over of contracts to subscriptions and registry. A cycle
  takes each contract from its catalog.
- In the market database: the content of an override (one override bounds the model), the
  views that only read, corruption of a file that was whole. A digest is the name of what it
  digests, so collisions are excluded.
- In ingestion and signals: the pricing model and the indicators (floating-point formulas, whose
  answers are inputs), the normalisers of the master and of quotes, the wording of reasons. Of a
  rejected snapshot the decision is fixed, and whether the evaluation raises is left open, as is
  whether the formulas find a finite result for an accepted one.
- The backtest: one sequential loop over a portfolio of its own, without storage or concurrency.
- A signal left RECEIVED by a crash (`controller.py:113`): the code has no recovery to state a
  property of.
- In the read model: freshness, blockers and the other read views of a workspace. Reading a
  workspace also requests the acquisition focus; that call is `RequestFocus` of
  `AcquisitionWorker`. The server drains requests before the runtime closes
  the store; the model lets `Close` come at any time, which is more than can happen.
- In the browser: connection labels and messages, the disabled and unconfigured states (an
  answer that credentials are missing counts as a mishap), the parsers.
- Not modelled at all: the components listed as such in `PROJECT.json`, each with its reason.

# Formal models of the BTC/USD trader

These modules model the parts of the trader (`trader/` in the repository) where
several processes, network calls and crashes meet: the durable stop latches and
their command queue, the runtime loop and the guardian and how they watch each other, the
execution of live orders, the signed requests under it, the way of the venue's order
book to the price of an order, and the paper simulator; and around them what decides
whether an order may be made at all: loss limits, entry rates, exit rules, the ledger,
the labels a model learns from and the approval of a live start. TLC checks them on
small instances; TLAPS proves results about twelve of them for every value of the
constants. All paths below are relative to the repository.

Run the models from this directory:

    tlc -workers 2 -config MCControlPlane_safety.cfg MCControlPlane
    tlc -workers 2 -config MCSupport.cfg MCSupport
    for m in *Proofs.tla; do tlapm $m; done

## 1. Inventory

The trader is a Python program of two cooperating processes on one host, and of
short-lived operator processes (`cli.py`, or requests to `dashboard.py`). They
share one SQLite database and two kinds of file lock; everything else goes
through the venue's REST interface and market stream.

| Component | State it keeps | Operations | Interacts by |
|---|---|---|---|
| Store (`storage/db.py`) | `state` keys (`killed`, `paused`, `flatten_requested`, `control_generation`, `runtime_was_running`, heartbeats, baselines), `orders`, `fills`, `commands`, `events` | `kill`, `command`, `pending_commands`, `assert_control_unchanged`, `finish_command`, `put_order`, `fill`, `nonce`, transactions | shared by all processes; autocommit per statement unless in a transaction |
| Runtime (`runtime.run`, `process_commands`) | event queue, shutdown flag, error count, timers | start, loop iteration, command batch, close | execution lock, store, venue, background tasks |
| Guardian (`runtime.guardian`) | its own book and broker | look, lock, kill, cancel, reconcile, flatten, protect | execution lock, store, venue |
| Engine (`engine.py`) | last decision, features | one market event | controller, store |
| Live broker and controller (`execution.py`) | `last_account`, `last_exit_ns` | submit, cancel, reconcile, cancel_all, manage_makers, protect, flatten, recover_protection, decide | journal, venue |
| Risk gate (`risk.py`) | equity baselines, entry times (in the store) | `authorize`, `record_entry`, `observe_equity`, `exit_reason`, `size` | called by the controller and the engine |
| Book and feed (`orderbook.py`, `market_data.py`) | levels, sequence, freshness, one guard book per connection | `apply`, `reset`, `stale`, `market_stream` | event queue |
| REST adapter (`exchange/gemini.py`) | rate limiter, last latency, nonce | signed requests, retries, error classes | venue |
| Portfolio (`portfolio.py`) | folded from the fills | `from_fills` | broker |
| Paper broker (`paper.py`) | simulated queue positions | submit, cancel, advance | engine |
| Evidence gate (`safety.py`, `bind_database`) | fingerprints, approval file | create, authorize | start of a process |
| Strategy, features, research (`strategy.py`, `features.py`, `research.py`) | prices of the last 901 s, cells of the model, report and model file | `update`, `labeled_samples`, `fit`, `validate` | engine, evidence gate |
| Reporting, backtest, dashboard views, configuration | | statistics, views, parsing | |

What is hard about them:

* Three processes write the latches; a recovery command waits for the network
  between its first look and its commit.
* A creation may be refused, executed, lost, or arrive after its caller gave up;
  queries fail before or after the venue has acted; the venue fills at any moment.
* Protection must be withdrawn before inventory can be sold, in separate calls.
* Either process may die between any two calls; the other one goes on from what
  is in the store and at the venue.
* The guardian looks before it locks, the runtime reconciles at its start without
  the lock, and the close of the runtime suppresses every failure.
* Remainders below the venue's minimum can neither be protected nor sold.
* The loop prices on a book that is behind the connection: events wait in a queue,
  the loop waits for the exchange, and the connection may be lost meanwhile.
* Simulated orders and cancellations fall due with market events, while commands and
  the kill latch act on them between events.
* Two processes sign with one key, each retries on its own, and the wall clock may be set
  back under the nonces, the loss baselines and the entry times.
* Each process judges the other by the age of a row, and either may end between a look
  and what follows from it.
* Code, configuration and model file are replaced under running processes, and only the
  disk can be hashed.

What makes the parts correct:

* Control: a latch always keeps entries out; no stop is lost to a recovery that
  began before it; commands are answered; risk left behind by a process is latched
  for the next one.
* Execution: the journal never gives up an order that can trade; sales never exceed
  inventory; entries are made flat only; entry risk goes before protection; a failed
  exit stays latched until the venue is flat and its recorded outcome is true; a
  position does not stay bare, or is dust under a kill.
* Feed: a valid book equals the venue's at its sequence number; an order is priced on
  a recent one; what the guard book of a connection has passed, the engine's book
  takes; a loss is latched.
* Simulation: an entry is filled by what the tape gave it after its latency and its
  queue, and a finished order stays finished.
* Requests: a creation is made once at most and what is said of it is true; nonces of a
  key increase.
* Limits: losses beyond a limit are latched and nothing is entered beyond one by the whole
  history; entries keep their distance; an exit is decided at the highest price.
* Ledger: money adds up whatever has been reported yet, and the fold is the venue's when
  everything is.
* Supervision: no entry without a guardian, no risk without somebody who must act on it.
* Evidence: fills, approvals and the live process are of one code, configuration and
  model; a model learns from an unbroken past only.

`PROJECT.json` lists the components with what is modelled of each, and the hazards
line by line with the properties that watch them.

## 2. Modules

| Module | Models |
|---|---|
| `ControlLatch` | what the control plane promises: three latches, and recovery attempts that any stop voids |
| `ControlPlane` | store, runtime loop, guardian and operators, with one entry and one position; refines `ControlLatch` |
| `ControlPlaneProofs` | its inductive invariant and theorems |
| `Execution` | journal, ledger, broker, controller and risk gate of both processes, and the venue |
| `ExecutionProofs` | its inductive invariant and theorems |
| `SumProofs` | facts about sums over finite sets that `ExecutionProofs` rests on |
| `MarketFeed` | the venue's book, a connection and its guard book, the bounded queue, the engine's book and the loop where it reads it |
| `MarketFeedProofs` | its inductive invariants and theorems |
| `PaperBroker` | simulated orders, the controller, commands and the loop in paper mode |
| `Lifecycle` | the two processes, their heartbeats, background tasks, starts, ends and deaths |
| `RestAdapter` | signed requests of several clients, their retries and nonces |
| `Portfolio` | the average-cost ledger, folded from fills that are reported late |
| `EquityLimits` | loss baselines and limits over days and resets |
| `EntryRate` | how often entries are let through, and what follows losses |
| `ExitRules` | the trailing peak and the decision to leave a position |
| `EvidenceGate` | the binding of a paper database, approvals, and live starts by them |
| `TrainingLabels` | the samples a model is fitted to |
| `PaperBrokerProofs`, `PortfolioProofs` | their inductive invariants and theorems |
| `SupportProofs` | those of `Lifecycle`, `RestAdapter` and `EvidenceGate`, and that `MCSupport` is an instance of each part |
| `TradeRulesProofs` | those of `EntryRate`, `EquityLimits`, `ExitRules` and `TrainingLabels` |
| `MCControlPlane`, `MCExecution`, `MCMarketFeed`, `MCPaperBroker`, `MCSupport` | instances for TLC |

The lower eight share no state with each other in their models: each takes what it reads of
the others as a choice. `MCSupport` explores them in one run; `part` says which one a
behaviour is about, and the others stay as they begin.

### ControlPlane

A step is the code between two awaits, or one committed statement where another
process can see the difference. `pc` is where the main coroutine of the runtime is:
the points of `run` (`starting`, `booted`, `top`, `locked`, `checks`, ... ,
`closing`), those of `process_commands` (`commands`, `cmd...`) and those of
`Engine.event` and the end of the loop body (`event`, `evt...`, ... , `killCheck`, ...). `batch`, `current`, `generation` and `outcome` are the locals of
`process_commands`. The store's latches and commands survive `Crash`; everything
else of the runtime is lost and its lock released.

`Store.kill` is three writes in one transaction and one step here (`Kill`); the
operator's kill inside `process_commands` is four statements and four steps
(`BeginStop`, `OperatorKill`, `RequestFlatten`, then the cancellation).
`Store.command` is one transaction and may come at any moment from another process
(`Command`). A network call is one step whose outcome is any that the venue may
give (`Reconciled`, `Cancelled`, `Flattened`), or an exception that leaves part of
it done (`Interrupted`). `protect` and `flatten` may also return and have killed,
because what is held is too small to protect or to sell (`DustKill`). The engine reads
the position before it manages the makers and branches on it afterwards: `evtHeld` and
`evtFlat` are the two branches, `evtEnter` is `Controller.decide`, which reads it again.
The receive task may only run where the main coroutine is
suspended (`AwaitPoints`). Orders are reduced to one `entry`, which is `intent`
while it is journaled and unknown to the venue and `acknowledged` while its
exchange id is known and its state is not, and to whether a `position` is held.
`stopMark`, `bootCommands`, `unclean` and `lateEntries` are history variables.

Paper mode has no second process and another restart rule; this is live and sandbox
mode.

### Execution

`proc[p]` is the volatile state of a process: its `plan` (the tasks it still has to
do, innermost first, which is its call stack), the `stage` of the task at the head,
the orders it has still to do, and what survives a session: the available balance of
`last_account` and whether `exit_retry_seconds` have passed. A step is one network
call with what the code does on its answer. An exception (`Raise`) unwinds the plan
to the handler that the code has: `Controller.flatten` latches and goes to
`recover_protection`, that one records its verdict and lets the original error go
on, `process_commands` and the guardian report it, and the loop kills.

Tasks and code: `cancelEntries`, `cancelAll` (`cancel_all` without and with the
stops), `makers` (`manage_makers`), `reconcile`, `submit`, `protect`, `flatten`,
`recheck`, `exit` and `endFlatten` (the parts of `_flatten` and the end of its try
block), `verdict` (the end of `recover_protection`), `killFlatten` (the end of the
loop body), `decide`, `reset`; `tick`, `decided`, `answer`, `cancelled`, `report` end
a session and name its caller.

The freshness of a book is a choice at every read of it. Prices, times, cash and the
strategy are abstracted: an entry, a sale reason and a stale book are choices. The
pause latch is one of those choices; a flatten request is taken to imply it, which
`LatchesPause` establishes in `ControlPlane`. The sessions of one iteration of the
loop are separate sessions here, so the guardian may come in between where the code
holds the lock for the whole iteration: more behaviours than the code has, not fewer.
A clean close is in `ControlPlane` only. A reconciliation reads the rows that are
active; the rows that became final in the last minute are read again by the code and
do not change any more.

The venue is modelled from how the code uses it: a creation is accepted or refused,
a resting order fills unit by unit, an IOC executes what it can and is over, and a
creation whose caller timed out is on the wire until it arrives or is lost. A status
query fails while the venue does not have the order. A cancellation without an answer
takes effect at once, later or never: entries may be cancelled by the venue at any moment
anyway, the stops for which it may still happen are in `unanswered`.

The gate refuses a sale for what it would sell (`SellAuthorized`), and an exit also for a
stale account, a stale book or its price: `ExitRefused`, which is an exception inside
`flatten` like a failed call and counts as one.

### MarketFeed

The venue's book is a `history` of numbered states, each a change of one level, and a
depth frame is the range of numbers it covers: what levels it carries follows from the
history (`Touched`, `Updated`). The venue of the model repeats, overlaps, skips,
reorders and spoils ranges at will, its book may be empty or crossed, and a frame may be
stamped earlier than its last number was over. Only the first depth frame of a
connection is a snapshot, as the adapter takes it.

`Receive` is `market_stream` in the receive task of `runtime.run`: `Connect`, the
acknowledgement, a depth frame that passes the drift test and the `guard` book, a trade,
or a `Loss` for any exception of the connection. `Deliver` is `put_nowait` and its
handler. The retry delay and the number of retries are left out, so a connection may
come back at once. `shutdown` is looked at before each frame is awaited, so one more
frame may come after it. `Loop` is the loop between its awaits: `Begin` reads the time
once, `TakeEvent` and `TakeLoss` are `Engine.event` up to its first await, `ForgetBook`
is what follows `cancel_all` after a loss, `Enter` and `Exit` price an order after the
awaits. Whether anything is held or due is a choice. `killed` is the only latch;
`Recover` is a reset-kill and a resume together. The guardian's receive task applies
each event as it is yielded: it is a consumer like the engine with a queue that is always
empty, and what holds for `book` after any delay holds for its book.

There is one clock that does not step: the drift test compares the host with the
exchange, and a host that is wrong is outside the model. In paper mode orders are priced
on the event's own time; this is live and sandbox mode.

### PaperBroker

Neither `Controller.decide` nor `Controller.flatten` places an order beside an active
one, so one `order` record is the active order or the last one, with what
`PaperBroker` keeps for it in memory (`pending`, `cancelIn`, `queue`) and what is in the
store. Times are relative, in ticks of the receipt of events, as `PaperBroker.now` is;
`WallLead` is how far the wall clock, by which commands and the kill check place orders,
is ahead of the last event. Prices and cash are choices (what an entry can pay of a trade is
anything up to the volume), and volumes are those after `queue_multiplier` and
`participation_fraction`. The controller rounds what it orders down to the quantity
increment (`Rounded`), and a simulated fill is not rounded: a position may have a part that
no order can sell. `Sellable` says whether it has more than that; what has not is dust, and a
sale that meets it kills instead (`DustLeft`). `pc` has the phases of an iteration:
`commands` (`ProcessCommands`), `receive` (`Idle`, or `Receive`, which is `advance` on
the book before the event), `engine` (the rest of `Engine.event`) and `killCheck`. The
order inside `advance` is kept: a loss cancels everything, then cancellations that are
due, then activations, then the trade. An event that has waited too long in the queue kills
and is handled all the same (`Backlog`). `credit` is a history variable.

`Restart` may come between any two phases: active orders are cancelled, because their
place in the queue is lost, and a restart that finds one, or inventory after a clean
end, kills. What may happen at all is the constant `Troubles`. Trades that are seen again
do nothing; that the set of seen trades forgets after 200,000 is not modelled. A crash
between the statements of one phase is not modelled.

### Lifecycle

`rt` and `gd` are where the two processes are: `booting` is the start of `run` up to its
loop, `held` an iteration under the execution lock, `ending` the `finally`; `waiting` is the
guardian's sleep, `helping` its calls under the lock. Heartbeats are kept by their age,
which stops at one tick beyond `watchdog_timeout_seconds`, so that only "late" and "not yet
late" are told apart. The steps are those of `runtime.py` between two looks of the other
process: `BeginIteration` with `GUARDIAN_HEARTBEAT_STALE`, `FailIteration` with its error
count, `EndLoop` for `BACKGROUND_SERVICE_FAILED`, `Close` with everything it suppresses, and
`Round` with the order that the code has: the heartbeat first, then the end of the process
if its receive task is done, then the help. Each process can die and be started at any
point. Orders, the latches and the commands are one flag each; they are what `Execution` and
`ControlPlane` are about.

### RestAdapter

A client is one `Gemini` object, a call one `request`, an attempt one turn of its loop.
`Sign` draws the nonce (`Store.nonce`, one transaction) after the rate limiter; `Send` and
the answer are steps of their own, so that requests of two processes overtake each other
between them. The venue may carry out a request and answer with an error, or with nothing,
and carry it out after its caller has given up. `Receive` is the mapping of the answers:
a status of 400 to 499 and a result that says error is a rejection, 429 and from 500 on is
"no answer", and what cannot be parsed is unknown for a creation. Delays, rates and bodies
are left out. What is claimed about rejections is about creations only: a cancellation whose
answer was lost and that is sent again may be refused although the first was carried out.

### Portfolio, EquityLimits, EntryRate, ExitRules

`Portfolio` translates `apply` as a fold over records; `cost` is `entry_price * quantity`,
and money is in parts of `1/Scale` so that every average within the bounds is whole.
`Report` is one execution reaching `Store.fill`, late, in any order or again, with a reader
behind it; a fold that meets a sale before its purchase refuses, as the code raises.

`EquityLimits` is `observe_equity` as the first thing `Engine.event` does with a fresh book.
The day of an event is any of `Days`, so the clock may go back over midnight, and equity may
be nothing or less. `BeyondLimit` is the reference: the limits by the whole history of
marks, where the code keeps four numbers.

`EntryRate` is the part of `authorize` that depends on time and on lost trades, with
`record_entry`, which prunes the row, and a clock that may be set to any time. The
configuration allows a `minimum_seconds_between_entries` of more than a day
(`config.py:45`), which the pruned row could not enforce: `SpacingAssumption` excludes it.

`ExitRules` is the part of `Engine.event` that keeps the highest bid in `position_peak`,
and `exit_reason` on prices. Nothing about it is in memory, so every `Decide` is as good as
one after a restart.

### EvidenceGate

Code, fingerprinted configuration and model are versions, and `disk` is what is installed.
A process has the code and configuration it was started with and the model it has loaded;
`code_hash` and the model hash are always those of the disk, as in the code. `StartPaper` is
`bind_database`, `Approve` is `create_evidence`, `StartLive`, `AuthorizeFees` and
`RefreshLive` are the three callers of `authorize_start`. Between the hash of the model file
and `EdgeModel.load` it may be replaced: `swapped` records that, and it is an exception in
both properties. A running process passes a refresh under the approval of another version
only if that approval has its own configuration and the disk is that version; by
`EvidenceIsTrue` what it runs was still approved together. Later, lower fees do not lower
what an approval allows, since `create_evidence` looks at the last `fees` row only.

### TrainingLabels

One event of the tape is one step of `labeled_samples`, with `FeatureEngine.reset` and the
admission of `EdgeModel.fit` in it: `fit` consumes the generator, so both advance together.
A sample is named by its place on the tape. That features are ready needs the warm-up and
may need more, so readiness is a choice after it; a warm-up above 901 s, which the
configuration allows (`config.py:80`), would never be ready since older prices are dropped
(`features.py:54`).

## 3. Runs

| Run | Checks | Instance |
|---|---|---|
| `control_safety` | `TypeOK`, `LatchesPause`, `AtMostOneLateEntry`, `EndsAreRemembered`, `InheritedNeverRecovers`, `ImplementsLatch` | every command but `cancel-all`, 2 of them queued, generation up to 2, 2 errors, 2 starts, 1 crash |
| `control_liveness` | `CommandsAnswered`, `KillEndsEntries` under `FairSpec` | kill, resume, reset-kill; 2 commands, generation up to 2, 1 start |
| `execution_exits` | `NeverOversold`, `VerdictIsTrue`, `StopsAreRetained`, `EntryRiskGoesFirst` | all commands; 3 rows of 3 units with a minimum of 2, 1 failed call |
| `execution_crash` | `DeathLosesNothing` (`JournalSound` and `NeverOversold`), `EntersFlat` | 3 rows of 1 unit, 1 crash of either process, 2 failed calls |
| `execution_held` | `TypeOK`, `HeldEndsSafe` under `FairSpec` | the flatten command; entry, stop, exit and a second stop (4 rows) of 2 units with a minimum of 2, 1 failed call |
| `feed_stream` | `TypeOK`, `BooksAreTrue`, `ConsumerNeverRejects`, `OrdersUseRecentBooks`, `LossIsLatched` under `FairSpec` | 3 prices, opening with both sides, 3 numbers, queue of 1, 1 tick with limits of 0 |
| `paper_orders` | `TypeOK`, `FillsAreEarned`, `OneExposure`, `FinalIsFinal`, `CancellationsEnd`, `FlattenSells` under `FairSpec` | 4 units, a minimum and an increment of 2, latencies of 2 ticks, every trouble |
| `support` | `SupportTypeOK`; `CreationsAreSafe`, `NoncesIncrease`; `LedgerIsTrue`; `LossesStopEntries`; `EntriesKeepTheirDistance`, `LosingStreakIsFinal`; `DecidesAtTheHighest`; `EvidenceIsTrue`; `SamplesAreSound`; `RiskHasAWatcher`, `NoUnwatchedEntry`, `EachIsMissed` under `LifeFairness` | the constants of `MCSupport.cfg`, below |

Why the bounds are enough. Two commands are a stop and a recovery in either order, with or
without a network wait between them; a third adds no new order to a queue that is handled
in id order, since a recovery looks at all newer commands at once. `MaxGeneration` bounds
injected failures and risk kills only: the commands of operators and the handler of a
failure that has happened still advance the generation. Two starts are a death and what
the next life inherits from it. Three journal rows are an entry, its stop and one exit or
second stop; four let an exit that is only partly done be protected again. With a minimum
of two, one unit is dust, which `HeldEndsSafe` is about as well; two units of three may be
behind a stop while the third is still being bought, so that `EntryRiskGoesFirst` has both
to withdraw. Of the commands `execution_held` has the one that sells; the others stop or
recover, which `execution_exits` has in every order. `control_safety` leaves out
`cancel-all`, which the control plane treats as it does `pause`. `HeldEndsSafe` sets aside the end of the rows only
where a protection is due that finds none. One failed call
puts every handler to work, the second puts the recovery handler to work inside the first;
a crash is a failure at any point. Three numbers of the venue's history let a range be
old, next, overlapping or ahead of a gap; three prices let a level move without crossing.
With limits of 0 a frame is as late as they allow when it is current and too old after the
one tick, which may come on the wire, in the queue or during the calls of an iteration; a
queue of one is full with every event. The theorems state the safety properties for all
limits, queues and histories. Latencies of two ticks with steps of up to two let an event
come before, at and after the time an order or a cancellation is due; four units with an
increment of two let a fill leave a part that can be sold, a part that cannot, or both, and a
depth of 1 or 2 leaves an exit partial in each of these ways. Ages are counted up to the
latency and the lag of a trade (`Oldest`): beyond, nothing asks for them.

In `support`: two clients of one key, two calls and one retry are a creation beside another
call, or the same creation given up and repeated, with a clock that is set back. Four
executions and an inventory of two are a position built in two steps and sold in two, or two
trades, reported in every order. Four marks over two days are a first mark, a loss, a change
of day and a mark after it. Windows of 2 and 4 ticks on a clock of 7 let entries leave the
short window, the long one, and come back into both when the clock is set back. Three
positions let the row of an old peak meet the next entry. Five events over 8 moments hold a
warm-up, a loss between a sample and its label, and a second sample that would overlap. Two
changes of the installation replace code and model, or replace and restore. A timeout of
one tick has a heartbeat in time, at the limit and late.

Deadlock is not checked (`CHECK_DEADLOCK FALSE`): a runtime that has stopped for the
last time within the bound on starts leaves nothing to do, a session of `Execution`
that needs a journal row beyond the bound keeps the lock, the loop of `MarketFeed`
ends on `shutdown`, and the tape, the marks and the executions of `support` end with
their bounds. It is checked for `PaperBroker`.

Fairness. In `ControlPlane` a ready coroutine runs (weak fairness of the runtime's steps:
every REST call has a timeout), the guardian finishes what it holds the lock for, and the
runtime, which tries the lock every 0.1 s while the guardian pauses 1 s between its
rounds, finds it free again and again (strong fairness of `AcquireLock`). In `Execution`
every call ends, and the periodic reconciliation is due again and again (strong fairness,
for the same reason). In `MarketFeed` only the loop is fair: its calls have timeouts. In
`PaperBroker` the loop is fair, depth frames with later times of receipt come again and
again (`market_stream` yields an event or a disconnect within three seconds), and a
decision falls due again and again while they do (strong fairness of both, since commands
and losses may come in between). In `Lifecycle` the loop and the guardian's rounds go on
(every call has a timeout, every sleep an end), time passes, and the runtime finds the
lock free again and again (strong fairness of `BeginIteration`, as in `ControlPlane`);
that a process is started, and that the help succeeds, is not assumed. Nothing is assumed
of the operators, of the venue's fills, of the market or of the guardian starting to help.
`CommandsAnswered` and `KillEndsEntries` have the end of the process as a way out, and
`HeldEndsSafe` the order that only an operator can resolve, and dust under the kill: these
are what the documentation promises. `FlattenSells` asks for as much as orders can sell, lets
a kill take over and assumes that commands and restarts cease, for a resume, a cancellation
or a death of the process may always come in between.

Four runs state what a document or a comment says and show that the code does
otherwise; `PROJECT.json` quotes them under `findings`:

* `control_older`: a reset-kill that waits in the queue erases a risk kill that is newer
  than itself, because its generation is captured when it is begun.
* `execution_cancelall`: `cancel-all` is answered done with an entry live that was
  journaled as unknown and whose exchange id is known: it is looked up, not cancelled.
* `execution_startup`: the startup reconciliation is outside the execution lock. Its old
  answer reopens a stop in the journal that the guardian has cancelled meanwhile, and
  the guardian records `protected` with no stop at the venue. With no restart the verdict
  is true (`execution_exits`), but for a stop whose cancellation got no answer and takes
  effect after its status was last read, which nobody can see (`StandingStops`).
* `paper_kill`: under the kill latch every iteration calls `cancel_all`, and that requests
  the cancellation of the simulated exit that the same latch has placed. With
  `cancel_latency_ms` no longer than `simulated_latency_ms` the cancellation is due first,
  so a position that an order could sell is never reduced. With a cancellation latency of 3 ticks, a submission
  latency of 1 and steps of 1 tick it is.

An entry that waits in the rate limiter is sent even when a stop is committed meanwhile
(`exchange/gemini.py:62`): the latches are read at the authorization only.
`AtMostOneLateEntry` states what does hold, one such entry per stop. When `cancel_all`
raises while a disconnect is handled, the reset of the book behind it is skipped
(`engine.py:32`), and until the book is stale a recovery succeeds on the book of the lost
connection; `OrdersUseRecentBooks` holds even so.

Dust ends under a kill that no command lifts: the sale that meets it
kills (`DUST_REQUIRES_OPERATOR`, `execution.py:290`), and `reset-kill` refuses while anything
is held (`runtime.py:55`). `README.md:112` says that dust requires the operator. In paper
mode, where fills are not rounded, a partial fill is enough for it, and a simulated position
has no operator who could sell it, so the database trades no more: `FlattenSells` ends there.

A reset-kill and a resume in the same batch let one entry through in the iteration that has
found the guardian late, because the look at it comes before the commands
(`runtime.py:184`); the exception in `NoUnwatchedEntry` is exactly this. After
`maximum_consecutive_losses` lost trades a database never trades again, whatever is reset:
the row of losses could only be ended by an entry (`LosingStreakIsFinal`). The folds of the
walk-forward test are not covered by the `DATASET_TOO_SHORT` check, but an empty fold has no
expectancy and fails the validation.

Every property of a passing run has a mutant of the code that breaks it; the mutated
definitions stand before the originals in the modules and are named for what is wrong
with them.

## 4. Proofs

Eight modules hold the proofs. No theorem assumes more than the named assumptions of the
modules on their constants, but for the two about `VerdictIsTrue`, which is false without a
further condition: one assumes `StartsApart`, the other that no process dies.

`ControlPlaneProofs` proves for all values of the constants, from
`ActionsAssumption` and `BoundsAssumption` only:

* `TypeCorrect`: `Spec => []TypeOK`.
* `LatchesAlwaysPause`: `Spec => []LatchesPause`.
* `ControlPlaneImplementsLatch`: `Spec => ImplementsLatch`, the refinement of
  `ControlLatch` under the mapping `flattening <- flattenRequested`,
  `attempt <- Attempt`.
* `StopLetsOneEntryThrough`: `Spec => []AtMostOneLateEntry`.
* `EndsStayRemembered`: `Spec => EndsAreRemembered`.
* `InheritedStayRefused`: `Spec => InheritedNeverRecovers`.

The type invariant is not inductive: `FinishCommand` writes the outcome at the current
id, so the invariant must know that `current` is a command and `outcome` a status at
the points where they are used, and the pause of `RequestFlatten` was written steps
before. `ControlInv` adds these to `TypeOK` and `LatchesPause`: what the locals of
`process_commands` hold at each program point. `Invariance` proves it action by action.
For the refinement each action is shown to be a step of `ControlLatch` or to leave the
mapped latches alone; the key fact is that every step that commits a stop advances the
generation or appends a newer stop command, so `Attempt` becomes `none` in the same
step. `AtMostOneLateEntry` needs a second invariant: while the strategy is paused at
most one of "a late entry has been sent" and "an entry is about to be sent" is true,
because nothing is authorized while paused.

The two theorems about restarts have an invariant each. `EndInv`: the running mark is set
wherever the loop is; without the mark there is no risk unless the kill is latched; an order
whose state is open, and an end that was not clean, are under the kill or under the mark of
a process that the next start will find. `InheritInv`: no book becomes valid before the
commands that were there at the start are answered, and the first batch holds all of them;
a recovery is therefore refused for want of a book as long as it handles one of those.

`ExecutionProofs` proves for every bound on orders, sizes, failures and crashes, from
`SizeAssumption` only:

* `TypesHold`: `Spec => []TypeOK`.
* `NothingIsLost`: `Spec => []DeathLosesNothing`.
* `NothingIsOversold`: `Spec => []NeverOversold`.
* `LatchesAreRetained`: `Spec => StopsAreRetained`.
* `EntriesAreFlat`: `Spec => EntersFlat`.
* `EntriesGoFirst`: `Spec => EntryRiskGoesFirst`.
* `VerdictsAreTrue`: `Spec /\ []StartsApart => VerdictIsTrue`.
* `VerdictsWithoutDeaths`: `MaxCrashes = 0 /\ Spec => VerdictIsTrue`.

`NeverOversold` is not inductive: it bounds what is live at the venue by what the venue
holds, but the gate decides by what the ledger holds and what the journal has not finished,
and both are behind. `ExecutionInv` therefore has four parts. `JournalInv`: each row is true
of its order, the ledger is the sum of what is booked, the inventory the sum of what is
executed, and what the unfinished sales may still book (`Promised`) is within the ledger.
`NeverOversold` follows, for each fill that is not booked yet moves both sums alike.
`SessionInv`: which sequences of tasks a session can have before it, who holds the lock, and
that a verdict is only due under both latches. With what a flat ledger says of the venue, as
for `EntersFlat`, `StopsAreRetained` follows from it. `SubmitOf`: the order of a creation in
progress has not been sent or is known to the venue. `ReplyInv`: an answer that a start asked
for and has not applied was true when it was given and is still applicable, although the
venue has gone on. For `EntersFlat`, a ledger of zero without active orders makes all three
sums zero, so the venue holds nothing either.

`EntriesGoFirst` needs to know what a session has already done at each of its tasks, and
what the entries of the journal can still be. `RiskInv` adds that to `ExecutionInv`. An entry
is created in a flat account without active orders, so until a fill of it is booked it is
alone, and a stop that has not executed only exists once one was booked; from then on the
entry has its exchange id and an open state, so the open orders that the controller cancels
first include it (a row that is unknown, without an id, cannot have a fill booked).
`cancel_all` is only ever preceded in a plan by the cancellation of the makers and a
reconciliation, and only reached if both ended. While the makers are being cancelled, the entries that may
still execute beside a stop are among those the cancellation has yet to reach (`Facing`); once
it has ended there are none (`EntriesGone`). `UnansweredInv` says the same of a stop that
may be ended by a late cancellation: if it can still execute, no entry can. No step of the other process makes one, for the
guardian does not decide and the lock is held. TLC checked `RiskInv` on small
instances before it was proved.

`VerdictIsTrue` is not a theorem of `Spec` alone: run `execution_startup` has a behaviour in
which the reconciliation of a start, outside the execution lock, writes an old answer over what
the guardian's recovery has read. `StartsApart` excludes just that: while the runtime starts
with orders in its journal, nobody has the lock. Then the verdict is true after any number of
deaths. `VerdictInv` adds to `RiskInv` what a recovery knows (`Checked`): a stop that the
journal takes for open is live or executed in full. This is so of each order whose status has
been read, of all of them from the end of the reconciliation to the verdict, and a stop that is
placed in between is followed by another reconciliation. A stop that fills does not disturb it,
and only a session withdraws one, but for those that are `unanswered`. At the verdict the fills that are not booked lower the
venue's inventory and what its stops cover alike (`VerdictHolds`). Without deaths there is only
one start, before the first order, and `StartsApart` follows.

`SumProofs` has what the proofs need of `MapThenSumSet`: that it is the sum of its
definition, how it changes when one summand changes, that larger summands make a larger sum.
The library defines it by a recursive function over finite sets, so these are inductions over
finite sets. They are done without the library's rules, which take an operator as a
parameter: the strict subsets of a finite set are well-founded, so a claim that fails has a
smallest set for which it fails, and it holds of that set without one of its elements. The
same module has that a finite set of numbers has a largest and a smallest one, and that `Max`
and `Min` of the library choose them.

`MarketFeedProofs` proves for all sets of prices, limits, queue sizes and lengths of the
history, from `BookAssumption`, `LimitsAssumption` and `BoundsAssumption`:

* `FeedTypeCorrect`: `Spec => []TypeOK`.
* `ValidBooksAreTrue`: `Spec => []BooksAreTrue`.
* `PricesAreRecent`: `Spec => OrdersUseRecentBooks`.
* `ConsumerAgreesWithGuard`: `Spec => []ConsumerNeverRejects`.

`FeedInv` strengthens `TypeOK` and `BooksAreTrue` by `QueueReached`: the frames in the
queue cover numbers the venue has reached. Its heart is `DeltaIsTrue`: a frame that covers
the next number of a true book leaves every level as it is in the venue's book at the
frame's last number, since a level it does not carry has not changed in between. `AgeInv`
adds that each event in the queue and the engine's book were current at most `Drift`
before their receipt; it is kept because the end of a number's life (`CurrentUntil`) only
grows. `PipelineInv` says how the two books belong together: there is a sequence of books
from the engine's to one that equals the guard's, as far as an open connection has a
valid one, such that each event in the queue takes one to the next and is not refused.

`PaperBrokerProofs` proves for every latency, quantity and bound, from `QuantityAssumption`,
`LatencyAssumption` and `BoundsAssumption`:

* `PaperTyped`: `Spec => []TypeOK`.
* `FillsStayEarned`: `Spec => []FillsAreEarned`.
* `ExposureStaysSingle`: `Spec => []OneExposure`.
* `FinalStaysFinal`: `Spec => FinalIsFinal`.

Neither of the invariants in the middle is inductive. What an entry has filled is bounded by
what was traded beyond its queue only because an open entry still has what is left of that
queue before it, or has worked it off (`QueueBefore`), and an active exit does not sell more
than is held because no entry is active beside it, in particular not between the kill and the
cancellation that follows it (`Phase`, `Exposure`). `OrderInv` has these parts beside `Earned`;
`PaperInv` adds what the latches and the commands can be.

`PortfolioProofs` (`LedgerStaysTrue`, `BookTyped`): the ledger is a recursive function over
the places of the fills in time. What is claimed of its value is shown place by place, with a
smallest place for which it fails: the cost is positive where something is held and zero
elsewhere (`CostIsShared`: a sale takes its share of the cost by average and leaves the rest),
cash and cost and fees agree with the result, and the trades add up to it. A complete
ledger has booked each fill of the venue, and so holds what the venue holds.

`SupportProofs` has the theorems of three components and of their composition.

* `Lifecycle` (`RiskIsWatched`, `NoEntryUnwatched`, `LifeTyped`): `RiskHasAWatcher` is not
  inductive, for a start reads the mark after it may have been cleared; `LifeInv` adds that a
  runtime in its loop has set the mark, that an entry was preceded by a heartbeat, and that an
  iteration that found the guardian late is under a kill.
* `RestAdapter` (`CreationsStaySafe`, `NoncesAreHigher`): `RestInv` says which requests can
  exist for a call at each phase (a creation has no second attempt), that a reply tells what
  its request did, and that a call that has ended is nobody's any more. For the nonces
  `highest` never exceeds the row of the store, so the next one is above both.
* `EvidenceGate` (`EvidenceStaysTrue`, `GateTyped`): the label under a paper process is the one
  its start wrote, since `bind_database` runs under the instance lock; a live process carries
  an approval of what it was started with from the first check over the fees to the loaded
  model.
* `MCSupport` (`ComponentsRun`, `SupportTyped`): a behaviour of the instance is one of each of
  its eight parts, so what is proved of a part holds of it.

`TradeRulesProofs` has five theorems. `StreakIsFinal`: a trade is only opened below the limit
of losses, so none is open above it that could end the row. `DistanceIsKept`: `RateInv` says
that the row which `record_entry` prunes still has each entry of the last day, that its stamps
rise, and that no window holds more than its limit; a new entry is admitted by the row, and
what was pruned is too old to count. `LossesStayLatched`: `LimitInv` says that the
baselines in the store, with the running peak, are those of the whole history of marks since
they were set, so a loss beyond a limit is seen at the mark that makes it. `NoGainIsForgotten`:
the row of `position_peak`, when it is of this position, is the highest price since the entry,
and before the first decision that is the price paid. `SamplesStaySound`: the tape is
chronological, the features are younger than every loss, and what is pending was warm when it
was sampled and has seen no loss since; `lastEnd` is no earlier than any admitted label.

Model-checked only: the liveness properties (`CommandsAnswered`, `KillEndsEntries`,
`HeldEndsSafe`, `LossIsLatched`, `CancellationsEnd`, `FlattenSells`, `EachIsMissed`; TLAPS has
no rules for fairness and ENABLED here).

## 5. Plan

Every module of the plan stands. What would come next:

1. A step of the wall clock in `MarketFeed`, where it makes an old book look fresh until
   the drift check refuses the next frame.
2. The replay of `market_data.py` and `backtest.py` over a closing window, with the partition
   of a tape into research and test.

## 6. Not modelled

* Statistics over floating point numbers: the model's cells and bounds, features, sizes,
  reports, stresses and the bootstrap. A decision of the strategy is a choice wherever one
  is made. They are sequential and have tests against fixed inputs.
* Configuration. Its values are constants. A configuration for paper or live trading must name
  production market data and a mode that matches the database, so that the `source` of fills
  cannot change under a label; `EvidenceGate` relies on that.
* Dashboard, monitoring, alerts and `status`: read-only views. What they write goes through
  `Store.command`, which `ControlPlane` has.
* Parsing of answers, rate limits and delays of the REST adapter; that a call ends follows
  from its finite attempts and timeouts and is not checked.
* Recording of event files and their hashes.
* A crash between two statements of one phase of the paper loop.

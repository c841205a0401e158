# AlgoTrader: TLA+ models, model checking and proofs

AlgoTrader is an unattended trading bot: strategies propose trades, an approval step and an
execution queue turn them into broker orders, a scheduler thread drives everything, and a
reconciliation sweep compares the bot's tables with what the broker says. It runs as one
container (two for a moment during a deploy) with request handlers, Telegram commands, a
scheduler worker, job threads and a websocket thread, all over one SQL database in which every
repository call is a transaction of its own. What is hard to test is what happens *between*
those calls; that is what is modelled here.

## 1. Inventory

| part | state | operations | talks to | what makes it correct |
|---|---|---|---|---|
| Proposals `app/approvals` | `approvals` row: status, execution id, expiry | create, list/get (expire on read), approve, reject, mark_executed | coordinator, trader, routes, Telegram | stale whole-row writes never mix proposals; executed rows are backed |
| Execution queue `app/execution/coordinator.py` | `execution_queue` row: status and payload; `_ENTRY_LOCK` per process | enqueue, process item (adopt, claim, gates, submit, record, mark, finish, fail), process ready queue | proposals, broker, trader, automation | one open item per symbol, no second live order, no lost item |
| Trader `app/execution/trader.py` | `executions` row | execute_proposal | eToro client, proposals | a record before the call, an update after it |
| Storage `app/storage` | tables, two unique indexes, conditional claim | create / update / claim | all | the indexes and the claim are the only atomic decisions |
| Automation controls `app/automation/service.py` | paused, kill switch, breaker reason | pause, resume, kill switch, trip, emergency stop | coordinator, reconciliation | nothing is sent while halted; the stop leaves nothing behind |
| Scheduler worker `app/automation/scheduler_worker.py` | thread generation, heartbeat, stop event, per-job last run and abandoned thread | start, stop, ensure_alive, tick, job timeout | every job | no overlapping runs, no spurious restart, bounded delay |
| Reconciliation `app/automation/reconciliation.py`, `app/broker/alpaca_trade_stream.py` | fingerprint cache, failure count, sweep lock | sweep, ingest_order_update, flatten, record failure | Alpaca, executions, automation | booked results are real, rows converge, bare positions are closed |
| Unattended trading `app/automation/unattended.py`, `auto_recover.py` | probe time and resumes of the day in `runtime_state` | approve-enqueue-execute, process ready queue, try_auto_recover | proposals, coordinator, reconciliation, controls | paper-only entries leave room; a breaker is lifted a bounded number of times |
| Workflow `app/workflow` | bucket times, a lock per bucket, the tick's budget | run_scheduled_tasks, run_scan_task, auto_propose_candidates, paper-only pass | scheduler, screener, unattended | a tick ends in its cap, every due bucket is scanned, rules 3 to 6 of the paper-only entries |
| eToro live mirror and protection `app/broker/etoro_live_*` | JSON rows: state, stops, cards, halt flag, safety marker; a lock per process | mirror, reconcile, backup stop, exit copy, scorecard | eToro live, coordinator, reconciliation | caps hold across timeouts; every position keeps a stop; only strategy exits are copied |
| eToro demo `app/broker/etoro_demo_v2.py`, `comparison.py`, `app/automation/etoro_reconciliation.py` | idempotency rows | reserve, submit, recover, complete, close all, reconcile | eToro demo, controls | at most one order per key; an unresolved request trips the breaker once |
| Risk rules `app/risk` | none | guardrails, sizing, drawdown governor | coordinator, proposals | counts of positions, trades, groups and heat |
| Telegram bot `app/notifications/telegram_bot.py` | last update id; scan lock, generation, future | poll, handle, scan, cancel, recover | every service | no command is lost or run twice; the scan slot comes free |
| eToro rate limit, broker router, instrument resolver | call times, tables | wait_for_slot, look-ups | broker clients | a refusal at any call |
| Paper trading, learning, experiments, ledger, performance | result rows, job rows | passes, jobs | storage | mostly append-only |
| Strategies, indicators, backtests, screener, dashboards, market data | none shared | computations and I/O | – | outside the reach of small instances |

What is hard: threads and two processes interleaving between any two repository calls; copies
read before and written after another writer; crashes and lost broker answers between
submission and record; lock timeouts that race a slow worker; timeouts that abandon a thread
still trading; a cache that decides what is not written; decisions on broker snapshots that are
old by the time they are used. `PROJECT.json` lists these hazards at their lines.

## 2. Modules

| module | models | used by |
|---|---|---|
| `ExecutionPipeline` | proposals, queue, executions, trader, broker, breaker flag | `MCExecutionPipeline`, `ExecutionPipelineProofs` |
| `ExecutionPipelineProofs` | the theorems about it | TLAPS |
| `SchedulerWorker`, `SchedulerWorkerProofs` | the supervised cadence loop | `MCSchedulerWorker`, TLAPS |
| `Reconciliation`, `ReconciliationProofs` | sweep, trade stream, cache, flatten, breaker and emergency stop | `MCReconciliation`, TLAPS |
| `EtoroLive`, `EtoroLiveProofs` | the real-money copy: mirror, reconcile, guard, backup stop, exit copy, cards | `MCEtoroLive`, TLAPS |
| `Cadence`, `CadenceProofs` | scheduled ticks, budget, buckets and locks | `MCCadence`, TLAPS |
| `AtMostOnce` | what an idempotent submission promises (abstract) | `DemoOrders` |
| `DemoOrders` | the demo client's idempotent submission; it implements `AtMostOnce` | `DemoOps` |
| `DemoOps`, `DemoOpsProofs` | `DemoOrders` under the mirror, both reconciliations, controls, emergency stop and auto-recovery | `MCDemoOps`, TLAPS |
| `AutoPropose`, `AutoProposeProofs` | proposal passes with paper-only riders, risk gate, queue and fills | `MCAutoPropose`, TLAPS |
| `TelegramBot`, `TelegramBotProofs` | polling loop, scan slot and worker | `MCTelegramBot`, TLAPS |

### ExecutionPipeline

One process per thread (`loc[t]`: program counter and locals). Every repository call is a step,
so a handler reads a row, decides on its copy and writes the *whole* row back, as the code does:
`GetProposal`/`ExpireIfNeeded` are `get_proposal`, a subroutine that returns to step `k`;
`Approve`, `Reject`, `MarkExecuted` write the copy in `snap`. `CheckOpen`/`Insert` are
`enqueue_approved_proposal`, with the partial unique index as `IndexAllows`. `RequestProcess` to
`FinishItem` are `process_queue_item` under `_ENTRY_LOCK`; `BrokerFailed`/`BlockFailedItem` its
`except` branch, entered by `Raise` when `try` is set. `Trade` to `UpdateExecution` are
`TraderService.execute_proposal`, reached from the queue (`Route = "etoro"`) or from
`POST /execute`. `Events` switches on faults: `crash` (a process dies anywhere), `error` (any
call raises), `lost` (the broker accepts, the answer is lost), `slow` (the lock timeout passes
while the worker is alive), `halt`, `expiry`.

Abstractions: the verdicts of the quote, drift, account, cap, risk and bracket gates are one
nondeterministic choice; an order id is the item (Alpaca, one order per `client_order_id`) or
the execution (legacy eToro, no key); payloads keep only the execution id; the drawdown
governor's resizing is left out. `PassGates` reads the blockers where the code does and the
order follows in a later step, so the kill switch can go on in between.

### SchedulerWorker

`w[g]` is the worker thread of generation `g`; `job[j]` holds `last_run_at` and the abandoned
thread of each job; `hb` is the heartbeat. `Spawn`, `Start`, `Stop`, `EnsureAlive` are the
lifecycle; `NextTick`, `CheckJob`, `JobEnds`, `JobKillsWorker`, `JoinTimesOut`, `EndTick`,
`Wake` the loop; `OverrunEnds` the end of an abandoned run. Time (`Pass`) moves only while
every worker waits: the loop's own statements take no time.

### Reconciliation

`bro` is the broker's truth: a bracket entry, its legs and a standalone sell. The sweep
(`sw`) evicts a slice of the cache and reads the orders (`BeginAttempt`), the positions, the
executions; per order it writes the execution row (`SweepExecution`), then the fingerprint
(`MarkExecution`), then the order rows; per position it decides `SafePosition`,
`UnownedPosition` or `FlattenUnprotected`; `FinishSweep` resets or counts failures and may trip
the breaker, followed by `CancelAllOrders` and `CloseAllPositions`. The stream (`st`) runs
`ingest_order_update` step by step beside it. `Updated` is `_update_execution`: it says where
the realized result comes from (a leg, a standalone exit, nowhere), not its amount.

Abstractions: each order has its own symbol; an order's row stands for its legs' rows; partial
fills, crypto's standalone protective orders and the real-trading settings (in which the flatten
is off and the issue trips the breaker) are left out.

### EtoroLive

The rows of `runtime_state` are loaded and saved whole under a lock that is private to a process:
`p[c]` is the section that holds it. `MirrorBlocked`/`Mirror`, `WriteAhead`, `remember_stop`,
`PostOrder`, then `Undo`/`forget_stop`, `Halt` or `Confirm`/`record_entry` are
`EtoroLiveMirrorService.mirror`, which `CopyRaises` ends where a read or write of the database raises
(the exception of `record_entry` is caught, to the same effect: an order without a card, `astray`); `Reconcile`, `CloseUnprotected`, `ReconcileSave` are `reconcile`;
`g[c]` is the guard's place in its tick (`CheckBackupStops`/`BackupStop`/`BackupSave`,
`CopyPaperExits`/`CopyExit`/`ExitSave`, `UpdateScorecard`/`ScorecardSave`). The eToro account, the
paper account and the price (below the stop or not) are external. Time counts half days, the unit of
the code's 24-hour windows.

Abstractions: the risk budget, funds and leverage verdicts are the input `gate`; the SPY reserve,
the test order and the overnight alert are left out. A paper position ends by a strategy's exit or by
a safety flatten; the code tells them apart by the marker alone.

### Cadence

`t` is the time since the tick started. `StartTick`, `PausedTick`, `Maintain`, `NextBucket`,
`EndTick` are `run_scheduled_tasks`; `PreWork` to `FreeLock` one bucket through
`_execute_guarded` and `run_scan_task`, with the lock read (`TakeLock`) and written (`WriteLock`)
in two steps. `ApiTake`..`ApiFree` are a requested run of a bucket, which knows no budget. A deploy kills
both and leaves their locks. The two releases are single steps.

### AtMostOnce, DemoOrders, DemoOps

`AtMostOnce` says that a key is given at most one order, of the payload it was first asked for, and
that whoever is told "accepted" is told of that order. `DemoOrders` is `_submit_idempotent` with a
wire on which requests arrive late or never; `Promise` is the refinement (`INSTANCE AtMostOnce WITH
orders <- placed, answered <- told`). `DemoOps` puts it under automation: `Mirror`/`OpenOrder`/
`Mirrored` and `MirrorBlocked` are the comparison mirror, `Reconcile` and `SweepBegin`..`SweepEnd` the
two reconciliations, run by the scheduler (`Tick`) or by a request that looks at no blocker
(`RequestRun`), `Finds` what the eToro one trips on, `Trips`, `EmergencyStop`, `CloseNext`, `Closed` the breaker, `try_auto_recover`,
`Probe`, `Recovered` the recovery. The control rows are written one at a time (`todo`, `Write`), so
two threads' operations interleave between rows.

Abstractions: `status()` reads its rows in one step; a probe's interval may be over at any time;
requests' reconciliations may overlap the scheduler's (the eToro route takes no lock; the maintenance
bucket's lock and the Alpaca sweep's only leave overlaps out); an order at eToro is a position until its
close key has an order (eToro's own stops are left out); `cancel_all_orders` is left out, since a
market order waits nowhere but on the wire.

### AutoPropose

`entry[i]` is a proposal with its queue item, its execution row and where its order really is (the
row may say FAILED of an order that works); `newer[i]` are the later execution rows of its symbol, which
is all that "each symbol's newest row" depends on. `StartPass`, `Consider`, `ReadHeld`, `ReadContext`,
`ReadRows`, `StandAside`/`Admit`, `CreateProposal`, `AutoApprove`, `Enqueue`, `ProcessItem`, `Withdraw`
are a pass, one database or broker call at a time. `gate` is the entry that `process_queue_item` has
under `_ENTRY_LOCK`: `Check` (claim, status, eToro account, day's trades), `Risk`, then `Submit` or
`SubmitFails`, for the pass and for `QueuePass` alike, so that everything else may come in between.
`HumanTrades`, `HumanApproves`, `HumanQueues`, `Ends`, `Fills`, `Exits`, `Dies`, `Synced`, `EtoroCloses`,
`Adopts`, `Midnight`, `Restart` go on beside it.

What may fail, `MaxFaults` times: an unreadable record (`ReadHeld`); a line of the log after the
proposal's row is written (`LoseProposal`); approval, enqueueing or processing, before or after what
they write; the submission, whose order may be live all the same (`SubmitFails`, a FAILED row in
either case); the withdrawal; the process (`Restart`). `astray` is history: a paper-only entry that one
of these, or a midnight before it filled, has taken out of the rules. It is set where the code loses hold of the
entry and nowhere else, so every other failure must leave the rules intact; section 5 tells what becomes
of the astray ones.

Abstractions: the strategy, price, spread and sizing rules are inputs; an order that died counts as
working until a reconciliation finds it. An item whose submission failed is not queued again, the
simulated fallback and a crash between the row and `mark_executed` are `ExecutionPipeline`'s, and an
item left in processing by an exception is taken again like a queued one. `Adopts` is the mirror's
reconcile taking up a position it did not make; it only matters while the symbol's entry is under the
lock, before that it refuses the entry. `"stream"` in `Events` would let the trade stream update rows in the middle of a pass.

### TelegramBot

`bot` is the loop (poll, take an update, handle it), `slot` the scan lock, generation and future,
`scan[u]` the scan an update started, `pool` the executor in use. `TakeUpdate` stores the id before
`HandleText`; `AcquireSlot`, `Submit`, `Wait`, `StopScan`, `Recover`, `ClearActiveScan` are the
commands; `StartScan`, `EndScan`, `SendResult`, `CheckGeneration`, `ClearSlot`, `Unlock` the worker,
whose done callbacks run on its own thread. A call of the database, of Telegram or of a scan fails at
most `MaxErrors` times; `_send_result`'s one send may be among them.

## 3. Runs

All twelve runs must pass.

| run | what it shows |
|---|---|
| `PipelineFaults` | with crashes, exceptions, lost answers and a slow worker in two processes, `OrderRecordedOnce` and `ExecutedHasOwnExecution` hold, and the state is well typed |
| `PipelineQueue` | two proposals, one symbol, two processes: `OneOpenItemPerSymbol`, `ReferencesAgree`, `ExecutedItemHasOrder` |
| `PipelineEtoro` | `OneLiveOrderPerProposal` on the eToro route in one process, with the simulated fallback, crashes and a slow worker: adoption of the newest execution, under the lock, is the only guard there |
| `PipelineLive` | one process: a done item is not open and not sent again; queued items are picked up; claimed items end executed or blocked |
| `SchedulerTimed` | `NoOverlap`, `BoundedWorkerNotHung`, `NoStarvation` with jobs that end, raise, overrun or kill the worker |
| `ReconcileLive` | `BookedIsReal`, `RowsConverge`, `BareIsHandled` |
| `LiveCopy` | the real-money copy with lost answers, rejections, refusals, wrong reads, safety flattens, exceptions and crashes: `StopKept`, `DailyCapHolds`, `OnePerSymbol`, `CopiedExitIsStrategy`, `CardFollowsPosition` |
| `LiveExits` | `ExitIsCopied`, `LowIsClosed`, `BareIsClosed` under one failing close, rate limit, emergency stop or restart |
| `Cadence` | `BucketsFit`, `AdmittedIsScanned` and, fairly scheduled, `DueIsScanned`, beside API runs, deploys and stale locks |
| `DemoOps` | `SubmitsAtMostOnce` (the refinement), `ResumesBounded`, `TripsOnce` (for the scheduler's own reconciliation), `BreakerHeals`, beside a reconciliation that a request asks for |
| `AutoPropose` | the paper-only rules 3 to 6, `OnlyAvoidsEtoro`, `OnlyLeavesDay`, `OnlyLeavesPlaces`, `OnlyNeverWaits`, whatever call fails or answer is lost, but for entries that have gone astray |
| `TelegramBot` | `TakenOnce`, `RefusedIsBusy`, `CommandsAreAnswered`: every message is taken, every background scan comes to its answer, and the slot comes free |

Every property of a run has a mutant: a definition of the model changed as a plausible bug would
change the code, under which the run fails. `TypeOK` is checked where a proof rests on it
(`PipelineFaults`, `Cadence`); in the other modules it documents the types.

**Bounds.** *Pipeline:* two threads are enough for every race of two handlers; two processes put
them under different locks. `PipelineEtoro` and `PipelineLive` put both in one process, since
what they check needs the shared lock (section 5). One proposal with two items is what re-enqueueing needs, two proposals
with two items and one symbol what competition for the queue needs. `ExecIds` bounds the records of
a behaviour; a handler that would need one more waits, so longer histories are cut, which is why the
record properties are also proved. The self-simulated route is covered by the proofs only.
*SchedulerTimed:* two jobs use two units each of a staleness limit of three, so one tick outlasts the
limit, and 14 units see several abandoned runs and one replacement. *ReconcileLive:* one order goes
through its whole life, with two faults or stream updates, a write budget of one for two cached rows
and two slices, so that the budget and the rolling refresh both matter. *LiveCopy:* two orders in one
symbol over two days (a cap of one a day, a night between two openings) and one failure,
so an order of unknown fate, a late fill, a card given up after a day and the next day's entry meet. *LiveExits:* one order, any
one fault; price and missing stop come and go freely. *Cadence:* two buckets, a budget that holds
one bucket and a part of the second, steps that take every length up to their bounds. *DemoOps:* one
entry with its close, a scheduler and a request thread, one operator command, requested reconciliation, restart or midnight;
`Traders` lets the request thread mirror and the scheduler reconcile, so each key is still contended
through mirror, emergency stop and recovery. *AutoPropose:* two proposals at a
time in two symbols, each its own correlation group, one thread, one fault; ids are given back, so a
behaviour goes on over any number of days and proposals (2.8 million states, depth 51). Room, heat and
the group's cap of two with one place to leave bind at the second entry. `MaxTrades = 3` leaves the
day's trades unbinding, but only then can two paper-only entries be unfilled on one day, which rule 5
needs; the trades half of rule 4 binds with `MaxTrades = 2`, and is proved for any values. `MaxOnly`
leaves the binding to the other limits; it is proved too. *TelegramBot:* three
messages of any kinds, batches of two, one restart, one failing call, three executors, so a
recovered scan can meet its successor's successor.

**Fairness.** `PipelineLive`: weak fairness of each handler (a started handler goes on: no
crash, no exception, and calls have timeouts) and strong fairness of picking up a queued item
while automation is not halted (`process_ready_queue` lists queued items on every scheduler tick
and waits for `_ENTRY_LOCK`, which is often free and often taken; during a halt no pass lists the
queue, and nothing makes a halt end, so the property lets an item wait as long as the halt lasts). `ReconcileLive`: weak fairness of the sweep, which the
scheduler runs again and again, and of the stream handler; faults and stream updates are bounded,
the broker has no fairness at all. `LiveExits`: a section that holds the mirror's lock goes on (weak);
reconcile and the guard's tick get the lock again and again (strong: both run periodically and the lock's
sections are short); the eToro account and the paper account have none. `Cadence`: the tick and a requested run go
on; again and again the work before a scan takes no longer than it is charged and a scan succeeds
(strong); from some time on no deploy and no pause. `DemoOps`: each thread goes on with what
it does, requests on the wire arrive or are dropped (weak), and a reconciliation that is tried for ever is clean for
once (strong). `TelegramBot`: the loop and the pool's thread go on, and a scan ends (both weak);
nothing makes messages arrive.

Deadlock is not checked where the system may stop: a pipeline with all proposals decided, a
stopped scheduler, an account at rest, a chat without messages. The reconciliation, the cadence and
the proposal passes never stop.

## 4. Proofs

`ExecutionPipelineProofs` proves, for every set of proposals, symbols, items, executions,
threads and processes, every route, with or without fallback and with any subset of the faults:

| theorem | statement |
|---|---|
| `TypeCorrect` | `Spec => []TypeOK` |
| `OneOpenItem` | `Spec => []OneOpenItemPerSymbol` |
| `ReferencesNeverCross` | `Spec => []ReferencesAgree` |
| `ExecutedIsBacked` | `Spec => []ExecutedHasOwnExecution` |
| `OrdersRecordedOnce` | `Spec => []OrderRecordedOnce` |

The only assumption is `PipelineConstants`: typing of the constants, item and execution ids are
different things, and `None` is not one of them.

None of the properties is inductive alone. That an executed row is backed depends on the copies
in the threads: a handler writes back what it read several steps ago. So the invariant is
`Inv == Good /\ ThreadsOK`. `Good` speaks of the tables: their types, `RowsOK` (a stored row
belongs to a proposal, every execution id in a row names a stored record of that same proposal,
an order recorded under an item's id belongs to the item's proposal) and the three safety
properties. `ThreadsOK` says the same of each thread's copies (`LocalOK`), not only for the step
it is at but for the step it will return to from `get_proposal` or `mark_executed`, and that it
holds an item, or an execution, wherever its step needs one. What makes this stable is `Keeps`:
no step deletes a stored row or gives it to another proposal, so a copy that was right stays
right however long it is held.

The proof has lemmas for the control helpers (`GotoOK`, `JumpOK`, `RaiseOK`, `ReadOK`, ...) and
for one write to each table (`WriteProposal`, `WriteItem`, `InsertExecution`, `FillExecution`);
then one lemma per group of actions; then `InitInv`, `NextInv`, `Invariance`.

Four more properties depend on where the code runs, and their theorems say on what:

| theorem | statement | holds where |
|---|---|---|
| `DoneItemReleases` | `[]DoneItemReleasesSymbol` | `OneContainer` |
| `ExecutedHasOrder` | `[]ExecutedItemHasOrder` | `NoOtherRoute` |
| `OneLiveOrder` | `[]OneLiveOrderPerProposal` | `OneContainer`, `QueueOnly` |
| `NotSentTwice` | `NoResubmission` | `OneContainer`, `RecordsFollow` |

`OneContainer` says that all threads share one `_ENTRY_LOCK`; two containers break these properties.
`NoOtherRoute` is Alpaca without the simulated fallback and without `POST /execute`, both of which
record executions that have no order at Alpaca; containers and faults are unrestricted.
`QueueOnly` leaves out direct executions, exceptions, lost answers and, on the Alpaca route only,
crashes: each puts an order at the broker that the database does not know of, or that no later look
at it finds. `RecordsFollow` is the Alpaca route without crashes and storage errors, which could come
between the two writes the property is about. None of the conditions limits the numbers of
proposals, items, threads, lock timeouts, re-enqueues or late writes of old copies.

- *Release* (`ReleaseInv`). A thread with an item holds the lock (`LockHeld`), so two of them are one
  (`Alone`); after its first look at it, the item it works on names no execution, and neither does its
  copy (`FreshItem`). Without the first the second does not survive the other worker's last write.
- *Executed items* (`OrderInv`). What an item is marked executed with is held by a thread for several
  steps, so `Backed` says of each thread, by the step it is at and the one it will return to, that its
  execution has an accepted order; `SuccessHasOrder` says the same of every execution that did not
  fail, which adoption relies on.
- *One order* (`LiveInv`). The order of one item is prevented by the record of another, written by a
  thread long gone. The link is: a proposal with a live order has a newest execution that did not fail
  (`Alive`), which the next worker adopts, or a worker about to record it (`Recording`); and a worker
  past its look has none of its proposal's orders live (`StageAt`, `BeforeOrder`). The proposal row plays no part:
  it may be written back to approved at any time.
- *No second submission* (`ResubInv`). An execution carries its item's `client_order_id` as soon as it is
  recorded, the item names it later. Whoever recorded one is about to name it (`Named`, `Closing`); a
  worker that has not sent yet has none recorded for its item (`Early`, `Unsent`).

The proofs see each action through one lemma that says what it writes and where it goes
(`ProposalMoves`, `ItemMoves`, `BrokerMoves`, `TraderMoves`, `ArriveMoves`, `EnvironmentMoves`, with `To`,
`Jumps`, `Raises`, `Writes`, `Creates`), so the four invariants do not expand the actions again.

`CadenceProofs` proves `TypeCorrect` (`[]TypeOK`), `TickFitsItsCap` (`[]BucketsFit`) and
`BackstopAgrees` (`[]AdmittedIsScanned`) for any number of buckets, any cap, reserve, estimates and
intervals. The assumption `MeasuredCosts` is the comment at `cadence_budget.py:36-48` written down:
a scan stops within `Overshoot` of its deadline, the work after it fits in the rest of the reserve,
work before it may be slower than charged but not by a whole useful scan. The invariant is
`TypeOK /\ Room`: `Room` says for each stage of a bucket how much of the cap is used and how much of
its estimate, which neither property says of the stages before it.

`DemoOpsProofs` proves, of `DemoOrders`, `OrdersTypeCorrect` and `SubmissionIsIdempotent`
(`OrdersSpec => SubmitsAtMostOnce`): the submission protocol implements `AtMostOnce`, for any
callers, keys and payloads, with refusals, lost and late requests, retries and restarts. The
invariant `OrdersInv` adds to the types that every request on the wire, order and caller agrees with
the row of its key (`Agree`), that a key has one sender at most, and none once its request is on the
wire (`Sender`), and that a stored answer is backed by an order (`Backed`). The step simulation then
maps `Arrive` and the three ways of being told to the two actions of `AtMostOnce`, and everything
else to a stutter.

`TelegramBotProofs` proves `CommandsTakenOnce` (`[]TakenOnce`) for any number of messages, batch
sizes, failures and restarts. The invariant adds that the rest of a batch follows the last id
without a gap (`BatchFollows`) and that nothing newer than it has begun (`NotAhead`).
`RefusalsAreBusy` (`RefusedIsBusy`) holds for any number of scans and executors as well. Its invariant
`SlotInv` says to whom a taken lock is owed (`LockIsOwed`): to the loop, which has taken it and not yet
submitted or is about to release it, or to a scan of the current generation that has not run its
callback. A scan of an older generation owes nothing, so what a recovery has given away is not released
twice; at the moment of a refusal the loop itself is elsewhere, and only the scan is left.

`SchedulerWorkerProofs` proves `WorkerNotHung` (`[]BoundedWorkerNotHung`) and `RunsDoNotOverlap`
(`[]NoOverlap`) for any jobs, intervals, timeouts, grace and number of worker generations, under
`JobsBounded`: every job has a timeout, of at most the staleness limit. Without it both are false: a
worker hung in a job without a timeout is replaced and comes back. The invariant `WorkerInv` says that
only the current generation is alive (`OnlyOne`), that its heartbeat is as young as the stage it is in
requires (`YoungBeat`), and that a job under way has no abandoned run within its grace (`Apart`).
`OnlyOne` needs `YoungBeat`: a worker that is never stale is never replaced while it lives.

`JobsDoNotStarve` (`[]NoStarvation`) holds under the same condition. Its invariant `FirstWorker` follows one
tick of the first worker: the jobs before the position it is at have used up at most the longest cap
each (`Paced`); at the beginning of the tick no job had waited longer than `Late`, a job not yet reached
waited no longer than that then, and one already passed was run in this tick or held back, using up
nothing (`Awaited`). That a held-back job uses up nothing pays for the longer wait its abandoned run
causes. `LongestCap`, some job has the longest cap, is proved with a least counterexample (`WFMin`), since
induction over data is out of reach.

`ReconciliationProofs` proves `TypesKept` (`[]TypeOK`) and `BookedIsRealAlways` (`[]BookedIsReal`) for
any number of orders, slices, attempts, faults, threshold and write budget. `BookedIsReal` speaks of
rows, which are written from copies; so the invariant `BookedInv` has one part for the broker
(`BrokerOK`), one for the rows (`RowsOK`) and one for the copies of each writer (`SweepOK`,
`StreamOK`): a copy of an order is `Behind` the broker (every final state it shows, the broker's order
has), and a row, or a copy of one, is `Justified` by the broker. What is final at the broker stays
final, so a copy stays behind however late it is written.

Of `DemoOps`, `DemoOpsProofs` proves three theorems for any number of threads, keys, positions, dates, commands and
restarts, from the typing of the constants (`DemoConstants`). `ResumesStayBounded`
(`[]ResumesBounded`) rests on `ResumeInv`: the count the scheduler holds during a probe is the stored
one (`Counted`), and a date's resumes are covered by its count, the restarts and the resume being
counted (`Covered`). `SweepTripsOnce` (`[]TripsOnce`) rests on `TripInv`: since a trip by the
scheduler's eToro reconciliation the kill switch is on, or still among the writes the scheduler has to do, and the
scheduler is not on its way to another reconciliation (`Held`); every thread's writes to come are
typed (`RowsTyped`). `AutomationSubmitsAtMostOnce` shows that every step of `DemoOps` is a step of
`DemoOrders` or leaves the client alone (`StepIsOrders`), so the whole system under automation
implements `AtMostOnce`.

`EtoroLiveProofs` proves, for any number of containers, symbols, orders, half days and failures:

| theorem | statement | beyond `Spec` |
|---|---|---|
| `TypesCorrect` | `[]TypeInv`, of which `TypeOK` is the first part | |
| `DailyCapKept`, `DailyCapKeptAlone` | `[]DailyCapHolds` | `Serial`; one container |
| `OnePerSymbolKept` | `[]OnePerSymbol` | `Serial`, `DecidedInADay`, `CardsWritten` |
| `StopAlwaysKept` | `[]StopKept` | the same |
| `CardsTrue` | `[]CardFollowsPosition` | the same |
| `CopiedExitsAreStrategies` | `[]CopiedExitIsStrategy` | `DailySessions`, `FlatReads >= 2` |

Each condition is one the code relies on, and each is needed: without it section 5 has a behaviour
that breaks the property. `Serial` says that no two processes are in a section of the mirror at once.
One container always satisfies it (`AloneIsSerial`); the lock does not give it to two.
`DecidedInADay` says that eToro does not leave an order queued for a day, which is what
`NOT_FILLED_AFTER_HOURS` takes for granted, `CardsWritten` that no `mirror()` ended, by a crash or an
exception (`record_entry`'s own included), between an accepted order and its card, or between one of unknown
fate and the halt. `LiveCopy` has those behaviours too and checks that the damage stays with the
order that went `astray` and those sent beside it. `DailySessions` says
that the market opens at least every other half day; `FLAT_READS_TO_CLOSE` is 2. Crashes and
exceptions anywhere are allowed in the proofs of the cap and of the copied exits, and everywhere
else in the other three.

- *Types.* `TypeInv` adds that orders are used in order (`UsedInOrder`, without which the next order
  is not one) and that no row counts more than `DailyCap` (`Counted`).
- *Cap* (`CapInv`). The saved row counts every order of its day (`RowCovers`), and a section holds a
  row that counts them as well, and one more from the write-ahead until the order is sent or given up
  (`SectionCovers`). What `undo` writes back and what `reconcile` saves is covered for this reason
  alone.
- *Symbols, stops, cards* (`BookInv`). One property cannot be proved without the other two: a
  symbol is free for the mirror only because every live order has a live card, is in flight in a
  section, or is a position in the row (`Remembers`, while not halted); a card tells the truth about
  its order (`CardOK`) because no second live order of the symbol can be taken for its fill (`Bound`);
  a stop is of the live order and marked seen only once that is a position (`StopsFit`), so what the
  guard drops protects nothing. `EntrySection`, `BackupSection` and `CardSection` carry this over the
  steps between a read and its write.
- *Copied exits* (`MarkInv`). A card whose paper position reads flat has only orders that a strategy
  ended, or is marked so recently that `_safety_flatten` sees the marker (`WatchAt`); a due card was
  read flat twice and so is flat (`DueAt`); what is still closing was marked in this half day, or in
  the one before an open (`ClosingOK`). It holds for the cards and for each process's copies of them.

Before they were proved, `CapInv`, `BookInv` and `MarkInv` were checked with TLC on small instances.

`AutoProposeProofs` proves, for any finite number of entries and any symbols, groups, limits and events:

| theorem | statement | beyond `Spec` |
|---|---|---|
| `PaperOnlyNeverWaits` | `[]OnlyNeverWaits` (rule 6) | |
| `PaperOnlyAvoidsEtoro` | `OnlyAvoidsEtoro` (rule 3) | |
| `PaperOnlyLeavesDay` | `[]OnlyLeavesDay` (rule 4) | `OneThread`; the limits are at least what is to be left |
| `PaperOnlyLeavesPlaces` | `[]OnlyLeavesPlaces` (rule 5) | the same, and no trade stream |
| `PaperOnlyWithinMax` | `[]OnlyWithinMax` (rule 5) | `OneThread`, no trade stream |

All of them with any number of faults, crashes and restarts. `WaitInv` is types, what an entry's row,
status and order say of each other (`EntryOK`), that a pass names a proposal exactly while it has it in
hand and knows when it is paper-only (`PassOK`), that the entry under the lock is queued and has no row
(`GateOK`), and `Handled`: a paper-only entry that may still be ordered (`Waits`: open, or under the
lock although rejected meanwhile) and has not gone astray is in the hands of a pass. The kind matters: a
pass that took a paper-only proposal for another would leave it open after a refusal. `AvoidInv` is what
holds from `Check` to the order: the eToro account has no position in the symbol of the paper-only entry
under the lock, unless the mirror took one over (`Guarded`). The copies of other entries go through the
same lock, closes only take symbols away (`EtoroStep`).

`DayInv` carries the counts from the two reads (`ReadContext`, `ReadRows`) to the order many steps later:
`Rooms` are the symbols for which the day still has room, and at every step a pass's verdicts, the symbol
it goes on with and the entry it has in hand and that waits are among them (`Promised`). What keeps them
there is that only a paper-only order takes room, and that by `Handled` such an order, whoever places it,
is of the one entry in hand or astray, after which the pass has no verdicts left. A second pass breaks
this (section 5), and so does nothing else: people, queue passes, fills, dead orders, midnight, failures
and crashes only make room or send an entry astray. Each action is seen through what it writes (`Lives`:
no paper-only entry opened, none counted that was not) and where its pass goes (`Reads`, `Carries`);
`StepKinds` sorts the next-state relation into such kinds.

`BookInv` does the same for rule 5, with the symbols the book still has room for; `PromiseCarries`,
`PromiseKept` and `PromiseUsed` are common to both. Three things are new. What rule 5 counts is not what
an order adds to: a paper-only entry is uncovered when the later orders of its symbol die. So the
invariant counts `Exposed` entries, paper-only, live, not astray and with no later row *filled*, among
which the counted ones are, and to which nothing but a paper-only order adds (`BookFewer`, `BookPlaced`);
`OnlyWithinMax`, the limit `MAX_OPEN_PAPER_ONLY` as the code keeps it, counts those whose later rows
are all paper-only or failed (`Marked`). Next, positions and rows
are read one after the other: what the positions read miss is only today's unfilled entries
(`Covered`), and these are in the rows (`BookCovers`), of which the code sees each symbol's newest; that
a symbol with an unfilled entry has a newest one is `NewestUnfilled`, from a least number (`WFMin`). An
entry that midnight finds unfilled, or filled between the two reads, goes astray, since the rows then
read no longer show it.
Last, which row is newer is decided once, when it is written (`AgesOK`, `AgesStep`). Without the
condition on the stream `Covered` is false, and so is the rule (section 5).

The invariants of the pipeline theorems (`ReleaseInv`, `OrderInv`, `LiveInv`, `ResubInv`) were checked
with TLC first as well, with one and two threads in one and two processes; so were `AvoidInv`, `DayInv` and
`BookInv`, on the constants of the run `AutoPropose`, and `BookInv` and `OnlyWithinMax` again with
`MaxOpen = 3`, `Heat = 3`, `MaxTrades = 4` and `MaxOnly = 1`, where `MaxOnly` binds.

Only model-checked: all liveness (`QueuedItemIsPickedUp`, `ClaimedItemIsResolved`, `RowsConverge`,
`BareIsHandled`, `ExitIsCopied`, `LowIsClosed`, `BareIsClosed`, `DueIsScanned`, `BreakerHeals`,
`CommandsAreAnswered`), which is out of the prover's reach. Every safety property of a run is stated by a
theorem.

## 5. Where the code does not keep what is written

Each of these is a behaviour of a module above; the runs leave out the event that causes it, or the
property, and the constants given here bring it back.

- *One paper-only entry too many* (`workflow/paper_only.py:364`; 112 "Paper-only positions open or
  unfilled at once"; `tests/test_paper_only_pass.py:9` "at most MAX_OPEN_PAPER_ONLY (5) are open at once"):
  `AutoPropose!OnlyWithinMaxAlways` with the run's constants but three ids, `MaxOpen = 3`, `Heat = 3`,
  `MaxTrades = 4`, `MaxOnly = 1`, `MaxFaults = 0`. Each symbol's newest row says whether its entry is
  paper-only, so one that still works is not counted while a later order of a person is the newest in its
  symbol. Another is admitted, the person's order dies, and the first counts again. What does hold is
  `OnlyWithinMax`; the room left for copied entries (`OnlyLeavesPlaces`) is not affected, since the
  symbol is counted either way.
- *A fill between two reads* (`workflow/paper_only.py:359`; 40-41 "the broker's open positions) and
  today's entries not yet filled"): `OnlyLeavesPlaces` with `AutoPropose`'s constants, or `OnlyWithinMax`
  with those of the previous entry, and "stream" among the events, without any fault. A fill that the trade stream books after the
  positions were read and before the rows are is in neither count. The stream is off by default.

- *A rejected proposal becomes executed* (`approvals/service.py:129`, "Mark an approved proposal as
  executed."): `ExecutionPipeline!OnlyApprovedBecomesExecuted` with `PipelineQueue`'s constants and
  "reject" among the requests. A rejection falls between the approval check and `mark_executed`.
- *An order is sent after the kill switch went on* (`execution/coordinator.py:168`;
  `docs/alpaca_paper_start.md:101` "New proposals and queue processing are blocked while the kill
  switch is on."): `NoOrderWhileHalted` with `Events = {"halt"}`. The blockers are read once, before
  the gates.
- *A restart duplicates an order* (`execution/coordinator.py:368`;
  `docs/alpaca_paper_to_live_roadmap.md:53` "Bot restart does not create duplicate orders or lose
  queue/execution state."): `OneLiveOrderPerProposal` on the Alpaca route, one process, two items, two
  executions, `Events = {"crash"}`. The process dies between acceptance and record; the new item has a
  new `client_order_id`.
- *Two containers, one queue* (`execution/coordinator.py:94`): `_ENTRY_LOCK` is a process's own, and
  `claim_for_processing` takes a blocked item again. A worker that looked for an execution before the other
  container recorded one claims the item after it. Constants: the Alpaca route, one proposal, two
  items, three executions, `Fallback = FALSE`, requests as in `PipelineEtoro`, two processes. Two threads and
  `Events = {"slow"}` break `DoneItemReleasesSymbol` and `NoResubmission` (the repeat carries the same
  `client_order_id`, so Alpaca places no second order); on the eToro route, with no events, two
  executions and a third thread whose late approve writes the executed proposal back to approved, the
  second item gives a second order and `OneLiveOrderPerProposal` fails.
- *The sweep takes back what the stream has booked* (`automation/reconciliation.py:330`; 168-169 "so the
  stream and the periodic sweep can never diverge"): `Reconciliation!BookedStays` with
  `ReconcileLive`'s constants. The sweep applies orders it read before the update.
- *A position without a stop is taken for handled* (`automation/reconciliation.py:417`; 392 "An
  unattended bot must never hold a position without a working stop."): `UnprotectedIsHandled`, same
  constants. The take-profit leg holds the shares, so every close is refused and counted as handled.
- *A safety flatten is copied* (`broker/etoro_live_exit_copy.py:39`; 32-36 "Paper safety flattens are
  NOT copied"): `CopiedExitIsStrategy` with `LiveCopy`'s constants but `MaxOrders = 1`, `MaxNow = 6`,
  `OpenTimes = {0, 6}`, `Faults = {"safety"}`. A flatten submitted before a weekend fills after the
  marker's 24 hours.
- *Two positions in one symbol* (`broker/etoro_live_room.py:124`, `broker/etoro_live_mirror.py:691`):
  `OnePerSymbol` without `ord[o].astray`, `LiveCopy`'s constants, `Faults = {"raise"}` or `{"crash"}`. The card is
  never written, because the process dies, a save raises or `record_entry`'s exception is only logged;
  reconcile drops the symbol while the order has not filled, and a second one is sent. If that one is
  rejected, or closes, the stop of the first goes with it: `StopKept` without `ord[o].astray`,
  `MaxFaults = 2`, `Faults = {"raise", "reject"}`. In `LiveCopy` only such orders are affected.
- *An order queued for a day* (`broker/etoro_live_scorecard.py:123`): `OnePerSymbol`, `StopKept` and
  `CardFollowsPosition` with `LiveCopy`'s constants but `MaxNow = 6`, `OpenTimes = {0, 2, 4, 6}`,
  `Faults = {"timeout"}`. The card of an order that is still queued becomes "not_filled"; its symbol
  is free again, a second order is placed, and the stop of the symbol goes with the second one. In
  `LiveCopy` an order is at most a day old.
- *Two containers, one cap* (`broker/etoro_live_mirror.py:389`): the lock is a process's own, so during a
  deploy two sections can meet. `DailyCapHolds` with `LiveCopy`'s constants but `Procs = {a, b}`,
  `Symbols = {a, b}`, `MaxNow = 0`, `OpenTimes = {0}`, `Faults = {}`: both judge the same row and both
  send. With `Symbols = {a}` and `DailyCap = 2` the same overlap breaks `OnePerSymbol`.
- *A stopped account is reconciled and closed again* (`automation/etoro_reconciliation.py:162`;
  `workflow/routes.py:118`, `institutional/routes.py:115`): `POST /workflow/run/maintenance` and the routes
  that reconcile look at no blocker, so while automation is stopped an unresolved request trips the
  breaker and runs the emergency stop again, without a resume or a restart. `DemoOps` has the behaviour
  (`RequestRun`); `TripsOnce` speaks of the scheduler's own reconciliation.
- *A scan whose answer never comes* (`notifications/telegram_bot.py:1482`):
  `_send_result` sends once and ignores that `send_text` says False on a failed call
  (`notifications/telegram.py:55-59`), and the future swallows what the callback raises. In `TelegramBot`
  such a scan ends with `result = "failed"`; `CommandsAreAnswered` asks that it is sent or that this one call failed.
- *An operator's pause is lifted* (`automation/auto_recover.py:93-94`; 11-13 say that it never touches
  an operator's pause): a pause that falls into a probe, or whose reason a later trip overwrites, is gone
  after `Recovered`. `DemoOps` has the behaviour; no property of it is about the operator.
- *Two passes at once* (`workflow/paper_only.py:348`): `OnlyLeavesDay` of `AutoPropose` with
  `Ids = {i1, i2}`, `Threads = {t1, t2}`, `MaxOnly = 1`, `Events = {}`. A requested scan and the scheduler's pass each judge their entry on the same counts.
- *A paper-only entry out of hand* (`workflow/paper_only.py:446`; 60-71 "one whose order was not placed
  in its own pass (refused, its queue item blocked, or an error) is rejected at once", "So none waits"):
  `_withdraw` swallows what `reject_proposal` raises, and a crash between enqueueing and withdrawal keeps
  the pass from it. The proposal stays approved; `process_ready_queue`, or a person who names its blocked
  item, places it later without rules 4 and 5. `OnlyLeavesPlaces` without `~entry[i].astray`, the
  run's constants; `OnlyLeavesDay` in the same way with `MaxTrades = 2`.
- *A paper-only proposal forgotten* (`approvals/service.py:62`, `workflow/operations.py:956`): a line of the
  log that raises after the proposal's row is written leaves it pending: the first loses the candidate
  (944), the second ends the pass. Nobody can approve it; it holds its symbol until it expires.
  `OnlyNeverWaits` without `entry[i].astray`.
- *An entry unfilled overnight* (`execution/coordinator.py:530`, `workflow/paper_only.py:375`): brackets are
  good till cancelled, and `_paper_book` counts an unfilled entry only on the day of its row. From
  midnight on it is neither held nor unfilled, and another paper-only entry takes the place left for the
  copied ones. `OnlyLeavesPlaces` without `~entry[i].astray`, `MaxFaults = 0`.
- *An order behind a FAILED row* (`execution/coordinator.py:319`): an answer that is lost leaves a FAILED
  row over an order that may be live. It counts for the day's trades and for nothing else, until
  its position is seen. `OnlyLeavesPlaces` speaks of rows that are placed or filled; counted over every
  live order (`entry[i].at \in Live` for `i \in Known`) it fails with the run's constants.
- *A position found between check and order* (`execution/coordinator.py:194`, 294;
  `broker/etoro_live_mirror.py:735`): reconcile takes up a position of the account that it has no order
  for, under a lock of its own, when the paper-only entry in its symbol has been checked.
  `OnlyAvoidsEtoro` without `gate.adopted`, the run's constants.

## 6. Not modelled

Numeric work over price series (strategies, indicators, screener ranking, backtests), report and
message formatting, HTTP and market-data I/O, and dashboards have no shared state that a small
instance could interleave; they are most of the code. The webhook delivery of Telegram updates, the
status report and the verified flag of the controls, the SPY reserve, the test order, partial fills
and crypto's protective orders are left out of their components. The rate limiter appears as a
refusal that may meet any call. Position exits, paper trading, the learning job queue and the
drawdown governor are in the plan.

## 7. Plan

1. done: `ExecutionPipeline`, `SchedulerWorker`, `Reconciliation`, `EtoroLive`, `Cadence`,
   `AtMostOnce`/`DemoOrders`/`DemoOps`, `AutoPropose`, `TelegramBot`.
2. done: the theorems of section 4, one for every safety property of a run.
3. The intraday and max-hold exits (`automation/max_hold_exit.py:148`) as a module over
   `Reconciliation`, with the safety marker: a sweep that comes between the cancelled legs and the sell
   takes a strategy's exit for a bare position and marks it, and the eToro copy is then detached. The
   Alpaca route of the pipeline as an implementation of `AtMostOnce` under the assumption that no item
   is queued again.
4. Small modules: the SPY reserve, the learning job queue, the drawdown governor as an operator
   against a reference.

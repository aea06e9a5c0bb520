# A TLA+ model of systematic_trading

`systematic_trading` turns research strategies into daily portfolio targets, the
targets into trade proposals, approved proposals into Interactive Brokers paper
orders, and the broker's answers back into a ledger, P&L and alerts. One Python
process (the FastAPI app with an embedded management loop) does most of it; next to
it run command-line scripts, an event dispatcher, recorders, a broker monitor and a
recovery supervisor, which share a Postgres database, a few JSON files and one Gateway.

This directory models the parts of it whose correctness is a question of order:
who wrote which row when, what was read before a lock and used after it, what a
crash leaves behind. TLC checks the models on small instances and TLAPS proves the
central invariants for instances of every size.

## Inventory

| Part | State it keeps | Operations | Where |
|---|---|---|---|
| Order routing | rows of `broker_orders` (one per leg of a proposal), trading socket | validate, reserve, send, record the outcome | `execution/broker.py`, `storage/postgres.py` |
| Order management | `pending_action`, `broker_observation`, `management_revision` of a row | sync order states, cancel, amend, resubmit | `execution/management.py` |
| Execution evidence | `execution_fills`, `execution_sync_issue` of a row | fetch executions, merge, audited recovery | `execution/fills.py`, `execution/recovery.py` |
| Execution window | `missed-` rows, proposal status | expire due proposals | `execution/window.py` |
| Reconciliation and baselines | report file, `portfolio.pnl_baselines` | compare ledger and broker account, reset the books, compact them | `execution/reconciliation.py`, `live/pnl.py`, `live/pnl_reset.py` |
| Event outbox | `events.platform_event_outbox` | append with the business transaction, dispatch, retry | `messaging/outbox.py`, `messaging/nats.py`, `scripts/dispatch_event_outbox.py` |
| Proposals and rebalance intents | proposal rows, `portfolio_intents` of the control document | queue, decide, renew, complete, cancel | `portfolio/rebalance_intents.py`, `live/deferred_rebalance.py`, `web/api.py` |
| Automatic approval | policy file, claims in the status file | configure, tick, claim, hand over to the router | `live/auto_approval.py` |
| Strategy control | versioned control document, membership document, immutable control events | schedule, cancel, authorise, activate a change; archive and restore a strategy; compare-and-swap | `live/strategy_control.py`, `research/strategy_lifecycle.py`, `storage/strategy_control.py` |
| Management loop | status file, EOD backlog, circuit breaker of the Gateway | one tick: expiry, hand-over, fills, alignment, approval, EOD | `live/management_service.py` |
| Supervisor | retry file, pause and stop files, worker lock | probe, repair with backoff, pause, resume | `services/recovery.py` |
| Broker monitor | status file, recovery request | probe, request a recovery | `services/broker_monitor.py`, `execution/ib_health.py` |
| P&L and valuation | marks, FIFO lots, baselines | value positions, attribute P&L | `live/pnl.py`, `valuation/` |
| Recorders, market data, lake, backups | raw partitions, golden tables, archives | record, publish, verify, retain | `recorders/`, `market_data/`, `storage/` |
| Research, signals, backtests, LEAN | none that survives a run | numerical studies | `research/`, `signals/`, `backtest/`, `lean/` |

How they interact. The app's API threads and its management loop are serialised by
one in-process lock around everything that uses the Gateway's trading client id
(`ORDER_CONNECTION_LOCK`, `execution/locks.py`). The command-line router is another
process: it takes no part in that lock, and the two meet only in the database
(row locks, unique keys, an advisory lock per proposal leg) and at the Gateway, which
admits one socket per client id. Execution sync runs in the app *outside* the lock on
a client id of its own. Every business transaction writes its outbox event; one or
more dispatchers publish what is unpublished. The management loop, the API and
the scripts all replace whole proposal rows, and change the control document by
compare-and-swap.

What is hard here:

* a row read, changed in memory and written back while another actor wrote it:
  the router's outcome save, the execution merge, a management claim, expiry;
* an order whose fate is unknown: a timeout, a dropped socket or a crash after
  `placeOrder`, which must block, not be repeated;
* broker evidence that arrives late, twice, corrected, or for an older attempt;
* expiry of the trading window against a router that has already validated;
* publication without a row lock, with acknowledgements that may be lost;
* the policy and claim files, the control document and the proposal rows: three stores
  written one after another with a crash possible between each two;
* a loop whose steps fail one by one and back off.

What makes each part correct: never two live orders for one approved leg; the
ledger never calls a leg free while an order of it lives; recorded executions are
never erased and every execution arrives; a claim on an order ends only by broker
evidence; nothing is sent while an outcome is unknown; an event is published if and
only if its transaction committed, and at least once;
a closed intent stays closed; a claim submits at most one proposal; a control
change is applied once and against the revision it was reviewed on.

## Modules

### OrderLedger

The ledger of one approved proposal with `NumLegs` orders and the five writers that
share it. Two processes route: `"app"` (API and management loop, one job at a time
because of the order lock) and `"script"` (`scripts/submit_ib_paper_orders.py`).

| Variable | Code |
|---|---|
| `rec` | the `broker_orders` row of each leg: status, broker order id, ordered and filled quantity, id the fills came from, `execution_sync_issue`, `broker_observation`, `pending_action` |
| `missed` | legs that also have the synthetic `missed-` row |
| `proposal`, `late` | stored proposal status; whether the deadline has passed |
| `ord` | orders at the broker (external), by broker order id |
| `session` | which process holds the trading client id |
| `job` | what a process has read and not yet written, under its lock |
| `seen` | the Gateway snapshot of order sync or of a management action |
| `review` | the row an operator reviewed (`review_token`) and the action |
| `feed` | executions fetched and not yet merged |

A process moves through `Validate` → `Connect` → (`Reserve` → `Send` → `Acknowledged`,
`DefinitelyRejected` or `Uncertain` → `SaveOutcome`)\* → `BatchDone`, any of them
interrupted by `Crash`. `SaveOutcome` writes the row *computed before the order was
sent*, merged by `Preserve` (`preserve_execution_evidence`) with what is stored by then.
`OpenSync`/`ApplyObservation`/`CloseSync` are `sync_orders`; `OpenCancel`, `OpenAmend`,
`OpenResubmit`, `Claim`, `Change`, `RetryRoute` are `manage_order`; `ExpireScan`,
`ExpireMark`, `ExpireClose` are `expire_due_proposals` cut where it lets go of the
database; `FetchFills` and `MergeFills` are `sync_order_fills` cut the same way. The
broker accepts, refuses, fills, cancels, amends and corrects when it likes.

Decisions worth knowing:

* `management_revision` is dropped: it only decides whether the management fields of
  the stored row survive, which is the same question as whether the broker order id is
  unchanged. `updated_at` is not modelled; where the code picks the newer of two
  rows (`ExpireScan`) the model takes either.
* amendments change the quantity only, downwards (prices do not enter a property).
* an order refused by the broker is not in any Gateway list, so sync never sees it, and its
  row stays `pending_submit`. `BrokerOrderRejectedError`, which would record a
  rejection, is handled by the router and raised by clients other than the shipped one.
* reconciliation freshness and the other approvals checked before routing are taken
  as passed; the proposal starts approved. The expiry call at the head of the submit
  endpoint is the separate `Expire*` steps under the same lock.
* the broker takes no second order under an id it knows, and the id a process starts
  from is above every stored one (`Connect`).

Properties: `SingleLiveOrder`, `ClosedRowNotLive`, `EvidenceNeverErased`,
`LiveOrderTracked`, `ExecutedWithinApproval`, `ClaimResolvedByBroker`,
`UncertainBlocksRouting`, `FillsReachLedger`. Statements of the
documentation that do not hold are under Known limits.

### EventOutbox, EventDelivery

`EventDelivery` is the contract of `docs/queue-adapter-selection.md`: owed when committed, delivered
only if owed, settled only if delivered. `EventOutbox` is the program: producers stamp
`created_at` before the transaction commits (`Append`, `Commit`, `Rollback`), so the
oldest row may appear last; any number of dispatchers `List` the oldest unpublished
rows and publish them one by one without a lock. An attempt is `Accepted`,
`TimedOut` (with the message still on the wire), `Refused`, or `CloseFailed` (stored, then the
drain raised); then the row is marked (`MarkPublished`) or the failure recorded
(`RecordFailure`), and `Proceed` goes on until the batch or `max_batch_seconds` is used
up. `Budget` counts slow attempts. Delivery is at least once: `stored` says that the broker has the message of an event, not
how often. That JetStream drops the repeats of one `Nats-Msg-Id` within its window is the broker's doing and not represented.
Rows are taken as decodable (`list_pending` would stop at one that is not).

`HealthyEventsSettle` needs the events that fail to be fewer than the batch and the time budget. With `Budget = 1` in
`outbox_contract` TLC shows the starvation that follows otherwise: `dispatch_pending` starts with the oldest rows every time, slow
failures (four five-second timeouts with the default of 20 seconds) use up every batch, and what is behind them
is never attempted.

Properties: `KeepsContract` (the refinement), `PublishedHasNoError`, `HealthyEventsSettle`.

### RebalanceIntent, RebalanceObjective

One level above the ledger: one portfolio objective, and the proposals that pursue it until it is
reached, cancelled or superseded. `RebalanceObjective` is the promise of
`docs/rebalance-intent-recovery-2026-10-24.md`: only the newest attempt places an order, only while
the objective is open and nothing older can execute, and never for more than is missing; an objective
is completed only when its target is held, and a closed one stays closed. `RebalanceIntent` is the program.

| Variable | Code |
|---|---|
| `proposals` | status, order quantity and `prepared_account` of each attempt; attempt n+1 is the `renew-` successor of attempt n |
| `approvals` | attempts with a recorded approval |
| `due` | attempts past `execution_deadline_at` |
| `rows` | the `broker_orders` row of each attempt: status, filled quantity, whether order sync has seen it |
| `orders`, `held` | order and position at the broker (external) |
| `intent`, `newer` | status in `portfolio_intents`; how far a later objective of the portfolio has got |
| `policy` | approval policy file: enabled, the phase of each claim, the attempts it applies to |
| `report`, `recon` | stored reconciliation report, and the one being made; `covers` are the attempts whose row and executions are not newer than its `checked_at` |
| `job` | what the app (under its lock) or the command-line router is doing; `lapsed` is the attempt expiry is about to record as missed |

`Sweep` is the head of the management loop. It, `Tick` and `Ask` begin with expiry: `Expire` scans the attempts up to the first that has
lapsed, `Miss` writes what was read and scans on, and after the last one `AfterExpiry` goes on with the request. `Tick` → `Renew` or `RenewLater` → `Claim` or `NothingToClaim` →
`ApproveClaim` → `EnterRouter` → routing → `RecordClaim` is `PaperAutoApproval.tick`, cut at every write so that
`Crash` can fall between any two. `Ask` and `Decide` are the endpoints that decide and submit;
`CancelIntent`, `Refresh` and `Configure` the other three. Routing is `Validate` → `Connect` → `Reserve` → `Send` →
`SaveOutcome`, in the app or (`RunScript`) in the script. `Observe`, `SyncExecutions`, `StartReconcile` and
`FinishReconcile` are order sync, execution sync and reconciliation.

Decisions worth knowing:

* One buy order of one instrument. What a claim, a successor or a report gets wrong shows in the quantity.
* Between the scan of an attempt and its write the other router can reserve it, and its order then belongs to a missed attempt. So
  `MissedHasNoOrder` is a property of the app alone. The row and the proposal of one miss are one step (their cut is OrderLedger's);
  so is intent sync, which reads what the app writes under its lock. Uncertainty and late saves are OrderLedger's.
  `PolicyRequests` leaves the sweep out: it does what a tick with the policy off does.
* `covers` loses an attempt when it executes or its row is saved. The code compares times:
  an execution that is merged after the report but was made before it does not count as newer,
  and it does not here.
* Renewal may always be put off (`RenewLater`): the five-minute cooldown, a window that has not begun and a
  refusal look the same from outside. Likewise `NothingToClaim`.
* The first attempt carries a prepared account, as staged alignments do. A later objective is
  none, pending or adopted.
* Not modelled: allocation binding, the hand-over of a strategy, virtual transfers, amendments, claims
  written by older versions, a policy file that cannot be saved, the arithmetic of targets.

Properties: `KeepsObjective` (the refinement), `MissedHasNoOrder`, `ClaimPrecedesApproval`.

The command-line router shares nothing with the app's lock, and lineage and intent are checked in validation, not
again at the reservation. So with the script beside the app *and* refresh or cancellation among the requests,
`KeepsObjective` fails: the script validates an attempt, the app queues its successor or closes the objective, and the
script sends the old order (`deferred_rebalance.py:203` says the successor "invalidates the old route").
`intent_routers` leaves those two requests out and shows that submission alone is
safe, with the stored order type or another one. The theorem `ObjectiveKept` covers exactly this: one router, or none of the requests
that close or renew the objective.

### StrategyControl, AllocationLifecycle

Which strategies the portfolio trades. `AllocationLifecycle` is the promise of `docs/trading-allocations.md`: a reviewed
change waits alone, takes effect at most once and only if it was not withdrawn, and nothing else moves the allocation in
force. `StrategyControl` is the program: any number of processes that read two documents, decide and commit.

| Variable | Code |
|---|---|
| `revision` | revision of the control document and of the membership document |
| `roles` | the control document: SOTA designation, allocation in force, pending change with its requested close and catch-up |
| `members` | the membership document: monitored strategies and the generation each was last restored at |
| `history` | the immutable control events, by kind and change |
| `replay` | the membership that the analytics worker calculated for last |
| `report` | generation that the published replay of a strategy covers |
| `proposals`, `rows` | versions whose proposal is queued; broker rows of each version's proposal |
| `job` | what a process has read and is about to write, with the revisions it expects |
| `clock` | three phases a day: before, in and after the session |

`Schedule`, `Cancel`, `Authorize` and `ChangeMembership` are the operator's endpoints up to their commit, `Prepare` →
`Recheck` → commit → `Queue` is `activate_pending` and the queue write after it, `Restore` the tick that finds a proposal
missing. `CommitRoles`, `CommitMembers`, `ReplayCommit` and `RefuseCommit` are the transaction of `storage/postgres.py`:
the event id, then the guard on the other document, then the compare-and-swap. `Validate` and `Reserve` route a
proposal of the allocation in force. `Crash` may fall before each of them. `Replay` and `Publish` are the analytics worker: it
calculates for the membership it has read, and later publishes all strategies of it together, while a strategy archived since keeps its
last report. By then the membership may have moved on again: the worker compares it before it publishes, and not with the publication.

Decisions worth knowing: a check that can only refuse (evidence review, plan validation, reconciliation, a page older than the document)
is the action that is not taken; the contents of a change are fixed per id, so that a repeated request
is the same request; a process has one job at a time because of `ORDER_CONNECTION_LOCK`; prices,
weights and the plan are not modelled; one worker calculates at a time (`run/research-retention.lock`).

Properties: `KeepsLifecycle` (the refinement), `HeldAreReplayed`, `NeverBackdated`, `InterruptedQueueRecovered`.

### ManagementLoop

The tick of the loop as far as the broker Gateway and the after-close work go.

| Variable | Code |
|---|---|
| `day`, `evening`, `works`, `inputs`, `start` | the calendar, whether the outside works, revision of the financial inputs of each session, first session of the episode (external) |
| `captured`, `staged`, `valued`, `bars` | account snapshots of month ends, staged rebalances, stored P&L, market data |
| `errors`, `circuit`, `recon` | consecutive Gateway failures, breaker, outcome of the last reconciliation |
| `pending`, `lastEod`, `pnlDay`, `pnlRev`, `eodWait` | the fields of the status file that hold the backlog |
| `job` | where the tick is, its date, the sessions it has done |

`Begin` consumes the recovery request of the broker monitor, `Poll` is the periodic sync, `Backlog` picks the oldest session that is
not complete, and `EodSync` → `EodMarket` → `EodAccount` → `EodValue` → `Mark` → `EodStage` → `EodFinish` is
`_run_eod` cut where it calls out or saves the status. `RetryFallsDue` and `CooldownEnds` end the two waits; `Restart` loads the saved
status again. While `works` is false every call may fail, the schedule may
refuse the session (`EodSync`), and the process may be restarted.

Decisions worth knowing: only trading days are considered; a tick uses the time it began with; the alignment, the hand-over and the
approval of the same tick belong to other modules; the length of the backoff is left open.

Properties: `CurrentMeansCurrent`, `ValuedOnFreshMatch`, `CompletesInOrder`, `MarketDataArrives`, `BacklogDrains`,
`LatestIsRevalued`.

### LocalRecovery

The recovery worker and the scripts that stop, pause and start it and the services.

| Variable | Code |
|---|---|
| `stopFile`, `paused` | `local_recovery.stop` and the pause files |
| `halted` | `database_sync.stop`, which ends the backup |
| `lock` | holder of the control lock |
| `worker` | where the worker is and which service it looks at |
| `mem`, `disk`, `cooling` | the record of attempts in memory and on disk; the services whose wait goes on |
| `up`, `shell`, `orphans`, `works` | services that run, the repair of the worker, repairs it left behind, whether a start can succeed (external) |
| `op`, `stopped` | the step of the running script; services stopped by script |

`Load` → `Loop` → `Enter` → (`Healthy`, `Wait`, or `Record` → `Launch` → `Repaired`)\* → `Save` → `Rest` is the worker, with
`Crash` at every place; `StopService` and the actions up to `Ready` are the shell scripts and the
`control` commands they call. The operating system releases the locks of a dead process, so a crash is one step.

Services differ in how they are held off, and the constants say which is which. `Guarded` ones (operator, recorder) have a start script that
pauses their repair meanwhile. `Unresumed` is the recorder: the start of the platform (`RunAll`) launches it without its start
script and leaves its pause in place. `Backups` is the backup: no pause, a stop file written without the control lock (`Halt`), removed
by the start of the platform only. The others (NATS, ClickHouse) are the plain case, which the proofs cover. `RunAll` may raise at any
service, and then the worker is not started.

Properties: `RepairHonoursCommands`, `BackoffSurvives`, `OnlyOrphansRestart`, `StopEnds`, `ComesBack`.

### PortfolioBaseline

The P&L baseline and the execution ledger it summarises: three procedures that read the ledger, work without a lock, and write.

| Variable | Code |
|---|---|
| `now`, `at`, `account` | the clock, when the broker executed, its executions at their present revision (external) |
| `ledger`, `superseded`, `issue` | executions of the order rows, originals a recovery replaced, rows with an `execution_sync_issue` |
| `bases` | `portfolio.pnl_baselines`, by order of saving |
| `recon` | a reconciliation, from `checked_at` to the report or the reset |
| `fold` | a compaction, from reading the records to saving |
| `review` | a reviewed recovery request with the row and the baseline it was reviewed on |

`BeginRecon` → `FetchFills` → `SyncNewFills` → `ReadHistory` → `TakeSnapshot` → `Judge` → `Reset` is
`reconcile_ib_paper_account` in its order, `ReadRecords` → `ReadPrevious` → `Collapse` is `build_pnl_baseline`, `Preview` →
`Recover` the reviewed recovery; `Sync` merges what fill sync fetched, at any time and as late as it likes. `SaveBaseline` is the
write under the ledger lock with its two checks (token of the rows, parent baseline).

Decisions worth knowing: an execution is a buy of one unit, two once corrected, so that a count shows which revision was counted and
how often; the token of the execution state is the rows themselves; the matching of positions can only refuse.

Properties: `FoldedUnchanged`, `CompactionKeepsBooks`, `NoBaselineOverConflict`; `ResetCountsOnce` fails, see Findings.

## Runs

| Run | Instance | Shows |
|---|---|---|
| `ledger_races` | app and script, 1 leg of 1 share, 2 broker ids | one live order per intent; no row hides it; evidence survives every stale write |
| `ledger_amend` | app, 1 leg of 2 shares, 2 ids, fair | the row tracks the live order, executions stay within the approval, claims end on evidence, every execution reaches the ledger or becomes a durable issue |
| `ledger_batch` | app, 2 legs of 1 share, 2 ids | an unknown outcome stops everything behind it |
| `outbox_contract` | 1 healthy and 1 refused event, a fair service and a second dispatcher, batch 2, budget 2 | contract, no stale error; the healthy event is published |
| `intent_policy` | app, policy and a cancelling operator, 2 units, 2 attempts, 1 crash | the objective's promise under partial fills, crashes and stale reports; claims precede approvals |
| `intent_operator` | app, all decisions, 1 unit, 2 attempts, a later objective up to adopted | the same for the operator's endpoints |
| `intent_routers` | app and script, stored or other order type, 2 units, 1 attempt, 1 crash, later objective staged | two routers never execute beyond what is missing |
| `control_cas` | 2 instances of the app, the analytics worker, 2 strategies, 3 changes (one of the SOTA designation alone), clock to 8, 2 membership changes and catch-ups below revision 2, fair | changes live as documented, no hand-over is backdated, roles name replayed strategies only, an interrupted queue write is recovered |
| `loop_eod` | 2 sessions, the first a month end, breaker of 2 failures, 1 correction of inputs, fair | valuations are current and on fresh evidence, sessions complete in order, the backlog drains |
| `recovery_commands` | the recorder and the backup, fair | commands are honoured by repairs, backoff survives the worker, stop ends, wanted services that nothing holds off come back |
| `baseline_books` | 2 executions of one order, the first correctable, session end 2, clock to 2, 2 baselines, two of the three procedures at a time | compaction is neutral, closed periods stay, nothing is saved over a conflict |
| `baseline_reset` | the same | finding |

Bounds. `MaxOid` bounds the attempts: two ids are a first attempt and one retry, by the same
process or by the other, which is the smallest case in which a stale write can hit a newer
attempt; the invariants compare at most two orders. One share makes an order all or
nothing, two shares allow a partial fill, an amendment below the approval and
an execution between the two. Two legs are the smallest batch with something behind
the first. In the outbox two events can be stamped and committed in opposite
orders, and two dispatchers can hold the same row. The safety properties do not depend on
the bounds: they are proved.

Two instances of the app are enough for one commit to fall between the read and the commit of another, three changes for a schedule that meets a
pending and a designation; `LastTime = 8` reaches two evenings and the session after each, so every window can be met, missed and
caught up. In `loop_eod` two sessions are an old one that blocks and a newer one behind it, and a threshold of two tells one failure from an open
breaker. In `baseline_books` two executions of one order straddle the cutoff, and two baselines are a compaction on
top of a reset or of a compaction. Three procedures at once were left out for size: each pair is there.

In the intent runs two attempts are one renewal, two units make a residual that is neither nothing
nor everything, and one crash can fall between any two writes. The operator's run has one unit
and no crash to stay small: partial fills and crashes are left to `intent_policy`.

Deadlock is checked in the intent runs, `loop_eod`, `recovery_commands` and the baseline runs, where something
can always be asked or go wrong. It is not in the others: a proposal that is done, an outbox that is
empty, or a control store after the last tick of the clock, stops.

Fairness. `FairSpec` of OrderLedger: the management loop calls the execution sync on every tick
(`WF` on `FetchFills`), and a merge that a restart prevented is done after another
(`SF` on `MergeFills`). Nothing is assumed about the router, the operator or the broker. `FairSpec` of
EventOutbox, for the dispatchers in `Service` (the others run once): the loop lists for ever; the broker accepts and the store records again
and again, not always (`SF`); an attempt at an event the broker refuses ends without a
crash again and again.
`FairSpec` of StrategyControl: a live process finishes the job in hand (`WF`), and its loop ticks again after
any crash (`SF` on `Restore`); operators and the broker owe nothing. ManagementLoop: the tick runs (`WF`) and the two waits end,
however often a failure starts them anew (`SF`); its eventual properties are stated under the premise that the outside works
from some time on. LocalRecovery: worker and scripts go on while they live (`WF`), and a wait elapses (`SF`); nothing starts the
worker but the operator.


## Proofs

`OrderLedgerProofs` proves `TypeCorrect`, `SingleLive`, `LiveLegIsHeld`, `EvidenceKept`, `ExecutedAsApproved` and
`LiveRowNotClosed`, for any number of legs, any bound on ids, any approved quantities and either set of processes. `SingleLiveOrder` is
not inductive. The invariant `IInv` is `TypeOK` with

* `JobOK`, `ReviewOK`: what a job or a review holds fits its program counter; and
* `Core`, whose parts are: an order at the broker belongs to a leg (`OrderOK`); a leg
  without a row has no order, fills or feed (`EmptyRow`); the row of a live order is not
  free, rejected or cancelled (`LiveIsOpen`); while a process has reserved a leg and
  not saved, the leg has no other live order and, until the broker has taken this one on,
  its row stays open (`Held`), and no other process holds its id (`HeldOnce`); a row of a Gateway snapshot is
  about an order of its leg, and if the ledger still carries that id no other order of the leg
  is live (`Snapshot`); the id of an observed row is the only one that can be live (`Tracked`).

The step that makes it delicate is `Reserve`: it takes a row that is free or retryable and
so needs `LiveIsOpen`. `SaveOutcome` keeps `LiveIsOpen` only because an unknown outcome never
becomes a rejection, and `ApplyObservation` only because of `Snapshot`. `LiveLegIsHeld` states
`LiveIsOpen` as a theorem of its own: it is `ClosedRowNotLive` without the filled rows.
`EvidenceKept` follows from `TypeOK` alone: `RowsKept` shows that each writer of a row keeps what is recorded.

`ExecutedAsApproved` and `LiveRowNotClosed` are about executions and terms, and need the
invariant `Executions` on top of `IInv`. An order is *busy* when it is alive or has executed.

* `AtBrokerOK`: a leg has at most one busy order over all its attempts (`SingleBusy`), and no order
  asks for more than was approved, amendments on the wire included (`OrderSized`).
* `RowsOK`: a row a reservation may replace belongs to a leg without a busy order, a filled row to
  one without a live order, and a live order has the terms of its row but for a claimed amendment (`RowHolds`,
  `Agrees`); what was fetched has happened (`FeedHolds`).
* `HandsOK`: while a router has a leg in hand, its order is the only busy one of the leg, except
  that the script may be overtaken once its order has been taken on (`HandHolds`). This is where the two
  processes differ: sync and management run in the app, so they cannot move a leg the app itself
  holds, and only the app routes with amended terms (`JobSized`).
* `SeenOK`, `ReviewHolds`: a snapshot that says an order ended, counts its executions or shows its
  terms is still right when it is applied, and a claim on a live order holds until the Gateway is asked.

Both theorems are about late saves in the end. A save that puts another id on the row finds the
approved quantity there or puts it there, so `Agrees` survives it; it closes the row only on a rejection,
and then nothing of the leg is busy. `LiveOrderTracked` does not survive it and is proved for one router only.
`Executions` was first checked with TLC, for two processes on a leg of two shares with two ids (7.5 million
states, complete) and on random behaviours of two legs of three shares with four ids.

`OneRouterProofs` continues for the app as the only router (`OneRouter`, an assumption of each of its theorems), for any legs, ids and quantities:
`LiveOrderNamed`, `ClaimKept` and `UncertainBlocks`. `AppInv` adds to `IInv` and `Executions`:

* `LiveOrderTracked` itself; with it `InHand`: the row of the leg in hand has the id in hand, so no save is late, none can change
  the id of a row and none drops a claim;
* `Tidy`: no claim, no claimed quantity; no row, no claim; with executions, not pending;
* `NoneUncertain`: while the app routes, only the leg in hand waits for an outcome.

A row changes its id only in a reservation, and then nothing of its leg is alive (`RowWrites`, `Sends`, `Takes`). `ClaimKept` follows
from the list of writes in `RowWrites`: only an observation ends a claim, and what it says of the end or the
terms of the order is still true (`SeenOK`). With a second
router these three are not claimed: its late save can put an older id back on the row, and with it drop a claim.

`EventOutboxProofs` proves `TypeCorrect` (the time budget included), `NoError` and `Contract`, the refinement, for any sets of events and dispatchers and any limits. Its invariant adds
`OnlyOwed` (batch, wire and broker hold committed events only), `Stamps` (created_at tells rows apart, so
"the current row" of a batch is one row) and `Stored` (a published row and a success have their message).

`RebalanceIntentProofs` proves `TypeCorrect`, `MissedIsQuiet` and `ClaimFirst`, for any lineage bound, target, number of
crashes and set of requests; `MissedIsQuiet` for the app as the only router. `MissedHasNoOrder` needs to know why an order that expiry holds to be unsent
is not live. Its invariant `ExpiryInv` adds to the types `RowTellsOrder` (no row or a cancelled row: no live order), `RowNeedsDecision` (a
row belongs to an attempt that was decided on), `MissesAreQuiet` (the property, and the same for the attempt the scan is about to record), `RouterHolds` (a process about to send
holds a reservation whose order does not exist) and `OneConnected` (one process has the trading client id, so the
reservation is nobody else's). The delicate step is `Send`, which makes an order live; it is
safe because between `Reserve` and `Send` expiry does not touch an attempt with a pending row, and because the app does not reserve
between its own scan and write: here the assumption on the routers enters.
`ClaimFirst` assumes that nobody but the policy approves.

`ObjectiveKept` is the refinement of RebalanceObjective: every step of RebalanceIntent is one of the objective's or changes none of its
variables, for any target and lineage bound. `OneDecider`, its hypothesis, says where the promise holds at all: the app is the only
router, or nothing is requested that closes or renews the objective. The invariant `Pursuit` says why a
successor never asks for units twice. The attempts are 1 to some n (`Lineage`); each asks for what was missing when it
was queued, and since then only the order of the leaf has executed (`AsksForMissing`, `OnlyLeafWorks`). A report that
covers every row shows the position as it is (`ReportTells`): that is what `RefreshFacts` needs to size the successor. What a router validated
still holds when it sends (`RouterCurrent`): the premise `OneDecider` is for this part (`Undisturbed`). Each abstract action is
matched by one lemma: `SendPursues`, `ExecutePursues`, `EndPursues`, `SyncPursues`, `QueuePursues`; `Stutters` covers the rest.

`StrategyControlProofs` proves `TypeCorrect`, `RolesReplayed` (`HeldAreReplayed`), `NotBackdated` and `ImplementsLifecycle`, the
refinement, for any strategies, changes and processes. Its invariant `Inv` ties each job to what it read: *as long as* a document
still has the revision the job carries, what the job is about to write follows from what is stored (`JobsFollow`). It is
an implication because a job may grow stale at any time, and it is what a commit needs, which goes on only under that premise. `LogMatches`
says that a pending change was scheduled and neither done nor withdrawn, `DaysPass` that the close of the allocation in force has passed.
`GenerationsGrow` is for the worker, whose calculation may be for an older membership: a report is never ahead of the members, so one that
equals the present generation covers it, and a later publication cannot take it back.

`PortfolioBaselineProofs` proves `TypeCorrect`, `ClosedPeriodsStay` (`FoldedUnchanged`), `CompactionIsNeutral`
(`CompactionKeepsBooks`) and `BaselineNeedsEvidence` (`NoBaselineOverConflict`), for any executions, orders, cutoffs and bounds. Beside the
types, `IInv` needs `Anchored` (what is recorded was executed), `FoldedClosed` (what was folded lies before its cutoff,
so that a recovery of the open period cannot touch it), `Looked` (no procedure goes on from rows that were blocked), `Forward` (no
compaction moves the cutoff back) and `HasLatest` (the query for the baseline in force has an answer).

`ManagementLoopProofs` proves `TypeCorrect`, `CurrentIsCurrent`, `CompletedInOrder` and `ValuedFresh`, for any number of sessions, month ends and
corrections. `Dated` puts the revisions in order (on record and read ≤ stored P&L ≤ inputs): equality of the outer two gives
`CurrentMeansCurrent`. `InOrder` says that the session in progress is the oldest one pending. `Fresh` says that no match is on record while the breaker is
open, which needs a breaker of more than one failure: `ValuedFresh` assumes `Threshold > 1`.

`LocalRecoveryProofs` proves `TypeCorrect` (with the exclusion of the control lock), `CommandsHonoured` and `BackoffKept` for every list
of services. Its invariant says that the flags the worker has read still hold while it has the lock, and that what cools is
on disk, and in memory once the worker has loaded the records: a crash loses no wait. `OrphansOnly` adds
`StoppedInv`: a stopped service is paused, or has its stop file, unless its start script is about to run, and the service in the worker's hands is not
paused. The scripts pause under the lock the worker holds for a repair, so neither can be overtaken by the other. Only the stop
file of the backup is written without it: a repair may launch the backup after that, and it ends at once (`Stays`).


Assumptions used: those named in the modules (`NumLegsAssumption`, `ApprovedAssumption`,
`ProcsAssumption`, `BudgetAssumption`, `AttemptsAssumption`, ...). TLC evaluates them in every run.

Only model-checked: everything eventual (`HealthyEventsSettle`, `FillsReachLedger`,
`InterruptedQueueRecovered`, `MarketDataArrives`, `BacklogDrains`, `LatestIsRevalued`, `StopEnds`, `ComesBack`): fairness and
ENABLED are out of the prover's reach.

## Findings

* `baseline_reset`: a reset of the books takes its cutoff from `checked_at`, at the head of the reconciliation, and its positions from the account
  snapshot taken later. An execution between the two that the same run merges is in the positions and after the cutoff, so
  the books count it twice (`reconciliation.py:115`, `reconciliation.py:371`, `live/pnl.py:107`).

## Known limits of the code

Met while modelling. The models do what the code does here, except for the failed save of the policy file; where a property
needs a limit not to be met, its premise says so.

* Expiry lists the legs to mark and then marks them; a router in another process can reserve one in between, and its order is sent although the leg
  is recorded as missed (`execution/window.py:64`; `README.md:173`: expired attempts "cannot be routed in place").
* The late outcome save of an older attempt by the script overwrites the row of a newer one and clears its management claim without broker evidence
  (`execution/fills.py:122`; `docs/trading-operations.md:37`).
* The last execution of an amended order, merged before sync has learnt the amended quantity, leaves the row partially filled (`execution/fills.py:102`).
* A submission that asks for another order type routes a copy of the proposal, and the newest-objective check, made for stored proposals only, is
  skipped (`portfolio/rebalance_intents.py:128`).
* The status `missed` is saved with the proposal and emits no event (`docs/postgres-transactional-store-design.md:64`: every such mutation commits with its event).
* Lineage and allocation are checked in validation and not again at the reservation (`execution/broker.py:366`, `:243`). A router of another process
  that has validated sends the proposal of an allocation that is handed over meanwhile (`docs/trading-allocations.md`: "old proposals cannot route after a switch").
* A queue write interrupted by a crash is recovered while nothing is pending. If another change is scheduled first, that proposal is never queued
  (`docs/trading-allocations.md`: "The worker recovers an interrupted queue write by proposal ID").
* An execution that happened before a compaction's cutoff and is merged after it is never counted. A reset whose cutoff is before that of
  a compaction of the same day is saved and does not take effect. A conflict in a closed period blocks its row without a recovery.
* With a breaker that opens on one failure a session can be valued on an older match. A probe of the monitor newer than the tick is dropped. A month-end
  session whose account was not observed on its date never completes, and holds up those behind it (the premise `Evidence`). A correction of the
  inputs of a session before the one valued last does not value it again (`live/management_service.py:719`).
* A stop of the platform pauses the repair of the recorder (`stop_market_data_recorder.ps1:8`); the next start launches the recorder and leaves
  the pause (`start_local_platform.ps1:297`, `:140`), so the worker does not repair it (`docs/robustness-review-2026-09-30.md:51`: "Normal starts
  resume that target"). Only its own start script lifts the pause. `ComesBack` does not claim it.
* A repair whose worker died or gave up on it can bring up a service that was stopped meanwhile (`docs/robustness-review-2026-09-30.md:50`).
  `services/recovery.py:124` waits for `PermissionError` where the lock raises `LockUnavailable`, an `OSError`: the short retry
  never happens, the next cycle comes after the ordinary wait. A start command that meets a worker on its way out succeeds and leaves none.
* Turning the policy off with a save that fails leaves it off in memory and on in the file (`live/auto_approval.py:134`).
* Events that always fail starve the ones behind them when they fill the batch or the time budget (`messaging/outbox.py`).

## Plan

Done: 1 OrderLedger; 2 EventOutbox with its contract; 3 RebalanceIntent with its objective; 4 StrategyControl with the life
of a change; 5 ManagementLoop; 6 LocalRecovery; 7 PortfolioBaseline; each with proofs.

Next, in this order:

1. That an approved objective is eventually reached or closed when the policy is on and the broker fills.
2. The policy file whose save fails, and the opening reset (`live/pnl_reset.py`).
3. The portfolio alignment of the loop; archive publication; FIFO lots as pure functions.

## Not modelled

* Arithmetic: lots, marks, rates, weights, sizing of targets, the matching of positions in reconciliation. The models keep what these
  decide (matched or not, counted or not, how much is missing) and take the value as given.
* Research, signals, backtests, LEAN runners and reports, by far the largest part of the source: numerical programs whose state does not outlive a run.
  Their correctness is not a question of order, and a model checker has nothing to say about floating-point series.
* Recorders, market data and lake: acquisition and bulk input and output. Archive publication is the part with an order to
  check and is on the plan.
* Web pages and schemas: presentation and static contracts. The endpoints that change state are actions of the modules above.
* The broker monitor's probe, event replay (read-only), execution benchmarks (measurement), alerts.
* The SQLite store: the offline test backend, with the contract of the Postgres store.

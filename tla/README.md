# PolyClaw in TLA+

PolyClaw scans Polymarket, turns signals into *decisions*, lets an operator approve them and
executes them: on paper, as shadow positions, or as live orders on the CTF exchange. This directory
models the part of it that moves money, the way from shadow mode to live trading, and the research
side that proposes trades and watches them; it checks the models with TLC and proves their main
invariants with TLAPS. Paths below are relative to the repository's root, and `polyclaw/` is the
Python package (`src/polyclaw/` in `PROJECT.json`).

| Module | What it is |
|---|---|
| `ExecutionService` | scan, approval, execution batches, kill switch, daily cap; sessions and transactions |
| `TradingDesk` | what that pipeline promises, without sessions |
| `ExecutionServiceDesk` | the refinement mapping from the first to the second |
| `ExecutionServiceProofs` | theorems for any number of batches, and for one at a time |
| `OrderLifecycle` | one live order: polling threads, late answers, cancel, restart |
| `OrderLifecycleProofs` | theorems about it |
| `Reconciliation` | comparison of three sources and the auto-close of drifting markets |
| `ReconciliationProofs` | theorems about it |
| `LiveSubmission` | sending live orders: nonce, gas, signature, retries, the breaker of live trading |
| `LiveSubmissionProofs` | theorems about it |
| `ShadowLedger` | shadow trades and results: opened, resolved by overlapping updates, reset, auto-closed |
| `LiveTransition` | the live flag, the stages and their gates, over `ShadowLedger` |
| `CircuitBreakers` | the global breaker and the breakers of the strategies |
| `GoLiveProofs` | theorems about these three |
| `MarketData` | thresholds and arithmetic that the research modules share |
| `Strategies` | the six strategies as operators on quotes and features |
| `SignalDesk` | a pass over a market: feature cache, strategies, proposals |
| `LLMClient` | the calls to the model and their rate limiter |
| `ReviewDesk` | ranking, evidence, persisted proposals, their statuses, materialisation |
| `Backtest` | the simulation over a history and the windows of a validation |
| `Monitoring` | anomaly detectors, alert routing, health |
| `ThresholdTuner` | the search for a confidence threshold |
| `BacktestProofs` | theorems about the simulation |
| `ResearchProofs` | theorems about the strategies, the feature cache, the limiter, monitoring, the tuner and the review desk |
| `SumProofs` | facts about sums over finite sets that the proofs share |
| `MC*.tla`, `MC*.cfg` | the instances TLC checks |

## 1. Inventory

For each component: its state, its operations, what is hard about it, and what makes it correct.

**Decision execution** (`services/execution.py`, `services/runner.py`, `repositories.py`, `db.py`).
State: rows of `decisions`, `orders`, `positions`, `shadow_positions`, `audit_logs`; per call the
local `daily_notional`, `consecutive_failures` and the uncommitted rows of its session.
Operations: `process_ready_decisions` (real and shadow lane), `approve`, `RunnerService.tick`.
Called by `POST /execute-ready`, `POST /runner/tick` and the CLI, each with a session of its own, on
a thread pool. Hard: overlapping batches, stale reads, one transaction around many rows with
external effects in the middle. Correct if: nothing unapproved is booked, a decision is
executed exactly when it is booked, once, within the daily cap, and not once the kill switch holds;
approved decisions are served.

**Analysis scan and risk engine** (`services/analysis.py`, `risk/engine.py`, `proposals.py`). State:
new `decisions` and `markets` rows, one commit at the end. Hard: exposure counts open positions
only, not the proposals already waiting. Correct if: an admitted proposal respects the limits of
`RISK_CONFIG.yaml` at the time it is admitted, and starts unapproved where approval is required.

**Kill switch and daily notional** (`safety.py`). State: the latest `kill_switch` audit row; the sum
of today's orders. Read by executions, written by the API and by failing batches. Hard: read once and
used for a whole batch; written inside a transaction that may be lost.

**CTF provider** (`providers/ctf.py`). State: the orders it persists in sessions of
its own; outside, the account's nonces and the chain. Operations: submit, query a fill, cancel, positions,
balances. Hard: a broadcast cannot be rolled back; answers are lost, late or stale; every transaction reads
its nonce from the node, without a lock. Correct if: no order is sent twice, and none is recorded that
was not sent.

**Order state machine and tracker** (`execution/state.py`, `execution/tracker.py`). State:
`order.status`, `_poll_tasks`, `_stop_events`, one daemon thread per polled order. Hard: threads
share an Order object and two dictionaries without a lock; a check takes up to two minutes. Correct
if: a status never claims what the chain did not do, one thread polls an order and can be stopped.

**Circuit breakers** (`safety.py`). State: process-wide `_circuit_state`, failure counters. Hard: lost
on restart, reset by timers, counted by several threads. Correct if: it trips when its counts say so,
and the counts are right.

**Reconciliation** (`reconciliation/`). State: reports, positions, closing orders. Hard: three sources
read at different times; each closing commits on its own and the next may fail. Correct if: no
position is closed without its order, no order is for a market without drift, and a report says
exactly what was done.

**Shadow mode and transition to live** (`shadow/`). State: `shadow_positions`, `shadow_results`, the
live flag. Operations: `process_shadow_signals`, `SignalAccuracyMonitor.update`, `POST /shadow/reset`,
`can_go_live`, `trigger_live`, `rollback`, `suggest_threshold`. Hard: gates checked by one call and used by
another; feeds that report a market twice, and updates that overlap; several results, one position and a query
without autoflush. Correct if: a result is resolved once, with its position and what it lost or earned, and the gates
mean that trades were resolved.

**Staged sizing and whitelist** (`execution/staged_size.py`, `execution/whitelist.py`). State: the
stage in `settings.shadow_stage`, the allowed markets. Hard: the stage is read twice and then written, by
two requests and a rollback. Correct if: no stage above the top, each after its gates, a raised stage stands for
evidence, a rollback sticks.

**Retry wrapper** (`execution/retry.py`). Sequential; a call that timed out may have had its effect.

**Order specification and price bands** (`execution/orders.py`, `execution/price_bands.py`),
**portfolio risk, sizing, clusters** (`risk/`): pure functions; numeric edges at the boundaries.

**Strategies** (`strategies/`). State: the registry and the cache of features. Six strategies: `compute_features`
asks a model, the news, the chain or other platforms and may take minutes; `generate_signals` judges a quote
by those features. Hard: a fresh quote and old features; thresholds repeated in each strategy; signs of sides.
Correct if: features are recent and a signal meets every threshold.

**LLM client, parser, prompts** (`llm/`). State: the limiter's timestamps, shared by the threads of the API without a
lock. Correct if: no more calls than the limit are let through in a window.

**Data sources** (`data/`, `providers/polymarket_gamma.py`): read-only clients.

**Ranking, evidence and review workflow** (`ranking.py`, `evidence.py`, `workflow.py`). State: `proposal_records`.
Operations: previews, persist, set a status, materialise as a decision. Hard: look up, then insert, by two requests
without a constraint. Correct if: a market has one active proposal.

**Backtest** (`backtest/`). State: positions, trades, the equity curve. Hard: several strategies, stale quotes,
markets that close, two places that close positions. Correct if: the books balance and nothing is held past its end.

**Monitoring and alerts** (`monitoring/`). State: the audit rows of alerts; it reads the tables. Hard: few samples,
channels that fail, an audit row before anybody is told. Correct if: an outlier is noticed and an alert recorded.

**Ingestion, signer and prerequisites, API and CLI, configuration**: see `PROJECT.json` for why each is
left out or how far it is covered.

How they interact: the runner calls the scan and then the executor; the executor calls the kill
switch, the daily sum, the provider and the repository in one session, and the provider opens
another; operators reach the same tables through the API; the tracker calls back into the provider
from its own threads; reconciliation and shadow accuracy write positions that the risk engine reads. A scan and the previews ask the strategies, whose features
come from the cache, the model's client and the data sources; the transition's gates read the shadow results,
the shadow positions and the global breaker; monitoring reads what all of them wrote.

## 2. What is modelled

### ExecutionService

A *session* is a database session of one request or tick: a member of `Batch` runs
`process_ready_decisions` again and again, a member of `Scanner` runs `scan`. The state has three
layers: committed rows (`status`, `requiresApproval`, `orders`, `positions`, `autoClosed`, `shadowPositions`,
`dayNotional`, `closings`, `killSwitch`), the process and the outside world (`shadowMode`, `broadcasts`, SQLite's
`writer` lock), and each session's locals (`pc`, `rows`, `dailySum`, `failures`) together with what it
wrote and has not committed (`wrote`, `wroteNotional`, `killRow`, `scanned`).

| Code | Model |
|---|---|
| `process_ready_decisions`, kill switch check and choice of lane | `BeginBatch` |
| the `execution_skip` row of a batch that found the switch on | `EndSkipped` |
| `_check_live_trading_allowed` raises | `LiveRefused` |
| the `select` of ready rows | `SelectRows` |
| `daily_executed_notional`, of executions and of closings | `ReadDailyNotional` |
| one turn of the loop | `SkipOverDailyCap`, `UnpricedRow`, `PaperRow`, `LiveBroadcast`, `LiveSubmitFails` |
| the provider's own commit, under the decision it finds by the market, and its failure | `LivePersist` with `Attached`, `LivePersistFails` |
| `record_order_and_position` after a live submission | `LiveRecord` (it always fails, see section 6) |
| the `except` branch and its counter | `Fail`, `LiveFailed` |
| one turn of the shadow loop | `ShadowRow` |
| the commit | `Commit` |
| `scan`: proposals, then its one commit | `ScanPropose`, `ScanCommit` |
| API requests | `Approve`, `SetKillSwitch`, `SetShadowMode` |
| `_submit_close_order` of reconciliation | `AutoClose` (step by step in `Reconciliation`) |

Steps are cut where another session can get in between: at every database statement that reads or
commits, and at every external call. A row of the loop is one step because a session's own writes are
invisible to the others until its commit. Locks matter and are modelled for both databases the
code supports: SQLite's single writer (`CanWrite`, `TakeLock`) and PostgreSQL's row locks (`RowFree`),
with the deadlock its row order allows (`DeadlockVictim`). The environment adds `NewDay`, `Crash`
and prices that leave (0, 1].

Abstractions: a stake is a small number; a proposal is an id with an event and a stake; signals,
confidence and evidence are left out, so `ScanPropose` admits any set that `RiskAllows` accepts.
Shadow positions do not count as exposure in the model although they do in the code until they are
closed: the scan may propose nothing at any time, so the model has the behaviours of both.

The day's notional is kept in two parts, `dayNotional` (what executions submitted) and `closings` (what reconciliation
closed): executions add both up before their loop, but only what they submit themselves is theirs to keep within the cap.

### OrderLifecycle

One order, the thread that owns its session, and the `Poller` threads, each together with the call that starts it. The tracker's two dictionaries
become `tasks` and `events` (the entry of this order, `None` if absent); `status` is the attribute of
the shared Order object, `row` the database column. A check is two steps, the query (`OwnerQuery`,
`PollerQuery`) and the assignment of its `answer`, since up to two minutes lie between them.
A poll thread has a session of its own, but the object belongs to the owner's session: what the
thread assigns reaches `row` only with an owner's commit. Cancelling is `CancelBegins`, `CancelSends`,
`CancelValidates`, `CancelMarks`: the transaction goes out before the transition is validated.
`start_background_poll` is three steps of any thread, the look into `_poll_tasks` (`StartChecks`), the stop event
(`StartSetsEvent`) and the thread with its entry (`StartRuns`): no lock keeps two starts apart. `overlapped` is history
that says when two of them met, until the threads they started have given their entries back. `Restart`
forgets threads and dictionaries and reloads the row.

Abstractions: sizes and prices of fills follow the status and are not kept; `poll_loop` is a
repetition of the owner's check; `on_update` callbacks are swallowed by the code and left out.

### Reconciliation

The tables are `position` (for each row absent, open, closed by reconciliation, reset by the shadow
reset) and `orders` (the closing orders of a market); a member of `Run` is a
`POST /reconciliation/run` with a session of its own, whose locals are `snapshot` (`system_positions`), `items`
(discrepancies of each market still to be closed), `served`, `made` and `count` (`closed_count`).
`drifting`, `served` and `made` are history kept for the properties.

| Code | Model |
|---|---|
| the first audit row of `reconcile` | `Begin` |
| `get_system_positions` | `FetchSystem` |
| the other two sources, `DiscrepancyDetector`, the alert, `should_auto_close` | `Detect` |
| one turn of `_auto_close`: `_submit_close_order` with its commit | `Close`, `CloseRefused` |
| the audit row after it, `closed_count` | `LogClose` |
| the report and its commit | `Finish` |
| the last audit row and the answer | `Report` |
| no lock within SQLite's five seconds | `LockTimeout` |
| `record_order_and_position`, `POST /shadow/reset` in other sessions | `Opens`, `ShadowReset` |

The API and the chain report any notional of `Values`, or `Missing`, for any market: a source that
does not answer is an empty dictionary in the code, whose availability flag `reconcile` ignores. The
dictionary by market keeps one of several open positions, in no order the code fixes, so
`FetchSystem` takes any. Items come from a Python set of markets, so the model closes them in any order. The
row `reconciliation_complete` is logged after the last commit and never committed.
`total_drift_usd` adds up pairs of sources, so one wrong source counts twice: this is `Drift`, and
why the threshold is passed at about half the real drift.
On PostgreSQL the closing order violates its foreign key (`decision_id_fk = 0`) and the `except` branch
logs in the failed session, which raises: the first closing ends the run.

Abstractions: notionals are integers; sides, prices and quantities are left out, and so is the category
of a discrepancy, which only reaches messages.

### LiveSubmission

A member of `Submission` is one call of `submit_order_obj`, on a thread of its own; `pc` is where it is,
`nonce`, `fee`, `attempts` its locals. The node is `pool` (for each nonce of the account the transaction
it holds) and `mined`; it takes a transaction at the next nonce, or in place of a cheaper one that is
not mined. `tripped`, `sendFailures` and `rpcErrors` are the breaker's attributes. `accepted` and `errorLog`
are history.

| Code | Model |
|---|---|
| `_get_existing_order`; the breaker is asked | `Lookup`, `CheckAndAllow` |
| `_get_nonce`, `_get_gas_params`, `sign_transaction`, or their failure | `GetNonce`, `GetGas`, `Sign` |
| an attempt of `_rpc_call("eth_sendRawTransaction")`: hash, no hash, retried, raised | `SendOk`, `SendEmpty`, `SendRetries`, `SendFails` |
| `record_rpc_error` | `RpcErrorAppended`, `RpcErrorsPruned`, `RpcErrorsChecked` |
| `record_send_failure` and the check for signing errors | `SendFailureCounted`, `SendFailuresChecked` |
| `record_send_success` | `SendSucceeded` |
| `_persist_order_result` | `Persist`, `PersistFails` |

An attempt reaches the node or not, whatever the thread is told. Inside the breaker a step ends where the
interpreter may switch threads, at a call or the end of a loop turn: the counter's increment is one step and
the check, after a log line, another; the list of errors is replaced by a comprehension during which another
thread may have replaced it already (`iterating`). The list is kept as the number of errors at each time.

Abstractions: prices and sizes of the order are left out, the node's rule for a replacement (a tenth
dearer) is "dearer", the attempts of calls that only read are one step. Whether an exception's text
mentions signing, which triggers the breaker, is arbitrary. Cancels send transactions of the same account
by the same steps; they belong to `OrderLifecycle` and do not compete for nonces here. `ExecutionService` has the same call as one
`LiveBroadcast`, `LiveSubmitFails`, `LivePersist`; here a failed submission may have reached the node too.

### ShadowLedger and LiveTransition

`ShadowLedger` gives ids to shadow trades in order: `trade` is what was signalled, `isOpen` its row in
`shadow_positions`, `outcome`, `accurate`, `resolvedAt` and `pnl` its row in `shadow_results`; `day` is the calendar. `update`
holds the locals of each session that resolves a market (`Updater`).

| Code | Model |
|---|---|
| `process_shadow_signals`, with the fill price | `ProcessSignals`, `FillPrice` |
| `SignalAccuracyMonitor.update`: the unresolved results, one query for a position per result, the commit | `FindUnresolved`, `FindPosition`, `CommitUpdate` |
| an update that raises; the process dies | `UpdateFails`, `UpdatesLost` |
| `POST /shadow/reset` | `ShadowReset` |
| `_submit_close_order`, which does not ask for `is_shadow` | `ReconciliationCloses` |
| `get_accuracy` | `AccuracyAbove` |
| `can_go_live`, `can_advance` | `CanGoLive`, `CanAdvance` |
| `trigger_live`, `rollback` of the manager | `TriggerLive`, `LiveRollback` |
| `advance`: the gates, the second `get_stage`, the write | `AdvanceChecks`, `AdvanceReads`, `AdvanceWrites` |
| `rollback` of the sizer; the process restarts | `StageRollback`, `RestartProcess` |

What the code does, and the properties have to allow for:

- `update` writes what it read, whoever has committed meanwhile: two updates of a market that overlap both resolve its
  results, and the later commit stands. `overlapped` is history: the markets of which this is so, until the last of
  these updates ends (`ResolvedOnce`).
- `SessionLocal` has autoflush off, so the open position found for each result of a market is the same row, unless
  somebody else closes it between two queries: an update closes at most as many positions as it resolves results
  (`UpdatesCloseNoMore`), and often fewer; the rest stays open.
- `update` writes a pnl only for a correct prediction. A wrong one keeps what it had.
- The yes and the no price of a snapshot are parsed independently, and `FillPrice` takes both.
- `can_advance` counts a resolved signal and its position as two paper trades (`StageHasEvidence` halves them), and
  never looks at the drift that its class names as a gate: no drift is in the model.
- `trigger_live` looks at no gate: `TriggerLive` has no guard but the flag.
- An advance that passed its gates before a rollback undoes it. `earned`, `overtaken` and `undone` are history
  that says when this is the case (`RollbackSticks`).

The rows of `trading_stage_records` are a log nothing reads; they, and the commit after the write of the stage, are left out.

### CircuitBreakers

`halt` is the global breaker's reason, `triggered`, `trippedAt` and `review` a strategy's state, in hours; a
check is told any drawdown, spending, latency and order counts. A strategy's check begins with the automatic reset, which
clears the trip and the review flag, keeps the time of the trip, and then goes on to the conditions (`StrategyCheck`). A
reset by hand sets the review flag after clearing the rest (`StrategyReset`). `actor` is history: whether the last step was the
code's, an operator's or a restart.

### Strategies, SignalDesk, LLMClient, ReviewDesk

`Strategies` holds the six strategies as operators that return a set of at most one signal. Prices, probabilities,
confidences and edges are in 1/10000, `int()` is `Trunc`. Keywords of a title become the quote's `category` and
`sentiment`; a model's answer, the news, holdings on the chain and listings on other platforms are inputs, of which
`Parsed`, `Blended`, `Votes` and `Matches` make what the code makes of them.

In `SignalDesk` a `Reader` is a thread in a scan or preview: `Begin` brings a fresh quote, `Hit` or `Miss` asks the cache,
`Compute` stores features under the time they were finished, `Breaks` is the sentiment that is no number and raises. What
it says is kept in `pass` with the features it was said by.

In `LLMClient` a thread's `acquire` is cut where another may run: `Prune` builds the list, `Install` stores it,
`Check` counts, `AppendStamp` adds. The list is kept as the number of timestamps of each time: nothing in the code
looks at their order. A call has `Attempts` attempts, one token each. `unshared` counts the time since two
threads were last in `acquire` together.

In `ReviewDesk` a `Client` is a request with its own session: `PersistBegins` ranks the day's markets, `PersistNext`
looks one up and adds a row, `PersistCommits` makes them visible, `RequestFails` loses them. `SetStatus` accepts any
status in any order, as the code does. `Materialize` turns a preview into a decision, again if asked again, and leaves
an existing market row alone. `excused` holds the markets of which two proposals were added by requests
that did not see each other, until that is cleared up.

### Backtest, Monitoring, ThresholdTuner

`Backtest` generates the history as it is consumed: `NextTimestamp` brings new quotes for some markets, then each
strategy in turn visits the markets in order of appearance (`VisitHeld`, `VisitIdle`, `VisitSignal`) and sweeps the open
positions (`Sweep`); `Record` adds to the equity curve. A strategy is any choice of signals, `RiskCheck` is the code's. Kept
as the code has it: a market that quotes no more is traded on its last quote; an exit is stamped with the quote's
time and so may precede its entry; a resolved market pays its yes price to either side; what is left at the end is closed at 0.5,
where the comment at `backtest/runner.py:170` says the last known price.

`Monitoring` has the daily sums of orders, the one row a market has, and the run of the detectors as steps (`DetectSpike`,
`SendCritical`, `DetectInMarkets`), since the alert commits its audit row before it is sent and each channel may
fail. Deviations are compared squared, in whole numbers. A run repeats the alert of the run before it.
As a market has one row, its average is its latest reading and `MarketAlarms` is always empty (section 6).

`ThresholdTuner` runs the bisection over a table of closed shadow trades, probabilities in multiples of 1/`Pow[Halvings]`
(2^20 in the code), with `Grain` for the rounding to 1e-4. The table and the target are chosen at the start.

### Variants

The modules contain a few definitions marked *Variant*. They are not part of the
specification: each is a plausible mistake in the definition after it, and is used to see that
the properties would notice it (`PROJECT.json`, "mutants").

## 3. What is checked

| Run | Instance | Shows |
|---|---|---|
| `exec_serial` | 1 batch, 1 scan, 3 decisions on 2 events, room in the cap for 2, 1 crash, 1 closing; paper on SQLite with approval, paper on PostgreSQL without | `DailyCap`, `BookedAtMostOnce`, `ApprovedIsServed`, and `KeepsTheDesk`: the tables implement `TradingDesk` |
| `exec_concurrent` | 2 batches, 1 scan, 2 decisions, room for 1, 1 crash; paper and live, both databases | `TypeOK`, `ExecutedIffBooked`, `NothingUnapproved`, `BatchSpendWithinCap`, `KillSwitchHolds`, `FailureLimitHalts` |
| `kill_switch_in_flight` | as `exec_serial`, without closings | a violation, see section 6 |
| `order_under_unapproved` | as `exec_concurrent`, with 1 batch and no crash | a violation |
| `live_resubmission` | 1 batch, 1 decision, live, PostgreSQL | a violation |
| `order_lifecycle` | the owner and 2 threads | `TypeOK`, `OutcomeIsReal`, `CancelingIsSent`, `SinglePoller`, `PollEnds` |
| `two_pollers` | the same | a violation |
| `reconciliation` | 2 overlapping runs, 3 positions (1 shadow) on 2 markets, 1 crash, both databases | `TypeOK`, `EveryCloseIsOrdered`, `CountIsExact`, `ReportIsComplete`, `RunEnds` |
| `closed_twice` | the same | a violation |
| `live_submission` | 2 submissions of one id, 2 gas prices, limits of 2, window and time of 1, 1 restart | `TypeOK`, `OneTransactionPerSubmission`, `PersistedIsAccepted`, `TripIsDeserved`, `FailuresTrip`, `SubmissionEnds` |
| `go_live` | books of 3 trades in a market or 2 in two, 2 updates, 2 days; stages and gates over 2 trades and 2 sessions; breakers of 2 strategies over 5 hours | `TypeOK`, `StageHasEvidence`, `RollbackSticks`, `ResolvedOnce`, `UpdatesCloseNoMore`, `AutoResetIsLate` |
| `research` | the six research components, one at a time | `BooksBalance`, `NothingOutlivesItsMarket`, `FeaturesAreRecent`, `CallsWithinLimit`, `AlertsAreAudited`, `ThresholdReachesTarget`, `OneActiveProposal` |

`MCGoLive` and `MCResearch` check several instances in one run: `part` chooses one at the start, and the
variables of the others stay as they are. The components share no variable, so nothing is lost.

*Why one batch at a time in `exec_serial`.* Two overlapping batches do book a decision twice and do
exceed the daily cap: both read their rows and the day's sum before the first lock. The code has no guard against
it; it is written for a single runner. So these three properties are stated for
one batch only. What survives overlap is in `exec_concurrent`:
all-or-nothing per decision, approval, the cap on the sum each batch keeps, the kill switch for real batches
that begin after it, the failure limit.

*Bounds.* `MaxDecisions`, `MaxCrashes` and `MaxBroadcasts` bound the ids, the lost batches and the
transactions per decision; everything else is finite by itself. Two decisions are
enough for an order of rows to matter and for the cap to accept one and refuse the other, three for a
cap that splits a batch and for two events. Two batches show every pairwise interleaving and the
lock cycle. `MaxConsecutiveFailures = 2` with two decisions reaches the limit. A second
poll thread is enough for a start that meets another thread's cleanup or another start. In `reconciliation` the position of a market is worth 4 and a source may say 3, 5 or
nothing, with tolerance 1: a market has zero to three discrepancies, and the total drift lies on
both sides of the threshold 5. One market has two open positions, so that the second
item of a run closes another position than the first. In `live_submission` the limits 3, 5 and 3 of the code are 2:
enough for a limit to be reached by one thread alone, by both together, or missed by one. Two times and a window of 1 let
an error leave the window. A single submission can record two errors, so that a list replaced late meets a newer one. 
In `go_live` three trades of a market are the fewest with which an update leaves a position open, a signal comes between its
queries, and a later update meets what is left; two updates overlap, on one market or on two. The stages run over two trades and one
update at a time, with the stage at 2 of 4, so that two sessions meet the top and a rollback has something to undo (`MaxEarned` 4 bounds the
checks since then); windows of 0 days let results leave them on the next day; a trip lasts two hours of five, so that a second
trip and its own reset fit in. The live flag, which no other action reads, is moved along with the breakers.
In `research` the backtest has 2 strategies, 2 markets and timestamps 1 and 8, a
holding period apart, with markets that close at 8 or never, and `MaxExposure` 6000 with stakes of up to 5000; the desk has 2
threads, 4 times, a lifetime of 1 and a registry with the two strategies that are always registered, the model's and one other; the
limiter 2 threads, 2 calls in 2 ticks; monitoring up to 11 days of orders starting after 9 or 10 of them, because the first spike
is possible on the eleventh; the tuner every table of 3 rows of 6 kinds, 4 halvings and a grain of 3; the
review 2 requests, 2 markets a day and 2 proposals.

Symmetry is used in runs without liveness only, on batches, sessions, markets, strategies, threads and clients.

*Fairness.* `FairSpec` says that an execution which has begun proceeds, and that a session waiting for a lock gets it in the
end (strong fairness of `BatchStep`, because another session may take the lock in between); a scan that wrote its
proposals commits. Nobody is made to begin one: `tick` executes only with `auto_execute`, which is off by default, and
only if the scan before it did not raise. So `ApprovedIsServed` is conditional: it speaks of the runs in which executions keep
being begun (`ExecutionsKeepComing`), by a scheduler or an operator. Approvals, the kill switch, midnight, crashes, closings and
bad prices are not fair. `ApprovedIsServed` names the three excuses the code has: the kill switch, no room under the cap, and
an approved decision whose quote is outside (0, 1], which raises out of the loop. In `OrderLifecycle` a running thread goes on, and the time limit of its loop is reached some
day even if every check leaves it in the loop (`SF(PollerEnds)`). Nothing is assumed of the owner or the chain.
In `Reconciliation` a request that has begun goes on (`WF(RunStep)`): it gets the lock or times out. Nobody is
made to begin one.

In `LiveSubmission` a submission that has begun goes on, since every call has a timeout.

The modules of `go_live` and `research` claim no liveness: nothing in the code schedules them.

Deadlock is checked in every run but `live_submission`, where the submissions are finite and may all be over.

## 4. What is proved

All theorems hold for any constants that satisfy the assumptions named in the modules
(`BoundsAssumption`, `SessionAssumption`, `DeploymentAssumption`, `ThreadAssumption`, `PositionAssumption`, `RunAssumption`,
`DriftAssumption`, `DatabaseAssumption`, `SubmissionAssumption`, `BreakerAssumption`, `LedgerAssumption`,
`TransitionAssumption`, `MarketAssumption`, `DeskAssumption`, `TunerAssumption`, `LimiterAssumption`, `ReviewAssumption`,
`MonitoringAssumption`, `BacktestAssumption`): any number of
decisions, batches, scans, threads, markets and submissions, any stakes and limits. TLC evaluates these assumptions.

*`ExecutionServiceProofs`.* `TypeCorrect`. Then `Inv`, which adds to `TypeOK` and `ExecutedIffBooked`

- `FreshIds`: what a scan has inserted but not committed is absent from the tables, is
  not shared with another scan, and ids at or past `nextId` are unused. Without it, a scan's commit could reset a booked decision.
- `InvolvedIsCleared`: a decision some session holds, or that left an order, a position or a
  broadcast, exists and is approved where approval is required. Without it, a batch that
  selected its rows could book what an earlier state says nothing about.
- `InFlightIsLive`: only live mode has orders in flight, so paper orders and positions stay equal.

From it follow `ExecutedIffBookedAlways` and `NothingUnapprovedAlways`. The latter is about positions and broadcasts: an order row
may name a decision that is not the one it was sent for (section 6). `KillSwitchAlwaysHolds` is an
action property: with the switch on and no batch in the real lane, only a skipped batch or one of the shadow lane can move, and these touch
neither orders nor positions nor the chain. `BatchSpendAlwaysWithinCap` has its own invariant, `SpendInv`: what a batch wrote is part of its running sum, that
sum is within the cap once it has written anything, and nothing is written before its loop. `FailureLimitAlwaysHalts` rests on `HaltInv`: a batch whose failures have reached the limit is at its commit, and
its kill switch row is there, be it the latest or superseded by another session's. Without it, such a batch might go on to the next row.

Under `OneAtATime` (at most one member of `Batch`; any number of
scans): `SerialInv` says that during the loop committed plus uncommitted notional is at most the
running sum, and that rows still to visit and rows written are still proposed. It gives `DailyCapAlways`,
`BookedAtMostOnceAlways` and, step by step, `KeepsTheDeskAlways`: the
specification implements `TradingDesk`, in paper, shadow and live mode.

*`OrderLifecycleProofs`.* `OrderTypeCorrect`; `OutcomeIsAlwaysReal`, where the invariant adds that an
answer still to be assigned is already true and stays so, since receipts are final;
`CancelingIsAlwaysSent`; `SinglePollerAlways`, where the invariant is that, unless starts have overlapped, one thread at most is
between its start's check and the pop of its task, and that a thread that runs or has yet to pop holds the order's entry. The
three steps of a start keep it, because a check finds the entry of every thread but one whose start is still under way, which is an overlap.

*`ReconciliationProofs`.* `ReconciliationTypeCorrect`. `EveryCloseIsOrderedAlways` is inductive by itself: a
closing adds at most one position to a market and exactly one order. `ReportInv` relates the three
counts of a run: between a commit and its audit row it has made one order more than it counted,
otherwise as many; and the markets still to close together with those served are the drifting ones, while no
item is left at the report. It gives `CountIsAlwaysExact` and `ReportIsAlwaysComplete`.
`NeverOneDiscrepancy` is about the detector alone: where any difference counts, two of three
pairs differ as soon as one does, so no market ever gets a single closing order. This is the
cause of the finding `closed_twice`, for every value.

*`LiveSubmissionProofs`.* `SubmissionTypeCorrect`; its bound on attempts needs `AttemptsLeft`: who is about to
send has an attempt left. `SendInv` follows a submission: nothing is accepted before it sends, its
nonce alone while it sends, something once it has a hash. It gives `OneTransactionAlways` and
`PersistedIsAlwaysAccepted`. `FailuresAlwaysTrip` is inductive with the types. `TripAlwaysDeserved` needs `ErrorsRecorded`: at no time
does the shared list, or the list a thread is still replacing it by, hold more errors than happened then; and `CountedIsPruned`: while a
thread is about to count, nothing older than the window is in the list. What a list replaced late loses makes the count too low, never too high. That later errors do not take the evidence back is a sum over a larger log.

*`GoLiveProofs`.* `LiveTypeCorrect`: that no stage above the top is written needs that a session about to write has read one
below it. `RollbacksStick` needs `Earning`: the stage, together with the sessions of `Pending` (past
their gates and not overtaken by a rollback), is at most `earned`, and the same holds of the stage any of them has read; a write adds one to what
was read and takes one session out of `Pending`. `StagesStandForEvidence` needs `EvidenceInv`: a session past its gates and a
raised stage have a resolved trade and enough of all trades behind them, which no later step takes back, overlapping updates included.

The other two are action properties of the books. `Found`, a part of the type invariant, says that an update's results and
positions are of its market and that the positions it holds and those it may still find are no more than the results it found. `Alone` says that
the results found by an update of a market that is not `overlapped` are still unresolved, and that no other is under way there. From `Alone`
follows `NoSecondResolution`; with `Found` it gives `UpdatesTakeNoPosition`, which counts the results and positions that a commit removes.
`BreakersResetLate` goes through the steps of `CircuitBreakers`.

*`ResearchProofs`.* `ThresholdReached` from `Searching`: the bracket is exactly `Pow[left]` wide, its upper end reaches the target
and its lower end misses it. Monotone accuracy is not needed. `FeaturesRecent` from `Recently`: an entry of the cache, and a
pass on its way, carries the time its quote was taken and the time computing took. `SignalsMeetThresholds` and
`VotesOnlyConfirm` are about operators, for every quote and every input. `MomentumSaysNoBelowYes`: the probability that the
liquidity momentum strategy gives the no side is used as that of yes when the edge is taken, so that a no signal takes two prices that
leave a tenth of a dollar unexplained; with prices that add up to one it never comes.

`AlertsAlwaysAudited`: with ten days or fewer no spike is possible, because an outlier among n values is at most (n - 1) / sqrt(n) sample deviations from their
mean (`Outlier` in `SumProofs`, from Cauchy's inequality); and an alert is counted in the audit log before a channel is asked, wherever a run breaks off. `CallsLimited` from `Limited`: since two threads were last in `acquire` together, at most one is in it; every call let
through since then still has its timestamp in the list, and in the list about to be stored; and who is about to
append has found less than the limit. `OneProposal` from `Clerks`, `Rows` and `Unexcused`: a request carries proposals of distinct markets, each looked up
before it was added, and a market that is not excused has at most one proposal, active or on its way in an open request, never both. The invariant speaks of
what is not committed yet, because a commit makes rows visible without looking again.

*`BacktestProofs`.* `Inv` has five parts. `Running`: positions are of markets that have been seen, and those have quotes.
`WithinLimits`: open positions are of distinct markets and their stakes fit in `MaxExposure`. `Swept`: when a timestamp is recorded, no open position is in a
market that is over or was held for `MaxHolding` at its last quote. `Booked`: the trades are of distinct positions, exactly those that are
closed, and the last point of the curve is the sum of the first `counted` trades. `Settled`: between timestamps `counted` is all of them, and the end leaves
nothing open. They give `PositionsEnd` and `CurveIsTrades`. A sweep closes a set of positions in the order they were opened (`Nth`); `NthCounts` shows
that this order is a bijection, from which the one trade for each position follows.

*`SumProofs`.* A sum in the models is a fold over a set, which is a recursive function in the library. Induction with an operator as parameter is out of
reach, so it is stated for a set instead: `Induction` (a set of naturals with 0 and closed under successor) follows from the
well-foundedness of < on the naturals by a least counterexample, `SetInduction` from it by cardinality. From it follow that the
fold exists, its value for one element more or less, for a union, and its monotony, then `Cauchy` and `Outlier`. They serve the sums over errors in a
window, results, trades, stakes, timestamps and orders.

*Only model-checked.* `ApprovedIsServed`, `PollEnds`, `RunEnds` and `SubmissionEnds`: liveness under fairness, and the ENABLED in it, are outside
the prover's reach. Every other property of a passing run is stated by a theorem.

## 5. Plan

Done: execution with its refinement, orders, reconciliation, live submission, the transition to live trading with its books and
breakers, and the research side.

Candidates for more:

1. Price bands, portfolio caps, clusters and the slippage model as operators against reference definitions over bounded inputs.
2. The whitelist and the checkpoints of the backfill.
3. More theorems about operators: that ranking permutes its candidates in the order of their scores, what an exit of the backtest pays, that the
   sizes of a stage grow with it; and the types of the research components as theorems of their own.

A violation run is added only where a statement of the repository turns out not to hold.

## 6. Findings

- **Kill switch** (`kill_switch_in_flight`). `docs/runbook.md:227` says "All new order submissions are
  blocked at the execution layer". The switch is read once per batch (`services/execution.py:37`);
  a batch past that read goes on submitting. `KillSwitchHolds` states what does hold.
- **Live resubmission** (`live_resubmission`). The provider persists the live order under a
  fresh `client_order_id`; `record_order_and_position` inserts the same id, violates the unique
  constraint and loses the batch; the next tick sends the order again. `polyclaw/tests/test_idempotency.py:122`
  says `submit_order()` is idempotent.
- **Order under another decision** (`order_under_unapproved`). The provider attaches an order to the newest proposed decision of
  the market (`providers/ctf.py:843`), approved or not, while `README.md:181` says "every decision requires manual approval". What does
  hold is `NothingUnapproved`: no position and no transaction.
- **Two pollers** (`two_pollers`). `start_background_poll` refuses a second start of an order, but looks at line 190 and enters
  its thread at line 226 of `execution/tracker.py`, without a lock. `SinglePoller` states what holds.
- **Two closings of a market** (`closed_twice`). `reconciliation/service.py:327` says "For each market with
  drift, submits a closing order of equal size"; the loop at line 338 is over discrepancies, and a market
  has one for each pair of sources that differ. The second order closes another position of the market, or none.

Further disagreements of the code with what the repository says of it. Most follow from a line or two; they are built into the
models as the code has them, and have no run of their own; no property that is checked denies or hides them.

- *Shadow mode under the kill switch.* `docs/runbook.md:230` says "Shadow mode continues"; the switch is looked at before the
  lane is chosen (`services/execution.py:37`), and the batch ends in `EndSkipped`. `KillSwitchHolds` demands nothing of the shadow lane.
- *Terminal states.* `execution/state.py:56` calls `FILLED` a terminal state; `poll_order` assigns whatever the check returned
  (`execution/tracker.py:87`, `OwnerWrite`), also over a terminal status.
- *A poller that cannot be stopped.* A thread that ends pops its task and then its stop event (`execution/tracker.py:223`, `PopTask`,
  `PopEvent`); a poller started in between loses its own event, and `stop_background_poll` cannot reach it.
- *Positions left open.* `shadow/accuracy.py:92` says "Mark corresponding shadow position as resolved"; without autoflush one
  position is closed for all the results of an update (`FindPosition`).
- *Losses that are not booked.* `polyclaw/tests/test_shadow_accuracy.py:141`, `polyclaw/tests/test_pnl.py:162` and `calculate_pnl` of
  `shadow/mode.py` (line 112) give a failed prediction a loss; `update` leaves its pnl as it is (`PnlOf`), so the curve never falls.
- *Live without gates.* `shadow/transition.py:43` says "Validates all gate criteria before allowing live trading";
  `trigger_live` calls none (`TriggerLive`).
- *The drift gate.* `execution/staged_size.py:70` and `:111` name "No critical drift" among the gates of a stage; `can_advance`
  does not look at it (`CanAdvance`).
- *The manual review.* `safety.py:231` says "Auto-reset: after 24h (configurable) + manual review required", line 262 the same; the call
  after it clears the trip and the review (`StrategyCheck`). `AutoResetIsLate` states what holds: not before its hours.
- *A halt that is lost.* `safety.py:98` says "only manual reset is supported"; a restart resets the global breaker (`BreakersRestart`).
- *Market outliers.* `monitoring/anomaly.py:45` promises outliers against a 30-day window, and `polyclaw/tests/test_anomaly.py:131` a
  warning above three times the average; a market has one row, which `upsert_market` overwrites, so that its average is its latest reading.

Met while modelling, where nothing in the repository says otherwise: a momentum strategy that hardly ever says no
(section 4); the final close of a backtest at 0.5; a suggestion that, rounded, may lie below the threshold that was found and
admit what it kept out.

## 7. Not modelled

- Portfolio risk, sizing and clusters, price bands, the whitelist: pure checks, the first without a caller.
- Ingestion: backfill of history for backtests, outside the trading path.
- Rendering: reports, the daily pnl and equity curve they sum up from the shadow results, metrics, the daily report, attribution, payloads of alerts, the CLI.
- Of the backtest: Sharpe ratio, win rate, the verdict of a validation, and the slippage model, which the runner does not call.
- Of the data sources: HTTP, parsing of feeds, similarity of titles; their results are inputs.
- Of the model's client: prompts, extraction of JSON, the count of tokens; the stored estimates have no caller.
- Partial fills: the fill query never reports one. The IOC branch of the provider has no caller.
- Float rounding: stakes, limits and prices are integers in the models.
- That several proposals may pass the exposure limits together: the risk engine counts open positions only, and
  no bound on what waits is promised anywhere.
- That two submissions may take the same nonce: modelled in `LiveSubmission`, but the program keeps nothing it could contradict.

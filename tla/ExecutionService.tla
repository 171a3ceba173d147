-------------------------- MODULE ExecutionService --------------------------
(***************************************************************************)
(* The decision pipeline of PolyClaw: AnalysisService.scan creates         *)
(* decisions that RiskEngine admits, an operator approves them, and        *)
(* ExecutionService.process_ready_decisions turns the approved ones into   *)
(* orders and positions (or shadow positions).                             *)
(*                                                                         *)
(* Every HTTP request and every CLI tick has its own database session, and *)
(* FastAPI runs synchronous handlers on a thread pool, so several          *)
(* executions ("batches") and scans may overlap.  What a session wrote is  *)
(* invisible to the others until its commit; what it read may be stale by  *)
(* then.  On SQLite the first write of a session takes the database's only *)
(* write lock until commit or rollback; on PostgreSQL an update waits only *)
(* for another session that has the same row.                              *)
(*                                                                         *)
(* A definition commented "Variant" is no part of the model: it is a       *)
(* mistake the code might have made, kept next to the definition it would  *)
(* replace, to see that the properties notice.                             *)
(***************************************************************************)
EXTENDS Integers, FiniteSets, FiniteSetsExt

CONSTANTS
  MaxDecisions,       \* bound on the decisions ever created (ids 1..MaxDecisions)
  StakeOf,            \* stake_usd of each decision
  MarketOf,           \* market of each decision
  EventOf,            \* event_key of each market
  Batch,              \* sessions that run process_ready_decisions
  Scanner,            \* sessions that run AnalysisService.scan
  NoSession,          \* nobody holds SQLite's write lock
  Deployments,        \* the [execution_mode, database, require_approval] settings considered
  MaxPositionUsd, MaxTotalExposureUsd, MaxDailyLossUsd,
  MaxConsecutiveFailures,
  MayLosePrice,       \* decisions whose market may be quoted outside (0, 1]
  MaxCrashes,         \* bound on batches lost half-way
  MaxBroadcasts,      \* bound on transactions sent for one decision
  MaxClosings         \* bound on the notional that reconciliation closes in a day

Decision == 1 .. MaxDecisions
Session  == Batch \cup Scanner

ASSUME BoundsAssumption ==
  /\ MaxDecisions \in Nat /\ MaxCrashes \in Nat /\ MaxBroadcasts \in Nat
  /\ MaxClosings \in Nat
  /\ MaxPositionUsd \in Nat /\ MaxTotalExposureUsd \in Nat /\ MaxDailyLossUsd \in Nat
  /\ MaxConsecutiveFailures \in Nat \ {0}
  /\ StakeOf \in [Decision -> Nat \ {0}]
  /\ MayLosePrice \subseteq Decision

ASSUME SessionAssumption ==
  /\ Batch \cap Scanner = {}
  /\ NoSession \notin Session

ASSUME DeploymentAssumption ==
  Deployments \subseteq [execution_mode : {"paper", "live"},
                         database : {"sqlite", "postgresql"},
                         require_approval : BOOLEAN]

VARIABLES
  \* committed rows, visible to every session
  status,             \* decisions.status, or "absent" before the row exists
  requiresApproval,   \* decisions.requires_approval
  unpriced,           \* decisions whose market price is outside (0, 1]
  orders,             \* committed orders that name each decision
  positions,          \* committed positions of each decision
  autoClosed,         \* how many of those reconciliation has closed
  shadowPositions,    \* committed shadow positions of each decision, open or closed
  dayNotional,        \* notional of the orders that executions submitted today
  closings,           \* notional of the orders by which reconciliation closed positions today
  killSwitch,         \* result of the latest kill_switch audit row
  \* the process and the outside world
  settings,           \* the deployment's settings
  shadowMode,         \* settings.shadow_mode_enabled, switched by the API
  broadcasts,         \* transactions sent to the chain for each decision
  writer,             \* the holder of SQLite's write lock
  crashes,
  \* the local state of each batch
  pc,
  rows,               \* the rows still to visit
  unpricedRows,       \* those whose price was unusable when the rows were read
  cur,                \* live mode: the decision whose order is in flight
  dailySum,           \* the local variable daily_notional
  failures,
  wrote,              \* decisions this session has executed, uncommitted
  wroteNotional,      \* what those add to today's orders
  killRow,            \* the uncommitted kill_switch row of this session
  \* the local state of each scan
  scanned,            \* decisions this scan has created, uncommitted
  scanning,
  nextId

tables    == <<status, requiresApproval, unpriced, orders, positions, autoClosed,
               shadowPositions, dayNotional, closings, killSwitch>>
batchVars == <<pc, rows, unpricedRows, cur, dailySum, failures, wrote,
               wroteNotional, killRow>>
scanVars  == <<scanned, scanning, nextId>>
vars      == <<tables, settings, shadowMode, broadcasts, writer, crashes,
               batchVars, scanVars>>

NoDecision == 0
SQLite == settings.database = "sqlite"
Live   == settings.execution_mode = "live"

(***************************************************************************)
(* Transactions.                                                           *)
(***************************************************************************)

\* Session s can write now: SQLite serialises writers from first write to commit.
CanWrite(s) == SQLite => writer \in {s, NoSession}
TakeLock(s) == writer' = IF SQLite THEN s ELSE writer
DropLock(s) == writer' = IF writer = s THEN NoSession ELSE writer

\* No other session has an uncommitted update of d's row.
RowFree(b, d) == \A c \in Batch \ {b} : d \notin wrote[c]

\* A session is closed: whatever it had not committed is gone.
Reset(b) ==
  /\ pc' = [pc EXCEPT ![b] = "idle"]
  /\ rows' = [rows EXCEPT ![b] = {}]
  /\ unpricedRows' = [unpricedRows EXCEPT ![b] = {}]
  /\ cur' = [cur EXCEPT ![b] = NoDecision]
  /\ dailySum' = [dailySum EXCEPT ![b] = 0]
  /\ failures' = [failures EXCEPT ![b] = 0]
  /\ wrote' = [wrote EXCEPT ![b] = {}]
  /\ wroteNotional' = [wroteNotional EXCEPT ![b] = 0]
  /\ killRow' = [killRow EXCEPT ![b] = "none"]
  /\ DropLock(b)

Rollback(b) ==
  /\ Reset(b)
  /\ UNCHANGED <<tables, settings, shadowMode, broadcasts, scanVars>>

(***************************************************************************)
(* AnalysisService.scan and RiskEngine.                                    *)
(***************************************************************************)

\* The notional of the open positions of S.  Shadow positions count as well
\* until ShadowAccuracyMonitor or POST /shadow/reset closes them, which is not
\* followed here: the scan may find them all closed (or propose nothing).
Exposure(S) == MapThenSumSet(LAMBDA d : (positions[d] - autoClosed[d]) * StakeOf[d], S)

\* RiskEngine.evaluate looks at the open positions only: neither proposed
\* decisions nor the proposals of the same scan count.
RiskAllows(d) ==
  /\ Exposure(Decision) + StakeOf[d] <= MaxTotalExposureUsd
  /\ Exposure({e \in Decision : EventOf[MarketOf[e]] = EventOf[MarketOf[d]]}) + StakeOf[d] <= MaxPositionUsd

\* The scan writes its market_fetch audit row, then evaluates and inserts
\* every proposal it finds (possibly none).
ScanPropose(s) ==
  /\ ~scanning[s]
  /\ CanWrite(s) /\ TakeLock(s)
  /\ scanning' = [scanning EXCEPT ![s] = TRUE]
  /\ \E last \in (nextId - 1) .. MaxDecisions :
       /\ \A d \in nextId .. last : RiskAllows(d)
       /\ scanned' = [scanned EXCEPT ![s] = nextId .. last]
       /\ nextId' = last + 1
  /\ UNCHANGED <<tables, settings, shadowMode, broadcasts, crashes, batchVars>>

\* The one commit of a scan publishes its decisions and the refreshed prices.
ScanCommit(s) ==
  /\ scanning[s]
  /\ status' = [d \in Decision |-> IF d \in scanned[s] THEN "proposed" ELSE status[d]]
  /\ requiresApproval' = [d \in Decision |-> IF d \in scanned[s]
                            THEN settings.require_approval ELSE requiresApproval[d]]
  /\ unpriced' \in SUBSET MayLosePrice
  /\ scanned' = [scanned EXCEPT ![s] = {}]
  /\ scanning' = [scanning EXCEPT ![s] = FALSE]
  /\ DropLock(s)
  /\ UNCHANGED <<orders, positions, autoClosed, shadowPositions, dayNotional, closings,
                 killSwitch, settings, shadowMode, broadcasts, crashes, batchVars, nextId>>

(***************************************************************************)
(* Operator requests.                                                      *)
(***************************************************************************)

\* ExecutionService.approve: the decision's status is not looked at.
Approve(d) ==
  /\ status[d] # "absent" /\ requiresApproval[d]
  /\ CanWrite(NoSession) /\ \A b \in Batch : d \notin wrote[b]
  /\ requiresApproval' = [requiresApproval EXCEPT ![d] = FALSE]
  /\ UNCHANGED <<status, unpriced, orders, positions, autoClosed, shadowPositions,
                 dayNotional, closings, killSwitch, settings, shadowMode, broadcasts,
                 writer, crashes, batchVars, scanVars>>

\* The latest kill_switch row decides, and rows are dated when they are
\* written: a row a batch wrote earlier and commits later no longer counts.
SetKillSwitch(enabled) ==
  /\ CanWrite(NoSession)
  /\ killSwitch' = enabled
  /\ killRow' = [b \in Batch |-> IF killRow[b] = "latest" THEN "superseded" ELSE killRow[b]]
  /\ UNCHANGED <<status, requiresApproval, unpriced, orders, positions, autoClosed,
                 shadowPositions, dayNotional, closings, settings, shadowMode,
                 broadcasts, writer, crashes, pc, rows, unpricedRows, cur, dailySum, failures, wrote, wroteNotional, scanVars>>

\* POST /shadow/mode flips the process-wide setting.
SetShadowMode ==
  /\ shadowMode' = ~shadowMode
  /\ UNCHANGED <<tables, settings, broadcasts, writer, crashes, batchVars, scanVars>>

\* Midnight UTC: orders flushed before it no longer count as today's.
NewDay ==
  /\ dayNotional' = 0 /\ closings' = 0
  /\ wroteNotional' = [b \in Batch |-> 0]
  /\ UNCHANGED <<status, requiresApproval, unpriced, orders, positions, autoClosed,
                 shadowPositions, killSwitch, settings, shadowMode, broadcasts, writer, crashes, pc, rows,
                 unpricedRows, cur, dailySum, failures, wrote, killRow, scanVars>>

(***************************************************************************)
(* ReconciliationService's auto-close, of a market with a position: an     *)
(* order of its own under no decision, which PostgreSQL's foreign key      *)
(* refuses.  It closes an open position of the market, real or shadow, if  *)
(* one is left.  Module Reconciliation has it step by step.                *)
(***************************************************************************)
AutoClose(d) ==
  /\ SQLite /\ CanWrite(NoSession)
  /\ positions[d] + shadowPositions[d] > 0
  /\ closings + StakeOf[d] <= MaxClosings
  /\ closings' = closings + StakeOf[d]
  /\ autoClosed' \in {autoClosed, [autoClosed EXCEPT ![d] = @ + 1]}
  /\ autoClosed'[d] <= positions[d]
  /\ UNCHANGED <<status, requiresApproval, unpriced, orders, positions, shadowPositions,
                 dayNotional, killSwitch, settings, shadowMode, broadcasts, writer, crashes,
                 batchVars, scanVars>>

(***************************************************************************)
(* process_ready_decisions, one session at a time.                         *)
(***************************************************************************)

\* Variant: the kill switch stops the shadow lane only.
BeginBatchUnguarded(b) ==
  /\ pc[b] = "idle"
  /\ pc' = [pc EXCEPT ![b] = IF ~shadowMode THEN "select"
                             ELSE IF killSwitch THEN "skipped" ELSE "selectShadow"]
  /\ UNCHANGED <<tables, settings, shadowMode, broadcasts, writer, crashes, rows,
                 unpricedRows, cur, dailySum, failures, wrote, wroteNotional, killRow,
                 scanVars>>

\* The kill switch is read once, before anything else.  Then shadow_mode_enabled
\* picks the lane.
BeginBatch(b) ==
  /\ pc[b] = "idle"
  /\ pc' = [pc EXCEPT ![b] = IF killSwitch THEN "skipped"
                             ELSE IF shadowMode THEN "selectShadow" ELSE "select"]
  /\ UNCHANGED <<tables, settings, shadowMode, broadcasts, writer, crashes, rows,
                 unpricedRows, cur, dailySum, failures, wrote, wroteNotional, killRow,
                 scanVars>>

\* A batch that found the kill switch on logs execution_skip, commits and ends.
EndSkipped(b) ==
  /\ pc[b] = "skipped" /\ CanWrite(b)
  /\ Rollback(b)
  /\ UNCHANGED crashes

\* Variants: the approval, and the status, left out of the selection.
ReadyUnapproved == {d \in Decision : status[d] = "proposed"}

ReadyAnyStatus == {d \in Decision : /\ status[d] # "absent"
                                    /\ ~(requiresApproval[d] /\ settings.require_approval)}

\* Proposed decisions whose approval is not pending.
Ready == {d \in Decision : /\ status[d] = "proposed"
                           /\ ~(requiresApproval[d] /\ settings.require_approval)}

\* The rows are loaded once: their approval and prices are those of now.
SelectRows(b) ==
  /\ pc[b] \in {"select", "selectShadow"}
  /\ rows' = [rows EXCEPT ![b] = Ready]
  /\ unpricedRows' = [unpricedRows EXCEPT ![b] = Ready \cap unpriced]
  /\ pc' = [pc EXCEPT ![b] = IF @ = "select" THEN "sum" ELSE "shadow"]
  /\ UNCHANGED <<tables, settings, shadowMode, broadcasts, writer, crashes, cur, dailySum,
                 failures, wrote, wroteNotional, killRow, scanVars>>

\* _check_live_trading_allowed, before the rows are read: a position source that
\* does not answer makes it raise, and the batch is over.
LiveRefused(b) ==
  /\ Live /\ pc[b] = "select"
  /\ Rollback(b)
  /\ UNCHANGED crashes

\* daily_executed_notional sums the orders of the day, whoever submitted them.
ReadDailyNotional(b) ==
  /\ pc[b] = "sum"
  /\ dailySum' = [dailySum EXCEPT ![b] = dayNotional + closings]
  /\ pc' = [pc EXCEPT ![b] = "loop"]
  /\ UNCHANGED <<tables, settings, shadowMode, broadcasts, writer, crashes, rows,
                 unpricedRows, cur, failures, wrote, wroteNotional, killRow, scanVars>>

\* Variant: the stake at hand is not counted.
OverDailyCapAlready(b, d) == dailySum[b] >= MaxDailyLossUsd + StakeOf[d]

OverDailyCap(b, d) == dailySum[b] + StakeOf[d] > MaxDailyLossUsd

\* The loop reaches row d, which the daily cap lets through.
Visits(b, d) == pc[b] = "loop" /\ d \in rows[b] /\ ~OverDailyCap(b, d)

SkipOverDailyCap(b, d) ==
  /\ pc[b] = "loop" /\ d \in rows[b] /\ OverDailyCap(b, d)
  /\ CanWrite(b) /\ TakeLock(b)
  /\ rows' = [rows EXCEPT ![b] = @ \ {d}]
  /\ UNCHANGED <<tables, settings, shadowMode, broadcasts, crashes, pc, unpricedRows, cur,
                 dailySum, failures, wrote, wroteNotional, killRow, scanVars>>

\* OrderSpec refuses a price outside (0, 1] with a ValueError, and it is built
\* outside the try block: the whole batch is lost.
UnpricedRow(b, d) ==
  /\ Visits(b, d) /\ d \in unpricedRows[b]
  /\ Rollback(b)
  /\ UNCHANGED crashes

\* Variant: the notional of the order has the sign of a sale.
PaperRowAsSale(b, d) ==
  /\ ~Live
  /\ Visits(b, d) /\ d \notin unpricedRows[b]
  /\ CanWrite(b) /\ RowFree(b, d) /\ TakeLock(b)
  /\ rows' = [rows EXCEPT ![b] = @ \ {d}]
  /\ dailySum' = [dailySum EXCEPT ![b] = @ - StakeOf[d]]
  /\ wrote' = [wrote EXCEPT ![b] = @ \cup {d}]
  /\ wroteNotional' = [wroteNotional EXCEPT ![b] = @ - StakeOf[d]]
  /\ UNCHANGED <<tables, settings, shadowMode, broadcasts, crashes, pc, unpricedRows, cur,
                 failures, killRow, scanVars>>

\* Paper mode: the order is filled at once, and the order, the position and
\* the decision's new status are flushed.
PaperRow(b, d) ==
  /\ ~Live
  /\ Visits(b, d) /\ d \notin unpricedRows[b]
  /\ CanWrite(b) /\ RowFree(b, d) /\ TakeLock(b)
  /\ rows' = [rows EXCEPT ![b] = @ \ {d}]
  /\ dailySum' = [dailySum EXCEPT ![b] = @ + StakeOf[d]]
  /\ wrote' = [wrote EXCEPT ![b] = @ \cup {d}]
  /\ wroteNotional' = [wroteNotional EXCEPT ![b] = @ + StakeOf[d]]
  /\ UNCHANGED <<tables, settings, shadowMode, broadcasts, crashes, pc, unpricedRows, cur,
                 failures, killRow, scanVars>>

\* Shadow mode: a shadow position instead, with neither daily cap nor OrderSpec.
ShadowRow(b, d) ==
  /\ pc[b] = "shadow" /\ d \in rows[b]
  /\ CanWrite(b) /\ RowFree(b, d) /\ TakeLock(b)
  /\ rows' = [rows EXCEPT ![b] = @ \ {d}]
  /\ wrote' = [wrote EXCEPT ![b] = @ \cup {d}]
  /\ UNCHANGED <<tables, settings, shadowMode, broadcasts, crashes, pc, unpricedRows, cur,
                 dailySum, failures, wroteNotional, killRow, scanVars>>

(***************************************************************************)
(* Live mode: PolymarketCTFProvider.submit_order, called inside the try.   *)
(***************************************************************************)

\* Variant: the limit is compared with >.
FailPastLimit(b, d) ==
  LET atLimit == failures[b] + 1 > MaxConsecutiveFailures IN
  /\ CanWrite(b) /\ TakeLock(b)
  /\ rows' = [rows EXCEPT ![b] = @ \ {d}]
  /\ cur' = [cur EXCEPT ![b] = NoDecision]
  /\ failures' = [failures EXCEPT ![b] = @ + 1]
  /\ killRow' = [killRow EXCEPT ![b] = IF atLimit THEN "latest" ELSE @]
  /\ pc' = [pc EXCEPT ![b] = IF atLimit THEN "commit" ELSE "loop"]
  /\ UNCHANGED <<tables, settings, shadowMode, crashes, unpricedRows, dailySum, wrote,
                 wroteNotional, scanVars>>

\* The except branch: the failure is logged, and at the limit the kill switch
\* is enabled in this same transaction and the loop ends.
Fail(b, d) ==
  LET atLimit == failures[b] + 1 >= MaxConsecutiveFailures IN
  /\ CanWrite(b) /\ TakeLock(b)
  /\ rows' = [rows EXCEPT ![b] = @ \ {d}]
  /\ cur' = [cur EXCEPT ![b] = NoDecision]
  /\ failures' = [failures EXCEPT ![b] = @ + 1]
  /\ killRow' = [killRow EXCEPT ![b] = IF atLimit THEN "latest" ELSE @]
  /\ pc' = [pc EXCEPT ![b] = IF atLimit THEN "commit" ELSE "loop"]
  /\ UNCHANGED <<tables, settings, shadowMode, crashes, unpricedRows, dailySum, wrote,
                 wroteNotional, scanVars>>

Sent(d) == [broadcasts EXCEPT ![d] = @ + 1]

\* Nothing was sent (breaker open, signing or nonce error), or the transaction
\* was sent and its answer lost in every one of the retries.
LiveSubmitFails(b, d) ==
  /\ Live
  /\ Visits(b, d) /\ d \notin unpricedRows[b]
  /\ \/ broadcasts' = broadcasts
     \/ broadcasts[d] < MaxBroadcasts /\ broadcasts' = Sent(d)
  /\ Fail(b, d)

\* Every call draws a fresh client_order_id, so the provider's idempotency
\* check finds nothing and the order is sent.
LiveBroadcast(b, d) ==
  /\ Live
  /\ Visits(b, d) /\ d \notin unpricedRows[b]
  /\ broadcasts[d] < MaxBroadcasts
  /\ broadcasts' = Sent(d)
  /\ cur' = [cur EXCEPT ![b] = d]
  /\ pc' = [pc EXCEPT ![b] = "persist"]
  /\ UNCHANGED <<tables, settings, shadowMode, writer, crashes, rows, unpricedRows,
                 dailySum, failures, wrote, wroteNotional, killRow, scanVars>>

\* The newest proposed decision of d's market, approved or not: none once another
\* batch has executed them all.
Attached(d) ==
  {e \in Decision : /\ MarketOf[e] = MarketOf[d] /\ status[e] = "proposed"
                    /\ \A f \in Decision :
                         MarketOf[f] = MarketOf[d] /\ status[f] = "proposed" => f <= e}

\* The provider commits the order in a session of its own, under the decision
\* it finds by the market.
LivePersist(b) ==
  /\ pc[b] = "persist"
  /\ CanWrite(NoSession)
  /\ orders' = [e \in Decision |-> IF e \in Attached(cur[b]) THEN orders[e] + 1 ELSE orders[e]]
  /\ dayNotional' = dayNotional + StakeOf[cur[b]]
  /\ pc' = [pc EXCEPT ![b] = "record"]
  /\ UNCHANGED <<status, requiresApproval, unpriced, positions, autoClosed, shadowPositions,
                 closings, killSwitch, settings, shadowMode, broadcasts, writer, crashes,
                 rows, unpricedRows, cur, dailySum, failures, wrote, wroteNotional, killRow,
                 scanVars>>

\* On SQLite the provider's session times out if the lock is taken, even by
\* the batch itself (it has logged an earlier row): "database is locked".
LivePersistFails(b) ==
  /\ pc[b] = "persist"
  /\ ~CanWrite(NoSession)
  /\ pc' = [pc EXCEPT ![b] = "failed"]
  /\ UNCHANGED <<tables, settings, shadowMode, broadcasts, writer, crashes, rows,
                 unpricedRows, cur, dailySum, failures, wrote, wroteNotional, killRow,
                 scanVars>>

LiveFailed(b) ==
  /\ pc[b] = "failed"
  /\ Fail(b, cur[b])
  /\ UNCHANGED broadcasts

\* record_order_and_position inserts the client_order_id the provider has just
\* committed: the flush fails, logging the failure in the dead session raises
\* again, and the batch is rolled back.
LiveRecord(b) ==
  /\ pc[b] = "record"
  /\ Rollback(b)
  /\ UNCHANGED crashes

(***************************************************************************)
(* The end of a batch.                                                     *)
(***************************************************************************)

\* Variant: the shadow lane returns without its commit.
AtEndOfRealLane(b) == pc[b] = "commit" \/ (pc[b] = "loop" /\ rows[b] = {})

AtEnd(b) == pc[b] = "commit" \/ (pc[b] \in {"loop", "shadow"} /\ rows[b] = {})

\* How many rows of a table a batch's session adds for d.
Added(b, d, lane) == IF pc[b] \in lane /\ d \in wrote[b] THEN 1 ELSE 0

Commit(b) ==
  /\ AtEnd(b)
  /\ status' = [d \in Decision |-> IF d \in wrote[b] THEN "executed" ELSE status[d]]
  /\ orders' = [d \in Decision |-> orders[d] + Added(b, d, {"loop", "commit"})]
  /\ positions' = [d \in Decision |-> positions[d] + Added(b, d, {"loop", "commit"})]
  /\ shadowPositions' = [d \in Decision |-> shadowPositions[d] + Added(b, d, {"shadow"})]
  /\ dayNotional' = dayNotional + wroteNotional[b]
  /\ killSwitch' = (killSwitch \/ killRow[b] = "latest")
  /\ Reset(b)
  /\ UNCHANGED <<requiresApproval, unpriced, autoClosed, closings, settings, shadowMode,
                 broadcasts, crashes, scanVars>>

\* Variant: orders and positions are committed row by row, the status at the end.
CrashAfterRows(b) ==
  /\ pc[b] # "idle" /\ crashes < MaxCrashes
  /\ crashes' = crashes + 1
  /\ orders' = [d \in Decision |-> orders[d] + Added(b, d, {"loop", "commit"})]
  /\ positions' = [d \in Decision |-> positions[d] + Added(b, d, {"loop", "commit"})]
  /\ Reset(b)
  /\ UNCHANGED <<status, requiresApproval, unpriced, autoClosed, shadowPositions,
                 dayNotional, closings, killSwitch, settings, shadowMode, broadcasts,
                 scanVars>>

\* The process dies, the connection drops or a lock times out (on SQLite after
\* five seconds): the session's transaction is lost.
Crash(b) ==
  /\ pc[b] # "idle" /\ crashes < MaxCrashes
  /\ crashes' = crashes + 1
  /\ Rollback(b)

\* PostgreSQL breaks a cycle of row locks by failing one of the sessions.
WaitsFor(b, c) ==
  /\ rows[b] # {} /\ rows[b] \subseteq wrote[c]
  /\ \/ pc[b] = "shadow"
     \/ pc[b] = "loop" /\ ~Live /\ \A d \in rows[b] : ~OverDailyCap(b, d)

DeadlockVictim(b) ==
  /\ ~SQLite
  /\ \E c \in Batch \ {b} : WaitsFor(b, c) /\ WaitsFor(c, b)
  /\ Rollback(b)
  /\ UNCHANGED crashes

-----------------------------------------------------------------------------

Init ==
  /\ status = [d \in Decision |-> "absent"]
  /\ requiresApproval = [d \in Decision |-> TRUE]
  /\ unpriced = {}
  /\ orders = [d \in Decision |-> 0]
  /\ positions = [d \in Decision |-> 0]
  /\ autoClosed = [d \in Decision |-> 0]
  /\ shadowPositions = [d \in Decision |-> 0]
  /\ dayNotional = 0 /\ closings = 0
  /\ killSwitch = FALSE
  /\ settings \in Deployments
  /\ shadowMode \in BOOLEAN
  /\ broadcasts = [d \in Decision |-> 0]
  /\ writer = NoSession
  /\ crashes = 0
  /\ pc = [b \in Batch |-> "idle"]
  /\ rows = [b \in Batch |-> {}]
  /\ unpricedRows = [b \in Batch |-> {}]
  /\ cur = [b \in Batch |-> NoDecision]
  /\ dailySum = [b \in Batch |-> 0]
  /\ failures = [b \in Batch |-> 0]
  /\ wrote = [b \in Batch |-> {}]
  /\ wroteNotional = [b \in Batch |-> 0]
  /\ killRow = [b \in Batch |-> "none"]
  /\ scanned = [s \in Scanner |-> {}]
  /\ scanning = [s \in Scanner |-> FALSE]
  /\ nextId = 1

Scan(s) == ScanPropose(s) \/ ScanCommit(s)

VisitRow(b, d) ==
  \/ SkipOverDailyCap(b, d) \/ UnpricedRow(b, d)
  \/ PaperRow(b, d) \/ ShadowRow(b, d)
  \/ LiveSubmitFails(b, d) \/ LiveBroadcast(b, d)

\* What a batch does once it has begun.
BatchStep(b) ==
  \/ EndSkipped(b) \/ LiveRefused(b) \/ SelectRows(b) \/ ReadDailyNotional(b)
  \/ \E d \in Decision : VisitRow(b, d)
  \/ LivePersist(b) \/ LivePersistFails(b) \/ LiveFailed(b) \/ LiveRecord(b)
  \/ Commit(b) \/ DeadlockVictim(b)

Operator ==
  \/ \E d \in Decision : Approve(d)
  \/ \E enabled \in BOOLEAN : SetKillSwitch(enabled)
  \/ SetShadowMode

Next ==
  \/ \E s \in Scanner : Scan(s)
  \/ \E b \in Batch : BeginBatch(b) \/ BatchStep(b) \/ Crash(b)
  \/ Operator
  \/ \E d \in Decision : AutoClose(d)
  \/ NewDay

Spec == Init /\ [][Next]_vars

\* A request or tick that has begun runs to its end, and a session that waits
\* for a lock gets it.  Nothing begins by itself: tick executes only with
\* auto_execute, after a scan that did not raise, and requests come from outside.
Fairness ==
  /\ \A b \in Batch : SF_vars(BatchStep(b))
  /\ \A s \in Scanner : WF_vars(ScanCommit(s))

FairSpec == Spec /\ Fairness

-----------------------------------------------------------------------------
(***************************************************************************)
(* Properties.                                                             *)
(***************************************************************************)

PC == {"idle", "skipped", "select", "selectShadow", "sum", "loop", "shadow", "persist",
       "record", "failed", "commit"}

TablesTyped ==
  /\ status \in [Decision -> {"absent", "proposed", "executed"}]
  /\ requiresApproval \in [Decision -> BOOLEAN]
  /\ unpriced \in SUBSET Decision
  /\ orders \in [Decision -> Nat]
  /\ positions \in [Decision -> Nat]
  /\ autoClosed \in [Decision -> Nat]
  /\ shadowPositions \in [Decision -> Nat]
  /\ dayNotional \in Nat /\ closings \in Nat
  /\ killSwitch \in BOOLEAN

WorldTyped ==
  /\ settings \in Deployments
  /\ shadowMode \in BOOLEAN
  /\ broadcasts \in [Decision -> Nat]
  /\ writer \in Session \cup {NoSession}
  /\ crashes \in Nat

BatchesTyped ==
  /\ pc \in [Batch -> PC]
  /\ rows \in [Batch -> SUBSET Decision]
  /\ unpricedRows \in [Batch -> SUBSET Decision]
  /\ cur \in [Batch -> Decision \cup {NoDecision}]
  /\ \A b \in Batch : pc[b] \in {"persist", "record", "failed"} => cur[b] \in Decision
  /\ dailySum \in [Batch -> Nat]
  /\ failures \in [Batch -> Nat]
  /\ wrote \in [Batch -> SUBSET Decision]
  /\ wroteNotional \in [Batch -> Nat]
  /\ killRow \in [Batch -> {"none", "latest", "superseded"}]

ScansTyped ==
  /\ scanned \in [Scanner -> SUBSET Decision]
  /\ scanning \in [Scanner -> BOOLEAN]
  /\ nextId \in Nat \ {0}

\* The tables and the local variables of the sessions hold what they should,
\* and a batch with an order in flight knows whose order it is.
TypeOK == TablesTyped /\ WorldTyped /\ BatchesTyped /\ ScansTyped

\* record_order_and_position, and the shadow branch, are all or nothing: however
\* batches overlap, fail or die, a decision reads "executed" exactly when a
\* position was booked for it, and in paper mode each position has its order.
ExecutedIffBooked ==
  \A d \in Decision :
    /\ status[d] = "executed" <=> positions[d] + shadowPositions[d] > 0
    /\ ~Live => orders[d] = positions[d]

\* With require_approval on, nothing is ever booked, nor sent to the chain, for a
\* decision nobody has approved.
NothingUnapproved ==
  settings.require_approval =>
    \A d \in Decision :
      positions[d] + shadowPositions[d] + broadcasts[d] > 0 => ~requiresApproval[d]

\* What a batch has written today is part of its running sum, and the sum, which
\* started from what the day's orders came to when it began, never passes
\* max_daily_loss_usd once it has written anything, whatever the others do.
BatchSpendWithinCap ==
  \A b \in Batch :
    pc[b] \in {"loop", "commit"} /\ wrote[b] # {} =>
      wroteNotional[b] <= dailySum[b] /\ dailySum[b] <= MaxDailyLossUsd

RealLane == {"select", "sum", "loop", "persist", "record", "failed", "commit"}

NoneInRealLane == \A b \in Batch : pc[b] \notin RealLane

\* Once the kill switch is on and the real batches that had already begun are
\* over, no order, position or broadcast happens, and no real batch gets under
\* way, until it is switched off, however the shadow mode is switched.
KillSwitchHolds ==
  [][killSwitch /\ killSwitch' /\ NoneInRealLane =>
       /\ NoneInRealLane'
       /\ UNCHANGED <<orders, positions, broadcasts>>]_vars

\* A batch that reaches max_consecutive_failures sends nothing more, and ends
\* with the kill switch on, unless it dies before its commit or an operator
\* switches the kill switch after the failure.
FailureLimitHalts ==
  [][\A b \in Batch :
       failures[b] >= MaxConsecutiveFailures /\ pc'[b] # pc[b] =>
         /\ pc'[b] = "idle"
         /\ killSwitch' \/ killRow[b] = "superseded" \/ crashes' # crashes]_vars

\* With batches one at a time, the orders they submit in a day stay within
\* max_daily_loss_usd, and reconciliation's closing orders only tighten that.
DailyCap == dayNotional <= MaxDailyLossUsd

\* With batches one at a time, a decision is booked at most once.
BookedAtMostOnce == \A d \in Decision : positions[d] + shadowPositions[d] <= 1

ExecutionsKeepComing == []<>(\E b \in Batch : pc[b] # "idle")

\* In paper and shadow mode, as long as executions keep being begun, an approved
\* decision does not stay proposed for ever: it is executed, unless the kill
\* switch comes on, the daily cap has no room for it, or the quote of some
\* approved decision leaves (0, 1] (which loses every batch that sees it,
\* whatever else is in it).
ApprovedIsServed ==
  ExecutionsKeepComing =>
    \A d \in Decision :
      d \in Ready ~> \/ d \notin Ready
                     \/ killSwitch
                     \/ dayNotional + closings + StakeOf[d] > MaxDailyLossUsd
                     \/ Ready \cap unpriced # {}

-----------------------------------------------------------------------------
(***************************************************************************)
(* Statements of the documentation that the program does not keep.         *)
(***************************************************************************)

\* docs/runbook.md: "All new order submissions are blocked at the execution
\* layer" when the kill switch is active.
KillSwitchBlocksSubmissions ==
  [][killSwitch /\ killSwitch' => orders' = orders /\ broadcasts' = broadcasts]_vars

\* README.md: "every decision requires manual approval", and orders come behind
\* the approval gate: no order names a decision that nobody has approved.
OrdersAreApproved ==
  settings.require_approval => \A d \in Decision : orders[d] > 0 => ~requiresApproval[d]

\* tests/test_idempotency.py: "The backward-compatible submit_order() is also
\* idempotent": with one batch at a time, submitting a decision again after its
\* order was persisted does not send and persist another.
SubmitIsIdempotent == \A d \in Decision : orders[d] <= 1
=============================================================================

----------------------------- MODULE Monitoring -----------------------------
(***************************************************************************)
(* AnomalyDetector.run_all over the tables, the alerts it emits through    *)
(* AlertRouter, and HealthChecker.check.  Time is in days, the ten minutes *)
(* of the freshness check included.  Daily sums are of orders' notional,   *)
(* in dollars; the wording of alerts and the latencies are left out.       *)
(***************************************************************************)
EXTENDS MarketData, Sequences, SequencesExt, FiniteSets, FiniteSetsExt

CONSTANTS
  Sums,              \* what a day's orders may add up to, more than nothing
  Readings,          \* what a scan may find: [volume, spread]
  Window,            \* 30 days
  Channel,
  Starts,            \* the days at which the model may begin, after as many with orders
  MaxDay, MaxAlerts  \* bounds on the days and on the alerts that are counted

ASSUME MonitoringAssumption ==
  /\ Sums \subseteq Nat \ {0} /\ Readings \subseteq [volume : Nat, spread : Nat]
  /\ Starts \subseteq 0 .. MaxDay
  /\ Window \in Nat /\ MaxDay \in Nat /\ MaxAlerts \in Nat

VARIABLES
  today,
  sums,              \* what was ordered on each day, 0 if nothing
  rows,              \* the rows of a market in the table: volume, spread and fetched_at
  stage,             \* of a run of the detectors: "idle", "alert", "markets"
  alarms,            \* what the last run found
  audits,            \* anomaly_pnl_spike rows in the audit log
  configured,        \* the channels that have credentials
  outcomes,          \* for each channel, the alerts that it took and those it did not
  health             \* the last answer of the health check

monitoring == <<today, sums, rows, stage, alarms, audits, configured, outcomes, health>>

MonitoringInit ==
  /\ today \in Starts
  /\ \E usual \in Sums : sums = [d \in 0 .. MaxDay |-> IF d < today THEN usual ELSE 0]
  /\ rows = [m \in Market |-> <<>>]
  /\ stage = "idle" /\ alarms = {} /\ audits = 0
  /\ configured \in SUBSET Channel
  /\ outcomes = [c \in Channel |-> [taken |-> 0, failed |-> 0]]
  /\ health = "unknown"

-----------------------------------------------------------------------------
(***************************************************************************)
(* The detectors.                                                          *)
(***************************************************************************)

\* The days of the window that have orders; the last of them is taken for today.
DaysWithOrders == {d \in 0 .. today : sums[d] > 0 /\ d >= today - Window}
LastDay == CHOOSE d \in DaysWithOrders : \A e \in DaysWithOrders : e <= d

SumOver(D)     == MapThenSumSet(LAMBDA d : sums[d], D)
SquaresOver(D) == MapThenSumSet(LAMBDA d : sums[d] * sums[d], D)

\* x is further from the mean of D than three sample standard deviations, in whole
\* numbers: |x - S/n| > 3 sqrt((Q - S^2/n) / (n - 1)), and the deviation is not 0.
Deviates(x, D) ==
  LET n == Cardinality(D)
      S == SumOver(D)
      Q == SquaresOver(D)
  IN  /\ n >= 2
      /\ n * Q > S * S
      /\ (n * x - S) * (n * x - S) * (n - 1) > 9 * n * (n * Q - S * S)

\* Today is one of the days whose mean and deviation it is compared with.
Spike == DaysWithOrders # {} /\ Deviates(sums[LastDay], DaysWithOrders)

\* The readings of a market that are not older than the window.
Recent(readings) == {i \in DOMAIN readings : readings[i].fetched >= today - Window}

Total(readings, column) == MapThenSumSet(LAMBDA i : readings[i][column], Recent(readings))

\* The latest reading against three times the mean of the recent ones.
Anomalous(readings, column) ==
  /\ Recent(readings) # {} /\ Total(readings, column) > 0
  /\ Last(readings)[column] * Cardinality(Recent(readings)) > 3 * Total(readings, column)

DetectorOf(column) == IF column = "volume" THEN "volume_anomaly" ELSE "spread_anomaly"

MarketAlarm(m, column) == [detector |-> DetectorOf(column), market |-> {m}, days |-> 0]

\* The detectors read the table of markets, one row for each.
MarketAlarms ==
  UNION {{MarketAlarm(m, column) : column \in {c \in {"volume", "spread"} : Anomalous(rows[m], c)}} :
           m \in Market}

-----------------------------------------------------------------------------
(***************************************************************************)
(* The tables.                                                             *)
(***************************************************************************)

NextDay == today < MaxDay /\ today' = today + 1
           /\ UNCHANGED <<sums, rows, stage, alarms, audits, configured, outcomes, health>>

\* Orders of the day, in addition to those it has.
Ordered(s) ==
  /\ sums[today] = 0 /\ sums' = [sums EXCEPT ![today] = s]
  /\ UNCHANGED <<today, rows, stage, alarms, audits, configured, outcomes, health>>

\* A market has one row, which a scan overwrites.
UpsertMarket(m, reading) ==
  /\ rows' = [rows EXCEPT ![m] =
       <<[volume |-> reading.volume, spread |-> reading.spread, fetched |-> today]>>]
  /\ UNCHANGED <<today, sums, stage, alarms, audits, configured, outcomes, health>>

-----------------------------------------------------------------------------
(***************************************************************************)
(* A run of the detectors.                                                 *)
(***************************************************************************)

\* Variant: the audit row is left for a later commit, which nobody makes.
DetectSpikeUncommitted ==
  /\ stage = "idle" /\ Spike /\ audits < MaxAlerts
  /\ alarms' = {[detector |-> "pnl_spike", market |-> {}, days |-> Cardinality(DaysWithOrders)]}
  /\ stage' = "alert"
  /\ UNCHANGED <<today, sums, rows, audits, configured, outcomes, health>>

\* A spike is in the audit log, committed, before anybody is told.
DetectSpike ==
  /\ stage = "idle" /\ Spike /\ audits < MaxAlerts
  /\ audits' = audits + 1
  /\ alarms' = {[detector |-> "pnl_spike", market |-> {}, days |-> Cardinality(DaysWithOrders)]}
  /\ stage' = "alert"
  /\ UNCHANGED <<today, sums, rows, configured, outcomes, health>>

DetectNothing ==
  /\ stage = "idle" /\ ~Spike
  /\ alarms' = {} /\ stage' = "markets"
  /\ UNCHANGED <<today, sums, rows, audits, configured, outcomes, health>>

\* Each channel for itself: without credentials, or when it cannot be reached, it has
\* failed and the next one is tried.
SendCritical ==
  /\ stage = "alert"
  /\ \E reached \in SUBSET configured :
       outcomes' = [c \in Channel |->
         IF c \in reached THEN [outcomes[c] EXCEPT !.taken = @ + 1]
         ELSE [outcomes[c] EXCEPT !.failed = @ + 1]]
  /\ stage' = "markets"
  /\ UNCHANGED <<today, sums, rows, alarms, audits, configured, health>>

DetectInMarkets ==
  /\ stage = "markets"
  /\ alarms' = alarms \cup MarketAlarms
  /\ stage' = "idle"
  /\ UNCHANGED <<today, sums, rows, audits, configured, outcomes, health>>

\* The audit row could not be written, or the process died: nobody is told, and no
\* run takes up the alert.
RunBreaks ==
  /\ stage # "idle" /\ stage' = "idle" /\ alarms' = {}
  /\ UNCHANGED <<today, sums, rows, audits, configured, outcomes, health>>

-----------------------------------------------------------------------------
(***************************************************************************)
(* Health.                                                                 *)
(***************************************************************************)

Newest == {rows[m][i].fetched : m \in {k \in Market : rows[k] # <<>>}, i \in {1}}

DataFreshness ==
  IF Newest = {} THEN "degraded" ELSE IF today \in Newest THEN "healthy" ELSE "unhealthy"

CheckOf(ok) == IF ok THEN "healthy" ELSE "unhealthy"

Overall(checks) ==
  IF "unhealthy" \in checks THEN "unhealthy"
  ELSE IF "degraded" \in checks THEN "degraded" ELSE "healthy"

\* The database, the market API, the chain and the kill switch answer well or not.
HealthCheck(database, api, ctf, killSwitch) ==
  /\ health' = Overall({CheckOf(database), CheckOf(api), CheckOf(ctf), DataFreshness,
                        CheckOf(~killSwitch)})
  /\ UNCHANGED <<today, sums, rows, stage, alarms, audits, configured, outcomes>>

MonitoringNext ==
  \/ NextDay \/ DetectSpike \/ DetectNothing \/ SendCritical \/ DetectInMarkets \/ RunBreaks
  \/ \E s \in Sums : Ordered(s)
  \/ \E m \in Market, reading \in Readings : UpsertMarket(m, reading)
  \/ \E d, a, c, k \in BOOLEAN : HealthCheck(d, a, c, k)

MonitoringSpec == MonitoringInit /\ [][MonitoringNext]_monitoring

-----------------------------------------------------------------------------
\* What operators are told can be traced: however runs break off between the audit row
\* and the channels, no channel has answered for more alerts than the audit log holds.
\* And a spike was measured against ten other days with orders at least, though the code
\* only asks for two, as with fewer nothing is three deviations from a mean it is part of.
AlertsAreAudited ==
  /\ \A c \in Channel : outcomes[c].taken + outcomes[c].failed <= audits
  /\ \A a \in alarms : a.detector = "pnl_spike" => a.days >= 11
=============================================================================

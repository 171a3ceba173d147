----------------------------- MODULE MCResearch -----------------------------
(* Six instances that share no variable, one at a time; what the others start *)
(* with is fixed.  The signal desk and the monitoring are given one market.   *)
EXTENDS Backtest, SignalDesk, LLMClient, Monitoring, ThresholdTuner, ReviewDesk, TLC

CONSTANTS m1, m2

VARIABLE part

-----------------------------------------------------------------------------
(* Values of the constants. *)

MCQuotes ==
  {[yes |-> 4000, no |-> 6000, spread |-> 400, liquidity |-> 1000],
   [yes |-> 4600, no |-> 5400, spread |-> 400, liquidity |-> 1000],
   [yes |-> 4000, no |-> 6000, spread |-> 401, liquidity |-> 1000]}

MCSignals ==
  {Signal("yes", 6200, 700), Signal("no", 9000, 5000), Signal("no", 9000, 699)}

MCDeskQuotes ==
  {[yes |-> y, no |-> 6500, spread |-> 150, liquidity |-> 20000, volume |-> 10000,
    days |-> {100}, category |-> "information_event", sentiment |-> 1500] : y \in {3500, 7000}}

Always == {"event_catalyst", "liquidity_momentum"}

MCRegistries ==
  {Always} \cup
  {Always \cup {"llm_probability", s} : s \in {"cross_platform_arb", "news_catalyst", "smart_money"}}

MCAnswers == {[prob |-> {6000}, confidence |-> {7000}]}

MCSentiments == {[direction |-> "yes", magnitude |-> 5000, adjusted |-> 9000]}

MCHoldings == {[whales |-> <<[side |-> "yes", size |-> 8000]>>, wallets |-> <<"no">>]}

\* A price in cents, one on a scale of one, one that is missing, a title too different.
MCListings ==
  {<<[platform |-> "manifold", price |-> {4000}, similarity |-> 4000],
     [platform |-> "manifold", price |-> {9000}, similarity |-> 2999],
     [platform |-> "metaculus", price |-> {}, similarity |-> 9000],
     [platform |-> "kalshi", price |-> {500000}, similarity |-> 8000]>>}

MCReadings == {[volume |-> 100, spread |-> 10], [volume |-> 1000, spread |-> 100]}

MCPow == [k \in 0 .. 4 |-> 2^k]

Row(age, closed, prob, right) ==
  [age |-> age, closed |-> closed, prob |-> prob, right |-> right,
   pnl |-> IF right THEN 10 ELSE 0]

MCTrades ==
  [1 .. 3 -> {Row(1, TRUE, 5, TRUE), Row(1, TRUE, 11, TRUE),
              Row(1, TRUE, 12, FALSE), Row(1, TRUE, 13, TRUE),
              Row(31, TRUE, 13, TRUE), Row(1, FALSE, 13, FALSE)}]

Listed(m, liquidity, volume, wording) ==
  [market |-> m,
   quote |-> [spread |-> 150, liquidity |-> liquidity, volume |-> volume, days |-> {100},
              wording |-> wording]]

MCDays ==
  LET dull == Listed(m1, 2000, 2000, {"novelty", "binary"})
      good == Listed(m2, 10000, 5000, {"event"})
      fair == Listed(m1, 5000, 2000, {})
  IN  <<<<dull, good, fair>>, <<fair>>, <<fair, fair>>>>

-----------------------------------------------------------------------------
MCInit ==
  /\ part \in {"backtest", "desk", "limiter", "monitoring", "tuner", "review"}
  /\ BacktestInit   /\ (part = "backtest" \/ closes = [m \in Market |-> 99])
  /\ DeskInit       /\ (part = "desk" \/ registry = Always)
  /\ LimiterInit
  /\ MonitoringInit /\ (part = "monitoring" \/ (today = 9 /\ sums[0] = 100 /\ configured = {}))
  /\ TunerInit      /\ (part = "tuner" \/ (target = 50 /\ shadow = [i \in 1 .. 3 |-> Row(1, TRUE, 5, TRUE)]))
  /\ ReviewInit

MCNext ==
  \/ part = "backtest"   /\ BacktestNext
     /\ UNCHANGED <<part, desk, limiter, monitoring, tuner, review>>
  \/ part = "desk"       /\ DeskNext
     /\ (\A r \in Reader : pass'[r] # NoPass => pass'[r].market = m1)
     /\ UNCHANGED <<part, backtest, limiter, monitoring, tuner, review>>
  \/ part = "limiter"    /\ LimiterNext
     /\ UNCHANGED <<part, backtest, desk, monitoring, tuner, review>>
  \/ part = "monitoring" /\ MonitoringNext /\ rows'[m2] = <<>>
     /\ UNCHANGED <<part, backtest, desk, limiter, tuner, review>>
  \/ part = "tuner"      /\ TunerNext
     /\ UNCHANGED <<part, backtest, desk, limiter, monitoring, review>>
  \/ part = "review"     /\ ReviewNext
     /\ UNCHANGED <<part, backtest, desk, limiter, monitoring, tuner>>

MCSpec ==
  MCInit /\ [][MCNext]_<<part, backtest, desk, limiter, monitoring, tuner, review>>

Symmetry == Permutations(Reader) \cup Permutations(Thread) \cup Permutations(Client)
=============================================================================

SPECIFICATION MCSpec
CONSTANTS
  Market = {m1, m2}
  YesPrices = {2000}
  NoPrices = {7800}
  Updater = {u1, u2}
  NoUpdate = NoUpdate
  Stakes = {10}
  Liquidities = {0}
  Never = Never
  NoTrade = NoTrade
  Window = 0
  MaxTrades = 3
  MaxBatch = 2
  MaxDay = 1
  Session = {s1, s2}
  Configured = 2
  MinAccuracy = 50
  MinGoLive = 1
  MinPaper = 1
  StaleDays = 0
  StalePercent = 50
  MaxEarned = 4
  Strategy = {st1, st2}
  NotTripped = NotTripped
  AutoResetAfter = 2
  MaxDrawdown = 20
  MaxStrategyDrawdown = 10
  MaxDailyLoss = 500
  MaxLatency = 15
  MaxFailurePercent = 20
  Drawdowns = {0, 11, 21}
  Spendings = {500, 501}
  Latencies = {0, 16}
  OrderCounts = {0, 1, 4, 5}
  MaxHour = 5
INVARIANTS TypeOK StageHasEvidence RollbackSticks
PROPERTIES ResolvedOnce UpdatesCloseNoMore 
SYMMETRY Symmetry

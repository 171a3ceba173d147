SPECIFICATION MCSpec
CONSTANTS
  m1 = m1
  m2 = m2
  Market = {m1, m2}
  MinConfidence = 6200
  MinEdge = 700
  MaxSpread = 400
  MinLiquidity = 1000
  MaxPosition = 5000
  Quotes <- MCQuotes
  Signals <- MCSignals
  Timestamps = {1, 8}
  ClosingDays = {8, 99}
  StrategyCount = 2
  MaxExposure = 6000
  MaxHolding = 7
  BigMove = 500
  NoQuote = NoQuote
  MinDiscrepancy = 500
  Reader = {r1, r2}
  DeskQuotes <- MCDeskQuotes
  Registries <- MCRegistries
  Answers <- MCAnswers
  Sentiments <- MCSentiments
  Holdings <- MCHoldings
  Listings <- MCListings
  Ttl = 1
  MaxDeskTime = 3
  NoEntry = NoEntry
  NoPass = NoPass
  Thread = {t1, t2}
  MaxCalls = 2
  CallWindow = 2
  Attempts = 2
  MaxNow = 3
  Sums = {100, 300}
  Readings <- MCReadings
  Window = 11
  Channel = {telegram, pagerduty}
  Starts = {9, 10}
  MaxDay = 11
  MaxAlerts = 1
  Trades <- MCTrades
  Targets = {50, 60, 100}
  AnalysisDays = 30
  Halvings = 4
  Pow <- MCPow
  Grain = 3
  SetConfidence = 10
  Client = {c1, c2}
  Days <- MCDays
  Limit = 2
  MaxProposals = 2
  MaxDecisions = 1
  Nowhere = Nowhere
INVARIANTS BooksBalance NothingOutlivesItsMarket  CallsWithinLimit AlertsAreAudited ThresholdReachesTarget OneActiveProposal
SYMMETRY Symmetry

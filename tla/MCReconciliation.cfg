SPECIFICATION FairSpec
CONSTANTS
  Market = {"m1", "m2"}
  Position = {"p1", "p2", "p3"}
  MarketOf <- MCMarketOf
  Notional <- MCNotional
  Shadow = {"p2"}
  Run = {r1, r2}
  Nobody = Nobody
  None = None
  Missing = Missing
  Values = {3, 5}
  Tolerance = 1
  AutoCloseThreshold = 5
  Databases = {"sqlite", "postgresql"}
  MaxCrashes = 1
INVARIANTS TypeOK EveryCloseIsOrdered CountIsExact ReportIsComplete
PROPERTIES RunEnds

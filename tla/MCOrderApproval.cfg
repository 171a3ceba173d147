SPECIFICATION Spec
CONSTANTS
  MaxDecisions = 2
  StakeOf <- MCStakeOf
  MarketOf <- MCMarketOf
  EventOf <- MCEventOf
  Batch = {b1}
  Scanner = {s1}
  NoSession = NoSession
  Deployments <- MCDeployments
  MaxPositionUsd = 2
  MaxTotalExposureUsd = 3
  MaxDailyLossUsd = 1
  MaxConsecutiveFailures = 2
  MayLosePrice = {1}
  MaxCrashes = 0
  MaxBroadcasts = 1
  MaxClosings = 0
INVARIANTS OrdersAreApproved

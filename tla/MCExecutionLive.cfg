SPECIFICATION FairSpec
CONSTANTS
  MaxDecisions = 1
  StakeOf <- MCStakeOf
  MarketOf <- MCMarketOf
  EventOf <- MCEventOf
  Batch = {b1}
  Scanner = {s1}
  NoSession = NoSession
  Deployments <- MCDeployments
  MaxPositionUsd = 2
  MaxTotalExposureUsd = 3
  MaxDailyLossUsd = 2
  MaxConsecutiveFailures = 2
  MayLosePrice = {}
  MaxCrashes = 0
  MaxBroadcasts = 2
  MaxClosings = 0
INVARIANTS SubmitIsIdempotent

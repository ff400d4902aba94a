CONSTANTS
  Tiers <- MCTiers
  Address = {x, y, z}
  Interval = {0, 1}
  NoInterval = NoInterval
  Enough = 2
  MaxRequests = 3
SPECIFICATION FairSpec
INVARIANTS TiersKeepTheirTrackers
PROPERTIES AnswererBecomesFirst RequestEnds
CHECK_DEADLOCK FALSE

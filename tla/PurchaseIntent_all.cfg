SPECIFICATION FairSpec
CONSTANTS
  d1 = d1
  Intents = {i1}
  Dealers = {d1}
  Ads = {a1, a2}
  OwnerOf <- MCOwnerOf
  Matches <- MCMatches
  Workers = {w1, w2}
  Limit = 1
  None = None
INVARIANTS
  TypeOK
  SteadyWithinLimit
  NoticesAreTrue
PROPERTIES
  ClosedReceivesNothing
  PersistenceIsRewarded
CHECK_DEADLOCK FALSE

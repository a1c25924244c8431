SPECIFICATION FairSpec
CONSTANTS
  a1 = a1
  i1 = i1
  i2 = i2
  c1 = c1
  c2 = c2
  d1 = d1
  Ads = {a1}
  Intents = {i1}
  AdOf <- MCAdOf
  Charges = {c1, c2}
  IntentOf <- MCIntentOf
  Days = 2
  AdminDays = 1
  Workers = {w1, w2}
  GrantsOverlap = FALSE
  TrailExists = TRUE
  MaxDay = 1
  MaxGiven = 1
  None = None
INVARIANT AnsweredMeansRecorded
PROPERTIES
  ImplementsLedger
  EveryBoostIsDecided
CHECK_DEADLOCK FALSE

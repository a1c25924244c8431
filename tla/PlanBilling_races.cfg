SPECIFICATION FairSpec
CONSTANTS
  i1 = i1
  i2 = i2
  a1 = a1
  a2 = a2
  b1 = b1
  b2 = b2
  basic = basic
  premium = premium
  OneTime = {i1}
  Recurring = {i2}
  Charges = {a1, b1}
  IntentOf <- MCIntentOf
  PlanOf <- MCPlanOf
  MayLackAmount = {b1}
  Topics = {"payment", "authorized_payment"}
  GrantPlans = {}
  FreePlan = free
  Workers = {w1, w2}
  MaxRows = 2
  None = none
CHECK_DEADLOCK FALSE
INVARIANTS
  TypeOK
  PeriodsAreCharged
  ApprovedIsAccounted
  PlanIsPaidOrGranted
PROPERTIES
  ApprovedIsFinal
  EveryChargeIsRecorded

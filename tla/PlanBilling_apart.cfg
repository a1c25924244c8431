SPECIFICATION Spec
CONSTANTS
  i1 = i1
  i2 = i2
  a1 = a1
  a2 = a2
  b1 = b1
  b2 = b2
  basic = basic
  premium = premium
  OneTime = {i1, i2}
  Recurring = {}
  Charges = {a1, b1}
  IntentOf <- MCIntentOf
  PlanOf <- MCPlanOf
  MayLackAmount = {}
  Topics = {"payment"}
  GrantPlans = {basic}
  FreePlan = free
  Workers = {w1, w2}
  MaxRows = 3
  None = none
CHECK_DEADLOCK FALSE
INVARIANT PlanOfALiveRow
ACTION_CONSTRAINT ActivationsApart
SYMMETRY Symmetry

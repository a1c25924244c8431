SPECIFICATION QuotaSpec
CONSTANTS
  Ads = {a1}
  Clients = {c1, c2}
  Cars = {k1}
  Ops <- AllOps
  Targets <- MCAllTargets
  AdLimit = 1
  CountFails = FALSE
  MaxBlocks = 2
  None = None
INVARIANTS TypeOK BlockIsRecorded UnblockRestores
SYMMETRY MCSymmetry
CHECK_DEADLOCK FALSE
PROPERTY GoneForGood

SPECIFICATION Spec
CONSTANTS
  Stores = {s1, s2}
  Amounts = {1, 2, 3}
  Stamps = {1, 2, 3}
  MaxOffers = 3
  MaxRounds = 2
INVARIANT SelectionIffNotice
CHECK_DEADLOCK FALSE

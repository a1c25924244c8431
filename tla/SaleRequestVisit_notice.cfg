SPECIFICATION VisitSpec
CONSTANTS
  Stores = {s1, s2}
  Amounts = {1, 2}
  Stamps = {1, 2}
  MaxOffers = 2
  MaxRounds = 2
  SlotCounts = {1, 2}
  MaxSlotRounds = 2
PROPERTY EachSlotRoundIsNotified
CHECK_DEADLOCK FALSE

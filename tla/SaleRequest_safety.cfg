SPECIFICATION Spec
CONSTANTS
  Stores = {s1, s2}
  Amounts = {1, 2, 3}
  Stamps = {1, 2, 3, 4}
  MaxOffers = 4
  MaxRounds = 2
SYMMETRY StoreSymmetry
INVARIANTS
  TypeOK
  MatchCoherence
  SelectedIsCurrent
  NoMatchInOpenRound
  OneSelectionPerStoreAndRound
  AuctionRises
PROPERTIES
  FailedMatchNeverReturns
  ImplementsLifecycle
CHECK_DEADLOCK FALSE

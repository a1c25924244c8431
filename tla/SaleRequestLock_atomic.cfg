SPECIFICATION FairSpec
CONSTANTS
  Stores = {s1, s2}
  Amounts = {1, 2}
  Clients = {c1, c2}
  MaxTx = 4
  Nobody = nobody
INVARIANT DecidesOnFreshRow
PROPERTIES
  HandlersAreAtomic
  EveryRequestEnds
CHECK_DEADLOCK FALSE

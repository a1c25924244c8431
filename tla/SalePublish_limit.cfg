SPECIFICATION FairSpec
CONSTANTS
  Requests = {r1, r2, r3}
  Sessions = {t1, t2, t3}
  ActiveLimit = 2
  MaxRounds = 2
  Nobody = nobody
INVARIANT FirstRoundLimit
PROPERTY EveryPublicationEnds

SPECIFICATION FairSpec
CONSTANTS
  Contexts <- MCContexts
  First = "a"
  NoContext = NoContext
  Capacity = 2
  Limit = 2
  MaxId = 3
  MaxStores = 2
  ChanBound = 1
INVARIANTS RingIsTail
PROPERTIES EveryBulletinArrives

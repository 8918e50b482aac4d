SPECIFICATION FairSpec
CONSTANTS
  Queues <- MCQueues
  NoQueue = NoQueue
  MaxWorkers = 2
  ChanBound = 1
INVARIANTS OnePoller KnownRequestDeleted
PROPERTIES ListingEnds

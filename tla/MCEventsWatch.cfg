SPECIFICATION MCSpec
CONSTANTS
  MaxEvents = 3
  MaxTime = 2
  PerSecond = 2
  BufferCap = 2
  MaxResults = 2
  ChanBound = 1
INVARIANTS TailOnlyInView 
PROPERTIES WaitingEnds 

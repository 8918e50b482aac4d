SPECIFICATION FairModalSpec
CONSTANTS
  Events <- MCEvents
  Available <- MCAvailable
  Size <- MCSize
  Format <- MCFormat
  Alike = {}
  Mime <- MCMime
  Apart = {}
  Chunk = 2
  TextCap = 4
  TabularCap = 1
  DiffCap = 5
  MaxOpens = 3
  MaxJobs = 4
INVARIANTS BufferIsPrefix WaitsAreReal DiffOfShown
PROPERTIES DiffIsBuilt
CHECK_DEADLOCK FALSE

SPECIFICATION FairSpec
CONSTANTS
  Uuids <- MCUuids
  MaxTraces = 2
  MaxSwitches = 1
CHECK_DEADLOCK FALSE
PROPERTIES QueriesAreDeleted TraceEnds ShowsTheKnown

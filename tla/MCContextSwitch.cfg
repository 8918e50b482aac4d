SPECIFICATION FairSpec
CONSTANTS
  Contexts <- MCContexts
  First = "a"
  NoContext = NoContext
  Switchers <- MCSwitchers
  ChanBound = 1
INVARIANTS HeaderFollowsClient ForeignOnlyWhileReplacing
PROPERTIES SwitchCompletes SnapshotSettles

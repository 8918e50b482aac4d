SPECIFICATION FairSpec
CONSTANTS
  Endpoints <- MCEndpoints
  Gated <- MCGated
  ForcedIn <- MCForcedIn
  Feeds <- MCFeeds
  Views <- MCViews
  NoView = NoView
  Reads <- MCReads
  MaxCycle = 2
  InboxBound = 1
INVARIANTS SubscriptionsMatchView NoLostWakeup DemandRemembered
PROPERTIES CellsKeepPromise DemandServed ViewGetsAnswer UnreadGoesQuiet

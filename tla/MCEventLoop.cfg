SPECIFICATION FairSpec
CONSTANTS
  Fetchers <- MCFetchers
  Others <- MCOthers
  Ui = "ui"
  Burst <- MCBurst
  Capacity = 4
  BrowserOnly = {"conns"}
INVARIANTS NoBackpressure
PROPERTIES UiKeepsReceiving ProjectionCatchesUp
CHECK_DEADLOCK FALSE

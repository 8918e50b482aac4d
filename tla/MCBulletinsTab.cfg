SPECIFICATION TabSpec
CONSTANTS
  MaxBulletins = 4
  RingSize = 3
  Sources <- MCSources
  Severities <- MCSeverities
  Words <- MCWords
  SourceOf <- MCSourceOf
  StemOf <- MCStemOf
  SeverityOf <- MCSeverityOf
  TypeOf <- MCTypeOf
  HitsOf <- MCHitsOf
  Trim <- MCTrim
  NoWord = ""
  Any = Any
  MaxHits = 2
INVARIANTS BadgeCountsNew
PROPERTIES PauseHoldsGroup FilterHoldsPlace

SPECIFICATION TreeSpec
CONSTANTS
  Flows <- MCFlows
  ServiceLists <- MCServiceLists
  KindOf <- MCKindOf
  Faulty = {}
  MayFail = {}
  MaxAsked = 2
  MaxAnswers = 1
INVARIANTS FocusInSections

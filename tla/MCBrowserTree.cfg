SPECIFICATION FairTreeSpec
CONSTANTS
  Flows <- MCFlows
  ServiceLists <- MCServiceLists
  KindOf <- MCKindOf
  Faulty = {}
  MayFail = {"q"}
  MaxAsked = 2
  MaxAnswers = 1
INVARIANTS DetailOfNode RowsAreOpenTree
PROPERTIES PollKeepsPlace DetailComes

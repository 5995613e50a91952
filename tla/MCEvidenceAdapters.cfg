SPECIFICATION Spec
CONSTANTS
  Syntax <- MCSyntax
  MaxRecords = 3
  Tasks <- MCTasks
  Metrics = {"a", "b"}
  Labels = {"l1", "l2"}
  OwnerTags <- MCOwnerTags
  PlainVariables = {"$metric", "$dst"}
INVARIANTS
  EveryUseIsSeen
  OwnerIsRightOrReported

SPECIFICATION Spec
CONSTANTS
  ConsumerEvidence <- MCConsumers
  ReferenceEvidence <- MCReferences
  ProductionEvidence <- MCProductions
  DiagnosticEvidence <- MCDiagnostics
  ChangeSets <- MCChangeSets
  NoSymbol <- None
  MaxEvidence = 6
  MaxFindings = 2
INVARIANTS FindingsAreExact UnresolvedNeverDecided RolloutOnlyDemotesBlock
PROPERTY EvidenceNeverImproves
CHECK_DEADLOCK FALSE

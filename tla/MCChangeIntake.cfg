SPECIFICATION Spec
CONSTANTS
  BaseName <- MCBaseName
  ServerStates <- MCServerStates
  HandWritten <- MCHandWritten
  WeaverInputs <- MCWeaverInputs
  ChangeFiles <- MCChangeFiles
  MigrationFiles <- MCMigrationFiles
  MaxMetrics = 2
  MaxSeries = 2
  MaxLabels = 2
  MaxServerChanges = 1
  MaxEdits = 1
INVARIANTS
  StableIsCaptured
  LossIsReported
  WeaverIsAccounted
  DetectedIsWellFormed

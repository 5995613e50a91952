SPECIFICATION Spec
CONSTANTS
  MaxRuns = 2
  MaxShellRuns = 1
  SourceInputs <- MCSources
  RemoteInputs <- MCRemote
  OutputInputs <- MCOutputs
  Documents <- MCDocuments
  Inodes <- MCInodes
  MaxEdits = 2
INVARIANTS PassIsFresh DecisionSurvives ScriptAgreesWithCommand StatusIsLast ExitIsBacked AcceptedConfigServes InitAllOrNothing
PROPERTY InitKeepsOthers
CHECK_DEADLOCK FALSE

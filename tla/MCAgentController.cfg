SPECIFICATION Spec
CONSTANTS
  MaxAttempts = 3
  Tree <- Trees
  Checkout <- CheckedOut
  Control <- Controls
  ControlSteps <- Edits
  Absent = Absent
INVARIANTS
  TypeOK
  ReviewedAsJudged
  RecordAgrees
  CopiesAreGone
  TreeRemoved
PROPERTY
  ImplementsLoop
CHECK_DEADLOCK FALSE

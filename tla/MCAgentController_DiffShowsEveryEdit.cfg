SPECIFICATION Spec
CONSTANTS
  MaxAttempts = 3
  Tree <- Trees
  Checkout <- CheckedOut
  Control <- Controls
  ControlSteps <- Edits
  Absent = Absent
CHECK_DEADLOCK FALSE
INVARIANT DiffShowsEveryEdit

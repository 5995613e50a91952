SPECIFICATION Spec
CONSTANTS
  s1 = s1
  s2 = s2
  Source = {1, 2}
  Item = {1, 2}
  Setting = {s1, s2}
  Class <- MCClass
  Configurations <- MCConfigurations
INVARIANTS FailClosed PassIsComplete NoSilentGap
PROPERTY Concludes
CHECK_DEADLOCK FALSE

SPECIFICATION Spec
CONSTANTS
  s1 = s1
  s2 = s2
  Source = {1, 2}
  Item = {1, 2}
  Setting = {s1, s2}
  Class <- MCClass
  Configurations <- MCConfigurations
INVARIANT FactsRemain
CHECK_DEADLOCK FALSE

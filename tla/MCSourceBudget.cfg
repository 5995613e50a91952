SPECIFICATION Spec
CONSTANTS
  p1 = p1
  p2 = p2
  p3 = p3
  out = out
  i1 = i1
  i2 = i2
  pipe = pipe
  Path = {p1, p2, p3}
  Outside = {out}
  Inode = {i1, i2, pipe}
  Irregular = {pipe}
  Size = {1, 2}
  Absent = Absent
  MaxFiles = 2
  MaxBytes = 3
  MaxDisturbances = 2
  MaxCalls = 4
INVARIANTS TypeOK WithinBudget OpenedAsRegistered OpenedWithinBudget
PROPERTY ChargesAreFinal
SYMMETRY Interchangeable
CHECK_DEADLOCK FALSE

SPECIFICATION Spec
CONSTANTS
  Units = {u1, u2, u3}
  First = u1
  Elastic = {u1, u2, u3}
  NoName = NoName
  LeaderNotified = FALSE
  MaxReconfigures = 0
  Faults = {"hasty"}
SYMMETRY Symmetry
INVARIANTS RestartOutstanding
PROPERTIES KeepsContract
CHECK_DEADLOCK FALSE

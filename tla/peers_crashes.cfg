SPECIFICATION Spec
CONSTANTS
  Units = {u1, u2, u3}
  First = u1
  Elastic = {u1}
  NoName = NoName
  LeaderNotified = FALSE
  MaxReconfigures = 1
  Faults = {"hasty", "crash"}
SYMMETRY Symmetry
INVARIANTS FailoverAgreed
CHECK_DEADLOCK FALSE

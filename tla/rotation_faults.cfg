SPECIFICATION Spec
CONSTANTS
  Controllers = {u1, u2}
  Consumers = {c1}
  MaxKeys = 3
  OperatorWaits = FALSE
  Faults = {"reconfigure", "publish", "leadership", "hook", "crash", "consumer"}
SYMMETRY Symmetry
INVARIANTS ConsumerInStep

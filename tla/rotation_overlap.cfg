SPECIFICATION FairSpec
CONSTANTS
  Controllers = {u1, u2}
  Consumers = {c1}
  MaxKeys = 3
  OperatorWaits = FALSE
  Faults = {"consumer"}
INVARIANTS LockoutIsTransient OldKeysRevoked
PROPERTIES RotationCompletes ConsumersConverge PublishAfterLoad KeepsPromise

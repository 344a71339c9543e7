SPECIFICATION FairSpec
CONSTANTS
  Nodes = {n1}
  Default = "down"
  MaxConf = 1
  Faults = {"blackout", "service", "refused", "hasty", "install"}
INVARIANTS StateAsWanted ConfRegistered NoGhostNodes
PROPERTIES Enrolled

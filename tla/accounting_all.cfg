SPECIFICATION FairSpec
CONSTANTS
  Kinds = {"tcp", "socket"}
  MaxDb = 2
  MaxOverrides = 2
  MaxKey = 2
  Faults = {"service", "restart", "scontrol", "reboot"}
INVARIANTS NewestInForce KeysAgree
PROPERTIES PublishedHasStorage Published

SPECIFICATION FairSpec
CONSTANTS
  Leader = u1
  Peers = {u2, u3}
  Shared = Shared
  MaxJobs = 2
  Faults = {"copy", "rsync", "agent", "reboot", "failover"}
INVARIANTS StateKept NothingErased
PROPERTIES MigrationCompletes
CHECK_DEADLOCK FALSE

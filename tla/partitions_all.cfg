SPECIFICATION FairSpec
CONSTANTS
  Partitions = {p1, p2}
  NoPartition = NoPartition
INVARIANTS IncludesExist NothingLeftBehind WantedIsDefault
PROPERTIES PartitionsServed

SPECIFICATION FairSpec
CONSTANTS
  Controllers = {c1, c2}
  First = c1
  Apps = {"sackd", "slurmrestd"}
  MaxVersion = 3
  Faults = {"down", "restart", "scontrol", "leadership", "service", "hasty", "install"}
INVARIANT PublishedIsNewest
PROPERTIES ImplementsContract Served

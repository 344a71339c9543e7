SPECIFICATION FairSpec
CONSTANTS
  Units = {u1, u2, u3}
  First = u1
  Elastic = {u1}
  NoName = NoName
  LeaderNotified = TRUE
  MaxReconfigures = 0
  Faults = {}
PROPERTIES HostsConverge ControllersConverge EndpointsConverge
CHECK_DEADLOCK FALSE

SPECIFICATION FairSpec
CONSTANTS
  MaxOffers = 3
  Faults = {"join", "unreachable", "agent"}
INVARIANTS PluginNeedsAccounting PluginIsConfigured NewestOfferUsed
PROPERTIES ProfilingServed
CHECK_DEADLOCK FALSE

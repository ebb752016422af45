SPECIFICATION FairSpec
CONSTANTS
  MaxFaults = 1
  FaultKinds = {"lost"}
  TunnelRoutes = {"route4", "route6"}
PROPERTIES
  FailedOwnerIsRetried

SPECIFICATION MCSpec
CONSTANTS
  MaxFaults = 3
  FaultKinds = {"command", "lost", "disk", "core", "expire", "foreign", "crash", "reboot"}
  TunnelRoutes = {"route4"}
INVARIANTS
  OwnedStateIsRecorded
  BlockBracketsSteering
  CleanWhenIdle
  RecordIsFaithful
PROPERTY RecoverableCompletes

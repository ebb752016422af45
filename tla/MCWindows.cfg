SPECIFICATION MCSpec
CONSTANTS
  MaxFaults = 3
INVARIANTS
  NetworkIsRecoverable
  IdleIsRestored
  HandoverIsGuarded
  ReadinessIsReal
PROPERTIES
  GuardReleasedOnlyWhenSafe
  UnreadableIsPreserved
  RecoveryEnds
  NobodyWaits

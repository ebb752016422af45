SPECIFICATION Spec
CONSTANTS
  MaxFaults = 1
INVARIANT DpiProofIsGuarded

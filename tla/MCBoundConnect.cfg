SPECIFICATION MCSpec
CHECK_DEADLOCK FALSE
CONSTANTS
  r1 = r1
  r2 = r2
  Requests = {r1}
  NoRequest = NoRequest
  MaxFaults = 2
  MaxNetworks = 1
INVARIANTS
  OwnerIsTracked
  SettledIsFinal
  PromotedOutlivesUI
  LeaseIsAgreed
PROPERTY SessionsEnd

SPECIFICATION MCSpec
CONSTANTS
  b1 = b1
  b2 = b2
  p1 = p1
  r1 = r1
  Targets = {b1, b2, p1, r1}
  Bound = {b1, b2}
  Leased = {b1}
  Replacing = {r1}
  Dpi = {b1, p1}
  Telegram = {b1, r1}
  Offered = {"connect", "cancel", "confirm", "promote", "revoke", "terminate", "configure",
             "status", "disconnect", "stage", "catalog", "leases"}
  MaxRequests = 3
  Handlers = {h1, h2}
  Watcher = Watcher
  None = None
  MaxEvents = 1
SYMMETRY HandlerSymmetry
INVARIANTS SessionIsOwned ShownIsTrue

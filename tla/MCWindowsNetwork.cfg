SPECIFICATION MCSpec
CONSTANTS
  None = None
  Unreadable = Unreadable
  Readers = {"r", "s"}
  MaxChanges = 2
  MaxReads = 2
  MaxRestarts = 2
  UserAddresses = {1, 2}
  CoreAddresses = {3}
  UserRoutes = {11, 12}
  CoreRoutes = {12, 13}
  OnLink <- MCOnLink
  Families = {4, 6}
  MaximumAddresses = 2
  MaximumRoutes = 2
  MaxFailed = 3
  Layers = {"connect", "accept"}
  Foreign <- Others
  MaxFaults = 1
  MaxCrashes = 1
  MaxOutside = 2
INVARIANTS RevisionIsTrue AdapterIsTheUsers BlockIsKept
PROPERTIES ImplementsPromise NetworkIsReleased

SPECIFICATION Spec
CONSTANTS
  Ids = {"p", "q"}
  MaxWorkers = 2
  MaxProbes = 1
  MaxCalls = 2
  MaxNet = 2
  Checks = {"startup", "periodic"}
  Budgets = {1, 3, 6}
  IoTime = 3
  HeadTime = 4
  Gap = 2
  LongGap = 3
  NoTime = 30
  Services <- MCServices
  Networks = {"home"}
  None = None
  MaxGen = 2
  MaxMisses = 1
  MaxHints = 1
  Hosts = 3
  Budget = 8
  ObserveTime = 3
  MaxResponse = 2
INVARIANTS ProbesAreTracked VerdictIsFounded DpiPublishedIsServed ProofIsExact
PROPERTY ProbesEnd

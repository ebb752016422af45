SPECIFICATION MCSpec
CONSTANTS
  Kinds = {"connect", "bound", "probe"}
  MaximumClients = 2
  NonceCapacity = 2
  Nonces = {"n1", "n2"}
  MaxConnections = 3
  MaxFailures = 1
  Offers <- MCOffers
  Asked = {"replaceManagedProfile"}
  Producers = {"t1", "t2"}
  Sent = {"replaceManagedProfile"}
  Failures = {"raw"}
  MaxPending = 2
  MaxLine = 2
  FileLimit = 3
  MaxEvents = 3
  MaxFaults = 1
INVARIANTS NothingRunsUnseen ServesInOrder EventsJournalIsSound
PROPERTY EverythingEnds

SPECIFICATION Spec
CONSTANTS
  MaxRequests = 2
  Profiles = {1, 2}
  MaxQueue = 2
  MaxTasks = 5
  Procs = {"p1", "p2"}
  Links = {"a", "b"}
  Attempts = 1
  MaxPayload = 1
  Foreign = 1
  Threads = {"t1", "t2"}
  MaxFrames = 1
  MaxUnwind = 2
  Records = 3
  Faults = 2
  Reads = 1
INVARIANTS RequestsAreOwned ActivationIsExact CrashesAreReported
PROPERTY ShellAnswers

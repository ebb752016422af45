------------------------ MODULE MCLinuxBoundConnect ------------------------
(* LinuxBoundConnect for TLC: one request with the faults and the network   *)
(* change that its recovery depends on, or two requests that compete. The    *)
(* variables are the same, and so are the invariants: where one quantifies   *)
(* over the requests, r1 stands for either of the two.                       *)
EXTENDS LinuxBoundConnect

CONSTANTS r1, r2

Competing == INSTANCE LinuxBoundConnect WITH
  Requests <- {r1, r2}, MaxFaults <- 1, MaxNetworks <- 0

VARIABLE callers

MCInit ==
  \/ callers = "one" /\ Init
  \/ callers = "two" /\ Competing!Init

MCNext ==
  \/ callers = "one" /\ Next /\ UNCHANGED callers
  \/ callers = "two" /\ Competing!Next /\ UNCHANGED callers

MCSpec == MCInit /\ [][MCNext]_<<vars, callers>> /\ Fairness

\* An invocation finishes, a session whose peer died is released, and one whose
\* network changed is stopped (the three properties of LinuxBoundConnect).
SessionsEnd ==
  callers = "one" => InvocationFinishes /\ DeadPeerReleased /\ ChangedNetworkStops
=============================================================================

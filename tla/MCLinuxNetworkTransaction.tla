--------------------- MODULE MCLinuxNetworkTransaction ---------------------
(* LinuxNetworkTransaction for TLC. Recovery ends only if some faults stay  *)
(* out (the findings say which), so a behaviour meets either all kinds of   *)
(* faults with one address family, or the recoverable ones with both.       *)
EXTENDS LinuxNetworkTransaction

VARIABLE faultsAre

Recoverable == INSTANCE LinuxNetworkTransaction WITH
  FaultKinds <- {"command", "core", "crash", "reboot"},
  TunnelRoutes <- {"route4", "route6"}

MCInit ==
  \/ faultsAre = "any" /\ Init
  \/ faultsAre = "recoverable" /\ Recoverable!Init

MCNext ==
  \/ faultsAre = "any" /\ Next /\ UNCHANGED faultsAre
  \/ faultsAre = "recoverable" /\ Recoverable!Next /\ UNCHANGED faultsAre

MCSpec == MCInit /\ [][MCNext]_<<vars, faultsAre>> /\ Recoverable!Fairness

\* See RecoveryCompletes: once faults of these kinds stop, the host ends clean.
RecoverableCompletes == faultsAre = "recoverable" => RecoveryCompletes
=============================================================================

------------------------ MODULE WindowsCapabilities -------------------------
(***************************************************************************)
(* The commands of the service protocol, the capability bits that the two  *)
(* ends exchange in the hello, and what either end asks for before it      *)
(* executes or sends a command.  The two tables are kept apart in the code *)
(* (ProcessClient in service_server.cpp, Exchange in service_client.cpp)   *)
(* and so they are here.                                                   *)
(***************************************************************************)

Reads == {"status", "recover", "diagnosticState", "readBootClock",
          "readTransportNetworkContext", "readCandidateNetwork", "observeNetworkContext"}
Probes == {"probeCandidate", "cancelCandidateProbe"}
Connects == {"connect", "connectWithIdentity", "replaceManagedProfile"}
Cancels == {"cancel", "cancelConnectAndConfirm"}
Staging == {"initialize", "stageProfile", "stageBoundProfile", "invalidateProfile", "disconnect"}
Leases == {"promoteTransportLease", "revokeTransportLease"}
Revokes == {"revokeSmartAccessLease", "revokeRoutingCatalog", "revokeSmartAccessPolicy",
            "revokeRoutingCatalogService"}
SmartControls == {"configureSmartAccessRuntimeControl", "readSmartAccessRestrictions",
                  "acknowledgeSmartAccessRestrictions", "readSmartAccessLeases",
                  "configureSmartAccessRenewal"}
BoundControls == {"configureBoundSmartAccessRuntimeControl"}
Renewals == {"renewSmartAccessLease"}

\* Every command but kHello.
Commands == UNION {Reads, Probes, Connects, Cancels, Staging, Leases, Revokes,
                   SmartControls, BoundControls, Renewals}

\* The bits kServiceCapabilities has, and the client offers.
Capabilities ==
  {"protocolV1", "status", "runtimeControl", "profileIdentity", "cancellation",
   "sanitizedDiagnostic", "routingCatalogWindow", "smartAccessLease", "routingCatalogControl",
   "smartAccessPolicyControl", "routingCatalogServiceControl", "smartAccessRenewal",
   "smartAccessRuntimeControl", "bootClock", "boundConnect", "connectSettlement",
   "boundRuntimeControl", "transportNetworkContext", "boundProfileStage",
   "transportLeaseHandoff", "candidateProbe", "protectedHandoff", "networkObservation"}

\* What a hello must offer the service.
CompatiblePeer == {"protocolV1", "status", "profileIdentity", "cancellation"}

\* What the hello's answer must offer the client.
CompatibleService == CompatiblePeer \cup {"runtimeControl"}

\* The commands ProcessClient calls runtime commands.
RuntimeCommands == UNION {Staging, Connects, Cancels, Revokes, Renewals, SmartControls,
                          BoundControls, Leases}

\* ProcessClient, row by row: commands, and the capabilities they are behind.
ServerTable ==
  {<<RuntimeCommands, {"runtimeControl"}>>,
   <<{"observeNetworkContext"}, {"networkObservation"}>>,
   <<{"replaceManagedProfile"}, {"protectedHandoff"}>>,
   <<Probes \cup {"readCandidateNetwork"}, {"candidateProbe"}>>,
   <<BoundControls, {"boundRuntimeControl", "smartAccessRuntimeControl"}>>,
   <<{"connectWithIdentity"}, {"boundConnect", "bootClock", "profileIdentity",
                               "connectSettlement", "transportNetworkContext"}>>,
   <<Leases, {"transportLeaseHandoff"}>>,
   <<{"stageBoundProfile"}, {"boundProfileStage"}>>,
   <<{"cancelConnectAndConfirm"}, {"connectSettlement"}>>,
   <<{"readTransportNetworkContext"}, {"transportNetworkContext"}>>,
   <<{"readBootClock"}, {"bootClock"}>>,
   <<{"cancel"}, {"cancellation"}>>,
   <<SmartControls, {"smartAccessRuntimeControl"}>>,
   <<Renewals, {"smartAccessRenewal"}>>,
   <<{"revokeRoutingCatalogService"}, {"routingCatalogServiceControl"}>>,
   <<{"revokeSmartAccessPolicy"}, {"smartAccessPolicyControl"}>>,
   <<{"revokeRoutingCatalog"}, {"routingCatalogControl"}>>,
   <<{"revokeSmartAccessLease"}, {"smartAccessLease"}>>,
   <<{"diagnosticState"}, {"sanitizedDiagnostic"}>>}

\* Exchange, in its order.
ClientTable ==
  {<<{"replaceManagedProfile"}, {"protectedHandoff"}>>,
   <<Probes \cup {"readCandidateNetwork"}, {"candidateProbe"}>>,
   <<{"observeNetworkContext"}, {"networkObservation"}>>,
   <<BoundControls, {"boundRuntimeControl", "smartAccessRuntimeControl"}>>,
   <<{"connectWithIdentity"}, {"boundConnect", "bootClock", "connectSettlement",
                               "transportNetworkContext"}>>,
   <<{"stageBoundProfile"}, {"boundProfileStage"}>>,
   <<{"cancelConnectAndConfirm"}, {"connectSettlement"}>>,
   <<{"readBootClock"}, {"bootClock"}>>,
   <<{"readTransportNetworkContext"}, {"transportNetworkContext"}>>,
   <<Leases, {"transportLeaseHandoff"}>>,
   <<{"revokeSmartAccessLease"}, {"smartAccessLease"}>>,
   <<{"revokeRoutingCatalog"}, {"routingCatalogControl"}>>,
   <<{"revokeSmartAccessPolicy"}, {"smartAccessPolicyControl"}>>,
   <<{"revokeRoutingCatalogService"}, {"routingCatalogServiceControl"}>>,
   <<Renewals, {"smartAccessRenewal"}>>,
   <<SmartControls, {"smartAccessRuntimeControl"}>>}

Behind(table, c) == UNION {row[2] : row \in {r \in table : c \in r[1]}}

\* What the service asks of the negotiated set before it executes a command.
ServerRequires(c) == Behind(ServerTable, c)

\* What the client asks of the service's set before it sends a command.
ClientRequires(c) == CompatibleService \cup Behind(ClientTable, c)
=============================================================================

---------------------------- MODULE MCWindowsIpc ----------------------------
(* The two ends of the named pipe and the event journal, for TLC. They meet *)
(* only in frames and records whose contents no property here tells apart,  *)
(* so their product would multiply states and add no behaviour: a behaviour *)
(* runs one of them and leaves the others in an initial state.              *)
EXTENDS WindowsPipe

VARIABLE runs                                            \* the one that runs

Capable == INSTANCE WindowsCapabilities

\* A peer of today, one before the protected handoff, one that is too old.
MCOffers ==
  {Capable!Capabilities, Capable!Capabilities \ {"protectedHandoff"}, {"protocolV1", "status"}}

\* The service with one client at a time, for liveness.
Narrow == INSTANCE WindowsPipeServer WITH
  MaximumClients <- 1, Nonces <- {"n1"}, Asked <- {"status"}, Offers <- {Capable!Capabilities},
  journal <- logged

ASSUME KindsAssumption /\ Server!ServerAssumption /\ Events!EventsAssumption

\* The two tables of capabilities agree: what the client has checked before it
\* sends a command is all that the service asks, but for the diagnostic state.
ASSUME
  \A c \in Capable!Commands \ {"diagnosticState"} :
    Capable!ServerRequires(c) \subseteq Capable!ClientRequires(c)

MCInit ==
  /\ runs \in {"client", "server", "narrow", "events"}
  /\ Init /\ Server!Init /\ Events!Init
  /\ runs # "client" => kind = "connect" /\ owned

MCNext ==
  \/ runs = "client" /\ Next /\ UNCHANGED <<runs, serverVars, eventsVars>>
  \/ runs = "server" /\ Server!Next /\ UNCHANGED <<runs, vars, eventsVars>>
  \/ runs = "narrow" /\ Narrow!Next /\ UNCHANGED <<runs, vars, eventsVars>>
  \/ runs = "events" /\ Events!Next /\ UNCHANGED <<runs, vars, serverVars>>

\* The fairness of each module, while it runs.
MCFairness ==
  /\ WF_vars(runs = "client" /\ CallStep)
  /\ WF_vars(runs = "client" /\ CompanionStep)
  /\ WF_vars(runs = "client" /\ ServiceStep)
  /\ WF_vars(runs = "client" /\ ConfirmUnwritten /\ control.completed)
  /\ SF_vars(runs = "client" /\ outcome # "accepted" /\ ConfirmAnswered(TRUE))
  /\ WF_serverVars(runs = "narrow" /\ Narrow!MainStep)
  /\ WF_serverVars(runs = "narrow" /\ Narrow!HandlerStep)
  /\ \A i \in Narrow!Conns : WF_serverVars(runs = "narrow" /\ Narrow!SessionStep(i))
  /\ WF_eventsVars(runs = "events" /\ Events!WriterStep)
  /\ WF_eventsVars(runs = "events" /\ Events!Joined)

MCSpec ==
  MCInit /\ [][MCNext]_<<runs, vars, serverVars, eventsVars>> /\ MCFairness

\* A call ends and what it did not get accepted is settled; a service that was
\* told to stop stops; the journal's destructor ends, and the writer has then
\* had every record that was accepted.
EverythingEnds ==
  /\ runs = "client" => CallEnds /\ UnacceptedIsSettled
  /\ runs = "narrow" => Narrow!StopCompletes
  /\ runs = "events" => Events!StopEnds /\ Events!AcceptedIsTried
=============================================================================

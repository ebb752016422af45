----------------------------- MODULE WindowsPipe -----------------------------
(***************************************************************************)
(* The two ends of the named pipe and the event journal side by side: a    *)
(* call of the client, the service process that answers many of them, and  *)
(* what it records.  They meet only in frames and records whose contents   *)
(* no property here tells apart, so each keeps its own specification.      *)
(***************************************************************************)
EXTENDS WindowsServiceClient, Naturals, Sequences

CONSTANTS
  MaximumClients, NonceCapacity, Nonces, MaxConnections, MaxFailures, Offers, Asked,
                                                         \* WindowsPipeServer
  Producers, Sent, Failures, MaxPending, MaxLine, FileLimit, MaxEvents, MaxFaults
                                                         \* WindowsEvents

VARIABLES
  main, status, stop, event, sink, logged, failures, accepted, session, handler, host,
                                                         \* WindowsPipeServer
  journal, formed, held, queue, writer, line, log, older, written, passed, given, faults
                                                         \* WindowsEvents

serverVars == <<main, status, stop, event, sink, logged, failures, accepted, session, handler,
                host>>
eventsVars == <<journal, formed, held, queue, writer, line, log, older, written, passed, given,
                faults>>

Server == INSTANCE WindowsPipeServer WITH journal <- logged
Events == INSTANCE WindowsEvents WITH
  pending <- queue, current <- log, previous <- older, tried <- passed

\* Sessions, the accept loop and the control handler keep the order of a start, a
\* command and a stop (service_main.cpp, service_server.cpp; see ServesInOrder
\* in WindowsPipeServer).
ServesInOrder == Server!ServesInOrder

\* The journal's files are what its writer was given, in order and up to the newest
\* (service_events.cpp; see JournalIsSound in WindowsEvents).
EventsJournalIsSound == Events!JournalIsSound
=============================================================================

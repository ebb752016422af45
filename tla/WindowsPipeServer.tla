------------------------- MODULE WindowsPipeServer --------------------------
(***************************************************************************)
(* The service process around the runtime host: ServiceMain and its        *)
(* control handler (service_main.cpp), the accept loop and the sessions of *)
(* the named pipe (service_server.cpp), and the authorization of a caller  *)
(* (service_security.cpp).  What a command does is WindowsDispatcher's and *)
(* WindowsRuntimeHost's matter; here it is a call that starts and returns. *)
(***************************************************************************)
EXTENDS Naturals, Sequences, FiniteSets, WindowsCapabilities

CONSTANTS
  MaximumClients,  \* kMaximumClients: sessions, and instances of the pipe
  NonceCapacity,   \* the 256 nonces a session may use
  Nonces,          \* the nonces requests carry
  MaxConnections,  \* bound: connections the process accepts
  MaxFailures,     \* bound: calls of the system that fail in the accept loop
  Offers,          \* the capability sets that peers offer
  Asked            \* the commands that peers send

ServerAssumption ==
  /\ MaximumClients \in Nat \ {0} /\ NonceCapacity \in Nat \ {0}
  /\ MaxConnections \in Nat /\ MaxFailures \in Nat
  /\ Offers \subseteq SUBSET Capabilities /\ Asked \subseteq Commands

VARIABLES
  main,      \* where ServiceMain is
  status,    \* what SetServiceStatus was told last
  stop,      \* stop_event is set
  event,     \* service_stop_event: "none" before it is made and after it is closed
  sink,      \* service_events is not null
  journal,   \* the event journal exists
  failures,  \* calls that failed; a failed accept loop sets stop_event itself
  accepted,  \* connections so far
  session,   \* session[i]: the thread of the i-th connection
  handler,   \* where the control handler is, and with which control
  host       \* the runtime host: "none", "serving", "shutdown"

vars == <<main, status, stop, event, sink, journal, failures, accepted, session, handler, host>>
process == <<main, status, event, sink, journal, host>>

Conns == 1..MaxConnections
Idle == [at |-> "idle", control |-> "none"]

\* A connection not made yet; a session's record while it lives.
NoSession == [at |-> "none", open |-> FALSE, caller |-> "unknown", offer |-> {},
              used |-> {}, ran |-> <<>>]

\* The instances of the pipe that are open.
Instances == {i \in Conns : session[i].open}

\* The threads in `clients`.
Clients == {i \in Conns : session[i].at \notin {"none", "listening", "joined"}}

\* The instance was closed and there is no thread; the thread was joined.
Gone == [NoSession EXCEPT !.at = "joined"]
Joined(i) == [NoSession EXCEPT !.at = "joined", !.open = session[i].open]

Put(i, r) == session' = [session EXCEPT ![i] = r]
At(i, where) == session' = [session EXCEPT ![i].at = where]

Init ==
  /\ main = "start" /\ status = "startPending" /\ stop = FALSE /\ event = FALSE
  /\ sink = FALSE /\ journal = FALSE /\ failures = 0 /\ accepted = 0
  /\ session = [i \in Conns |-> NoSession]
  /\ handler = Idle /\ host = "none"

-----------------------------------------------------------------------------
(* ServiceMain and RunPipeServer *)

\* The journal is made, or cannot be; the owner's SID is read, the stop event made.
MainStarts(opened, ok) ==
  /\ main = "start"
  /\ journal' = opened /\ sink' = (opened /\ ok) /\ event' = ok
  /\ main' = IF ok THEN "announce" ELSE "abandoned"
  /\ UNCHANGED <<status, stop, failures, accepted, session, handler, host>>

\* No owner or no event: the journal is destroyed and the service stops.
MainAbandons ==
  /\ main = "abandoned"
  /\ journal' = FALSE /\ main' = "ended" /\ status' = "stopped"
  /\ UNCHANGED <<stop, event, sink, failures, accepted, session, handler, host>>

\* ReportServiceStatus(SERVICE_RUNNING): from here controls arrive.
MainRuns ==
  /\ main = "announce"
  /\ status' = "running" /\ main' = "recover"
  /\ UNCHANGED <<stop, event, sink, journal, failures, accepted, session, handler, host>>

\* The host is made and RecoverOnStartup runs; without a descriptor it is not.
MainRecovers(secured) ==
  /\ main = "recover"
  /\ secured \/ failures < MaxFailures
  /\ main' = IF secured THEN "accept" ELSE "close"
  /\ host' = IF secured THEN "serving" ELSE "none"
  /\ failures' = IF secured THEN failures ELSE failures + 1
  /\ UNCHANGED <<status, stop, event, sink, journal, accepted, session, handler>>

\* Every thread is joined, then runtime.Shutdown.
MainShutsDown ==
  /\ main = "join" /\ \A i \in Clients : session[i].at = "done"
  /\ main' = "close" /\ host' = "shutdown"
  /\ session' = [i \in Conns |-> IF i \in Clients THEN Joined(i) ELSE session[i]]
  /\ UNCHANGED <<status, stop, event, sink, journal, failures, accepted, handler>>

\* The event is closed, the last record written, service_events reset.
MainCloses ==
  /\ main = "close"
  /\ event' = FALSE /\ sink' = FALSE /\ main' = "reset"
  /\ UNCHANGED <<status, stop, journal, failures, accepted, session, handler, host>>

\* event_journal.reset(), then ReportServiceStatus(SERVICE_STOPPED).
MainResets ==
  /\ main = "reset"
  /\ journal' = FALSE /\ main' = "report"
  /\ UNCHANGED <<status, stop, event, sink, failures, accepted, session, handler, host>>

MainReports ==
  /\ main = "report"
  /\ status' = "stopped" /\ main' = "ended"
  /\ UNCHANGED <<stop, event, sink, journal, failures, accepted, session, handler, host>>

-----------------------------------------------------------------------------
(* ServiceControlHandler, on the thread of the control dispatcher *)

\* A control arrives while the service accepts any; the sink is looked at first.
Control(c) ==
  /\ handler = Idle /\ status = "running"
  /\ handler' = [at |-> IF sink THEN "record" ELSE "decide", control |-> c]
  /\ UNCHANGED <<main, status, stop, event, sink, journal, failures, accepted, session, host>>

HandlerRecords ==
  /\ handler.at = "record"
  /\ handler' = IF handler.control = "stop" THEN [handler EXCEPT !.at = "decide"] ELSE Idle
  /\ UNCHANGED <<main, status, stop, event, sink, journal, failures, accepted, session, host>>

HandlerDecides ==
  /\ handler.at = "decide"
  /\ handler' = IF handler.control = "stop" /\ event
                THEN [handler EXCEPT !.at = "report"] ELSE Idle
  /\ UNCHANGED <<main, status, stop, event, sink, journal, failures, accepted, session, host>>

\* ReportServiceStatus(SERVICE_STOP_PENDING): no control is accepted any more.
HandlerReports ==
  /\ handler.at = "report"
  /\ status' = "stopPending" /\ handler' = [handler EXCEPT !.at = "set"]
  /\ UNCHANGED <<main, stop, event, sink, journal, failures, accepted, session, host>>

HandlerSets ==
  /\ handler.at = "set"
  /\ stop' = TRUE /\ handler' = Idle
  /\ UNCHANGED <<main, status, event, sink, journal, failures, accepted, session, host>>

-----------------------------------------------------------------------------
(* ServeClients: the accept loop *)

Listening == {i \in Conns : session[i].at = "listening"}

\* The loop is left: its own stop, or the event it finds set.
LeaveLoop ==
  /\ main = "accept" /\ stop /\ Listening = {}
  /\ main' = "join"
  /\ UNCHANGED <<status, stop, event, sink, journal, failures, accepted, session, handler, host>>

\* Finished threads are joined and erased, at the top of the loop.
Reap ==
  /\ main = "accept" /\ Listening = {} /\ \E i \in Conns : session[i].at = "done"
  /\ session' = [i \in Conns |-> IF session[i].at = "done" THEN Joined(i) ELSE session[i]]
  /\ UNCHANGED <<main, status, stop, event, sink, journal, failures, accepted, handler, host>>

\* An instance of the pipe is created when there is room for another thread.
CreatePipe ==
  /\ main = "accept" /\ ~stop /\ Listening = {} /\ accepted < MaxConnections
  /\ \A i \in Conns : session[i].at # "done"
  /\ Cardinality(Clients) < MaximumClients
  /\ accepted' = accepted + 1
  /\ Put(accepted', [NoSession EXCEPT !.at = "listening", !.open = TRUE])
  /\ UNCHANGED <<main, status, stop, event, sink, journal, failures, handler, host>>

\* CreateNamedPipeW fails, or no thread can be made, or ConnectNamedPipe fails:
\* the loop stops the whole service.
AcceptFails ==
  /\ main = "accept" /\ ~stop /\ failures < MaxFailures
  /\ failures' = failures + 1 /\ stop' = TRUE
  /\ session' = [i \in Conns |-> IF i \in Listening THEN Gone ELSE session[i]]
  /\ UNCHANGED <<main, status, event, sink, journal, accepted, handler, host>>

\* A caller opens the instance and gets its thread.
ConnectClient(i) ==
  /\ main = "accept" /\ session[i].at = "listening"
  /\ At(i, "hello")
  /\ UNCHANGED <<process, stop, failures, accepted, handler>>

\* Nobody connects and the stop event ends the wait.
ConnectStops(i) ==
  /\ main = "accept" /\ session[i].at = "listening" /\ stop
  /\ Put(i, Gone)
  /\ UNCHANGED <<process, stop, failures, accepted, handler>>

-----------------------------------------------------------------------------
(* ProcessClient: one session *)

\* A frame is transferred in three seconds, or the transfer fails.
Transfers == BOOLEAN

\* The install owner, who stands for LocalSystem and the administrators too, or
\* a caller that cannot be impersonated or is none of them.
Callers == {"owner", "unknown"}

IsCallerAllowed(caller) == caller = "owner"

\* The hello is read, the caller authorized and a token drawn; a caller that
\* fails any of them is closed.
Hello(i, offer, caller, read) ==
  /\ session[i].at = "hello"
  /\ Put(i, IF read /\ IsCallerAllowed(caller)
            THEN [session[i] EXCEPT !.at = "greet", !.offer = offer, !.caller = caller]
            ELSE [session[i] EXCEPT !.at = "close"])
  /\ UNCHANGED <<process, stop, failures, accepted, handler>>

Compatible(offer) == CompatiblePeer \subseteq offer

\* The answer is written.  An incompatible peer gets one more read, no command.
Greet(i, written) ==
  /\ session[i].at = "greet"
  /\ At(i, IF ~written THEN "close"
           ELSE IF Compatible(session[i].offer) THEN "loop" ELSE "linger")
  /\ UNCHANGED <<process, stop, failures, accepted, handler>>

Linger(i) ==
  /\ session[i].at = "linger"
  /\ At(i, "close")
  /\ UNCHANGED <<process, stop, failures, accepted, handler>>

\* The event is looked at between two requests; a request that is already there
\* may still be read after it is set.
Loop(i) ==
  /\ session[i].at = "loop"
  /\ At(i, IF stop THEN "close" ELSE "read")
  /\ UNCHANGED <<process, stop, failures, accepted, handler>>

\* The event is set, the frame does not come in three seconds, or is no request.
ReadEnds(i) ==
  /\ session[i].at = "read"
  /\ At(i, "close")
  /\ UNCHANGED <<process, stop, failures, accepted, handler>>

Use(used, nonce) == used \cup {nonce}

Fresh(s, nonce) == nonce \notin s.used /\ Cardinality(s.used) < NonceCapacity

\* The capabilities both ends have.
Negotiated(s) == s.offer \cap Capabilities

\* A request with the session's token and a deadline between now and five
\* minutes ahead, whose nonce is new: the nonce is spent, and the command is
\* executed if what it needs was negotiated.
Receive(i, c, nonce) ==
  LET s == session[i] IN
  /\ s.at = "read"
  /\ Fresh(s, nonce)
  /\ LET entitled == ServerRequires(c) \subseteq Negotiated(s)
     IN Put(i, [s EXCEPT !.used = Use(s.used, nonce),
                         !.at = IF entitled THEN "execute" ELSE "respond",
                         !.ran = IF entitled THEN Append(s.ran, nonce) ELSE s.ran])
  /\ UNCHANGED <<process, stop, failures, accepted, handler>>

\* Another token, a deadline out of range, a nonce used before, a full table:
\* an error is answered and nothing else happens.
Refuse(i) ==
  /\ session[i].at = "read"
  /\ At(i, "respond")
  /\ UNCHANGED <<process, stop, failures, accepted, handler>>

\* dispatcher->Execute returns.
ExecuteReturns(i) ==
  /\ session[i].at = "execute"
  /\ At(i, "respond")
  /\ UNCHANGED <<process, stop, failures, accepted, handler>>

\* The answer is written in three seconds, or the session ends.
Respond(i, written) ==
  /\ session[i].at = "respond"
  /\ At(i, IF written THEN "loop" ELSE "close")
  /\ UNCHANGED <<process, stop, failures, accepted, handler>>

\* Faulty: the instance is disconnected and not closed.
CloseLeaks(i) ==
  /\ session[i].at = "close"
  /\ At(i, "closed")
  /\ UNCHANGED <<process, stop, failures, accepted, handler>>

\* DisconnectNamedPipe and CloseHandle, and only then done.
Close(i) ==
  /\ session[i].at = "close"
  /\ Put(i, [NoSession EXCEPT !.at = "closed"])
  /\ UNCHANGED <<process, stop, failures, accepted, handler>>

Done(i) ==
  /\ session[i].at = "closed"
  /\ At(i, "done")
  /\ UNCHANGED <<process, stop, failures, accepted, handler>>

SessionStep(i) ==
  \/ \E offer \in Offers, caller \in Callers, read \in Transfers : Hello(i, offer, caller, read)
  \/ \E written \in Transfers : Greet(i, written) \/ Respond(i, written)
  \/ Linger(i) \/ Loop(i) \/ ReadEnds(i) \/ Refuse(i)
  \/ \E c \in Asked, nonce \in Nonces : Receive(i, c, nonce)
  \/ ExecuteReturns(i) \/ Close(i) \/ Done(i)

MainStep ==
  \/ \E opened, ok \in BOOLEAN : MainStarts(opened, ok)
  \/ MainAbandons \/ MainRuns
  \/ \E secured \in BOOLEAN : MainRecovers(secured)
  \/ LeaveLoop \/ MainShutsDown \/ MainCloses \/ MainResets \/ MainReports
  \/ Reap \/ CreatePipe \/ \E i \in Conns : ConnectStops(i)

HandlerStep == HandlerRecords \/ HandlerDecides \/ HandlerReports \/ HandlerSets

\* The process is gone.
Ended == main = "ended" /\ handler = Idle /\ UNCHANGED vars

\* Nobody connects any more and nobody stops the service.
Waits == main = "accept" /\ UNCHANGED vars

Next ==
  \/ MainStep \/ HandlerStep \/ AcceptFails \/ Ended \/ Waits
  \/ \E c \in {"stop", "power"} : Control(c)
  \/ \E i \in Conns : ConnectClient(i) \/ SessionStep(i)

Spec == Init /\ [][Next]_vars

\* The threads run: every read and write ends, by its data, its three seconds
\* or the event, and every command returns (DispatchEnds of WindowsDispatcher).
Fairness ==
  /\ WF_vars(MainStep) /\ WF_vars(HandlerStep)
  /\ \A i \in Conns : WF_vars(SessionStep(i))

-----------------------------------------------------------------------------
TypeOK ==
  /\ main \in {"start", "announce", "abandoned", "recover", "accept", "join", "close",
               "reset", "report", "ended"}
  /\ status \in {"startPending", "running", "stopPending", "stopped"}
  /\ {stop, event, sink, journal} \subseteq BOOLEAN
  /\ failures \in 0..MaxFailures /\ accepted \in 0..MaxConnections
  /\ host \in {"none", "serving", "shutdown"}
  /\ \A i \in Conns :
       /\ session[i].at \in {"none", "listening", "hello", "greet", "linger", "loop", "read", "execute",
                             "respond", "close", "closed", "done", "joined"}
       /\ session[i].offer \subseteq Capabilities /\ session[i].used \subseteq Nonces
       /\ session[i].ran \in Seq(Nonces) /\ Cardinality(session[i].used) <= NonceCapacity

\* The pipe never has more instances than CreateNamedPipeW allows it, so that a
\* busy service is never stopped by its own accept loop: a thread that the loop
\* no longer counts has closed its instance.
InstancesFit == Cardinality(Instances) <= MaximumClients

\* A session executes a nonce once, however many requests it gets, and only for
\* a known caller whose hello was accepted.
NonceRunsOnce ==
  \A i \in Conns :
    LET ran == session[i].ran IN
    /\ \A a, b \in 1..Len(ran) : a # b => ran[a] # ran[b]
    /\ ran # <<>> => /\ CompatiblePeer \subseteq session[i].offer
                     /\ session[i].caller # "unknown"

\* The runtime host is shut down once no session can call it any more.
NoCommandAfterShutdown ==
  host = "shutdown" => \A i \in Conns : session[i].at \in {"none", "done", "joined"}

\* The control handler never writes to a journal that was destroyed, unless the
\* service stopped by itself: only then does a control arrive while it stops.
HandlerFindsJournal == failures = 0 => (handler.at = "record" => journal)

\* The threads of the service never use what another of them has taken away: an
\* instance of the pipe, a nonce, the runtime host, the journal.
ServesInOrder ==
  TypeOK /\ InstancesFit /\ NonceRunsOnce /\ NoCommandAfterShutdown /\ HandlerFindsJournal

\* A service that was told to stop does stop, whatever its peers do.
StopCompletes == stop ~> (status = "stopped" \/ main = "ended")
=============================================================================

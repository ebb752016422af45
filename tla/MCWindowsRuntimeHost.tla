------------------------ MODULE MCWindowsRuntimeHost ------------------------
(* The runtime host for TLC, and the dispatcher with clients few enough for *)
(* liveness.  The dispatcher's host calls are single steps, so one product  *)
(* of the two would add nothing to either: a behaviour runs one of them and *)
(* leaves the other in an initial state.                                    *)
EXTENDS WindowsRuntimeHost

VARIABLES
  runs,                                            \* the one that runs
  execution, stateHeld, active, stopped, snapshot, closing, egress, op, host, request,
  handlerPc, result, wpc, wop, watchBound, alive, late, lapsed, revision, stopEvent,
  events, begun, confirmed, asked                  \* WindowsDispatcher

dispatcherVars ==
  <<execution, stateHeld, active, stopped, snapshot, closing, egress, op, host, request,
    handlerPc, result, wpc, wop, watchBound, alive, late, lapsed, revision, stopEvent,
    events, begun, confirmed, asked>>

\* A bound invocation with a lease and one of the older command.
Waiting == INSTANCE WindowsDispatcher WITH
  Targets <- {"b1", "p1"}, Bound <- {"b1"}, Leased <- {"b1"}, Replacing <- {}, Dpi <- {},
  Telegram <- {}, Handlers <- {"h1", "h2"}, Watcher <- "watcher", None <- "none",
  Offered <- {"connect", "promote", "confirm", "disconnect"}, MaxRequests <- 2, MaxEvents <- 1,
  pc <- handlerPc

ASSUME Waiting!TargetsAssumption /\ Waiting!BoundsAssumption

MCInit ==
  /\ runs \in {"host", "dispatcher"}
  /\ Init /\ Waiting!Init
  /\ runs = "host" => ~host.armed

MCNext ==
  \/ runs = "host" /\ Next /\ UNCHANGED <<runs, dispatcherVars>>
  \/ runs = "dispatcher" /\ Waiting!Next /\ UNCHANGED <<runs, vars>>

\* The fairness of each module, while it runs.
MCFairness ==
  /\ WF_vars(runs = "host" /\ HandlerStep)
  /\ WF_vars(runs = "host" /\ Restart)
  /\ SF_vars(runs = "host" /\ Initialize)
  /\ SF_vars(runs = "host" /\ phase = "recoveryRequired" /\ Disconnect)
  /\ \A h \in {"h1", "h2"} :
       SF_dispatcherVars(/\ runs = "dispatcher"
                         /\ Waiting!Handles(h) \/ Waiting!ConfirmLock(h) \/ Waiting!Join(h))
  /\ SF_dispatcherVars(runs = "dispatcher" /\ (Waiting!Watches \/ Waiting!CleanLock))

MCSpec == MCInit /\ [][MCNext]_<<runs, vars, dispatcherVars>> /\ MCFairness

\* Every request is answered and every lost session ends: see DispatchEnds in
\* WindowsDispatcher.
NobodyWaits == runs = "dispatcher" => Waiting!DispatchEnds
=============================================================================

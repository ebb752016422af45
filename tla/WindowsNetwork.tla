--------------------------- MODULE WindowsNetwork ---------------------------
(***************************************************************************)
(* What the Windows service knows of the machine's network and changes in  *)
(* it: the observer, the snapshot of the POKROV adapter and the transition *)
(* guard.  They share no state; each keeps its own specification.          *)
(***************************************************************************)
EXTENDS WindowsNetworkObserver

CONSTANTS
  UserAddresses, CoreAddresses, UserRoutes, CoreRoutes, OnLink, Families,
  MaximumAddresses, MaximumRoutes, MaxFailed,            \* WindowsNetworkState
  Layers, Foreign, MaxFaults, MaxCrashes, MaxOutside     \* WindowsTransitionGuard

VARIABLES
  adapter, snapshot, step, draft, todo, session, user, twin, failed,
                                                         \* WindowsNetworkState
  sublayer, filter, foreign, engine, state, call, at, last_failure, cause, report, started,
  owed, repair, raced, faults, crashes, outside, touched \* WindowsTransitionGuard

adapterVars == <<adapter, snapshot, step, draft, todo, session, user, twin, failed>>
guardVars == <<sublayer, filter, foreign, engine, state, call, at, last_failure, cause, report,
               started, owed, repair, raced, faults, crashes, outside, touched>>

Adapter == INSTANCE WindowsNetworkState WITH pc <- step, faults <- failed, MaxFaults <- MaxFailed
Guard == INSTANCE WindowsTransitionGuard

\* The adapter is given back as the user had it (service_network_state.cpp; see
\* AdapterIsTheUsers in WindowsNetworkState).
AdapterIsTheUsers == Adapter!AdapterIsTheUsers

\* What reads armed blocks, and stays until somebody asks for its removal
\* (service_transition_guard.cpp; see BlockIsKept in WindowsTransitionGuard).
BlockIsKept == Guard!BlockIsKept
=============================================================================

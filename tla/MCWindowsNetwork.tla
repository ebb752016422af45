-------------------------- MODULE MCWindowsNetwork --------------------------
(* The network side of the Windows service for TLC: a behaviour runs one of its *)
(* parts and leaves the others in their initial state.                         *)
EXTENDS WindowsNetwork, Sequences

VARIABLE runs   \* the one that runs

\* The observer with changes of the network, and with restarts.
Changing == INSTANCE WindowsNetworkObserver WITH
  MaxChanges <- 2, MaxReads <- 2, MaxRestarts <- 0
Restarted == INSTANCE WindowsNetworkObserver WITH
  MaxChanges <- 1, MaxReads <- 1, MaxRestarts <- 2

\* Addresses and routes are numbered apart; an address brings one on-link route.
MCOnLink == [a \in 1..3 |-> a + 10]

\* Other filters.  In sublayers around the guard's weight (2): hard permits at one
\* layer, permits and a callout for the service and its executable at the other, a
\* disabled filter.  In the guard's own sublayer: the service's permit for its
\* control socket, and a permit for everybody.
Others ==
  [layer : {"connect"}, home : {"other"}, weight : {1, 2}, act : {"hard"}, who : {"any"}]
  \cup [layer : {"accept"}, home : {"other"}, weight : {3}, act : {"hard", "callout"}, who : {"service"}]
  \cup [layer : {"accept"}, home : {"other"}, weight : {3}, act : {"hard"}, who : {"app"}]
  \cup [layer : {"connect"}, home : {"other"}, weight : {3}, act : {"disabled"}, who : {"any"}]
  \cup [layer : {"connect"}, home : {"guard"}, weight : {2}, act : {"soft"}, who : {"service", "any"}]

\* The guard beside other software, and with failing calls.
Beside == INSTANCE WindowsTransitionGuard WITH MaxFaults <- 0
Failing == INSTANCE WindowsTransitionGuard WITH Foreign <- {}, MaxOutside <- 1

ASSUME ObserverAssumption /\ Adapter!StateAssumption

\* Those that do not run are all in one of their initial states.
MCInit ==
  /\ runs \in {"observer", "restarted", "adapter", "guard", "failing"}
  /\ Init /\ (runs \notin {"observer", "restarted"} => saltFile = None)
  /\ Adapter!Init /\ (runs # "adapter" => adapter = None)
  /\ Guard!Init /\ (runs \notin {"guard", "failing"} => ~sublayer)

MCNext ==
  \/ /\ \/ runs = "observer" /\ Changing!Next
        \/ runs = "restarted" /\ Restarted!Next
     /\ UNCHANGED <<runs, adapterVars, guardVars>>
  \/ /\ runs = "adapter" /\ Adapter!Next
     /\ UNCHANGED <<runs, vars, guardVars>>
  \/ /\ \/ runs = "guard" /\ Beside!Next
        \/ runs = "failing" /\ Failing!Next
     /\ UNCHANGED <<runs, vars, adapterVars>>

\* A rollback that did not succeed is tried again, and a process that has called
\* the filtering engine goes on.
MCFairness ==
  /\ WF_adapterVars(runs = "adapter" /\ Adapter!Restores)
  /\ \A p \in Failing!Procs : WF_guardVars(runs = "failing" /\ Failing!Step(p))

MCSpec ==
  MCInit /\ [][MCNext]_<<runs, vars, adapterVars, guardVars>> /\ MCFairness

\* Rollbacks end and the repair command clears the guard (RollbackEnds in
\* WindowsNetworkState, RepairClears in WindowsTransitionGuard).
NetworkIsReleased ==
  /\ runs = "adapter" => Adapter!RollbackEnds
  /\ runs = "failing" => Failing!RepairClears
================================================================================

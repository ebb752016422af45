---------------------- MODULE LinuxBoundConnect_proofs ----------------------
(***************************************************************************)
(* Proofs for LinuxBoundConnect, for every set of requests and every bound *)
(* on faults and network changes.                                          *)
(***************************************************************************)
EXTENDS LinuxBoundConnect, TLAPS

\* done is the handler's own account of itself.
DoneIsFinished == \A r \in Requests : r \in done <=> handler[r] = "finished"

\* Only the handler that owns the new transaction works under mu, and its child
\* has not been asked for a lease.
WorkingHoldsMu ==
  \A r \in Requests : handler[r] \in {"executing", "started"} =>
    mu = "connect" /\ boundConnectRequestID = r /\ coreLease = "none"

\* An invocation that has not reached Prepare is open and owns nothing.
WaitingIsOpen ==
  \A r \in Requests : handler[r] \in {"authorizing", "waiting"} =>
    r \notin stopped /\ boundConnectRequestID # r

\* A request that is not admitted has left no trace.
IdleIsUntouched ==
  \A r \in Requests : handler[r] \in {"idle", "refused"} =>
    r \notin stopped /\ boundConnectRequestID # r

\* Without a transaction there is no lease to report.
NoTransactionNoLease ==
  transaction = "none" => ~transportPromoted

\* The session remembers the reply that mu is still held for.
ReplyIsRemembered == mu = "promoted" => coreLease = "acked"

\* mu is held for a promotion only on behalf of an owner.
PromoterOwns == mu \in {"promote", "promoted"} => boundConnectRequestID \in Requests

\* Unless the network has changed, the watcher acts because the process is gone,
\* and has said so.
ActingIsExplained ==
  \A r \in Requests :
    watcher[r] \in {"acting", "waiting"} => r \in networkChanged \/ r \in peerLost

\* TypeOK, in the groups the proof takes apart.
TypeSets ==
  /\ stopped \subseteq Requests /\ done \subseteq Requests
  /\ cancelled \subseteq Requests /\ peerLost \subseteq Requests
  /\ networkChanged \subseteq Requests /\ settled \subseteq Requests /\ alive \subseteq Requests
TypeRequests ==
  /\ boundConnectCall \in Requests \cup {NoRequest}
  /\ boundConnectRequestID \in Requests \cup {NoRequest}
TypeFunctions ==
  /\ networkRef \in [Requests -> 0..MaxNetworks]
  /\ handler \in [Requests -> {"idle", "refused", "authorizing", "waiting", "executing",
                               "started", "finishing", "finished"}]
  /\ watcher \in [Requests -> {"none", "running", "acting", "waiting", "exited"}]
  /\ canceller \in [Requests -> {"idle", "waiting"}]
TypeRuntime ==
  /\ mu \in {"free", "connect", "promote", "promoted"}
  /\ transaction \in {"none", "fresh", "active", "recoveryRequired"}
  /\ phase \in {"running", "staged"}
  /\ core \in {"none", "alive", "exited"}
  /\ coreLease \in {"none", "accepted", "acked", "terminated"}
TypeNumbers == network \in 0..MaxNetworks /\ faults \in 0..MaxFaults
TypeFlags ==
  /\ recoveryRequired \in BOOLEAN /\ transportPromoted \in BOOLEAN
  /\ transportLeaseRef \in BOOLEAN /\ closed \in BOOLEAN /\ notice \in BOOLEAN

IInv ==
  /\ TypeOK
  /\ OwnerIsTracked /\ DoneReflectsOwner /\ SettledIsFinal /\ OneInvocation
  /\ PromotedOutlivesUI /\ PromotedIsHeld /\ AckLossIsRestored
  /\ DoneIsFinished /\ WorkingHoldsMu /\ WaitingIsOpen /\ IdleIsUntouched
  /\ NoTransactionNoLease /\ ReplyIsRemembered /\ PromoterOwns /\ ActingIsExplained

-----------------------------------------------------------------------------
\* What stop leaves: everything it found, with the transaction marked; or
\* nothing, and the owner released.
StopOutcome ==
  \/ /\ stopped' = stopped /\ boundConnectRequestID' = boundConnectRequestID
     /\ transportPromoted' = transportPromoted /\ transportLeaseRef' = transportLeaseRef
     /\ coreLease' = coreLease
     /\ \/ transaction = "none" /\ transaction' = "none"
        \/ transaction # "none" /\ transaction' = "recoveryRequired"
  \/ /\ stopped' = stopped \cup {r \in Requests : boundConnectRequestID = r /\ boundConnectCall = r}
     /\ boundConnectRequestID' = NoRequest
     /\ transportPromoted' = FALSE /\ transportLeaseRef' = FALSE
     /\ transaction' = "none" /\ coreLease' = "none"

LEMMA StopSummary == ASSUME Stop PROVE StopOutcome
  <1>1. CASE StopSucceeds
    BY <1>1 DEF StopOutcome, StopSucceeds, Restored, ReleaseBoundConnect, runtimeVars, ownerVars
  <1>2. CASE StopFails
    BY <1>2 DEF StopOutcome, StopFails, ownerVars
  <1> QED BY <1>1, <1>2 DEF Stop

LEMMA StopTypes ==
  ASSUME TypeOK, Stop
  PROVE  /\ phase' \in {"running", "staged"}
         /\ core' \in {"none", "alive", "exited"}
         /\ faults' \in 0..MaxFaults
         /\ recoveryRequired' \in BOOLEAN
  <1>1. /\ phase' \in {"running", "staged"}
        /\ core' \in {"none", "alive", "exited"}
    BY DEF TypeOK, Stop, StopSucceeds, StopFails, Restored, runtimeVars
  <1>2. faults' \in 0..MaxFaults
    <2>1. faults' = faults \/ (faults < MaxFaults /\ faults' = faults + 1)
      BY DEF Stop, StopSucceeds, StopFails, Fault, NoFault
    <2> QED BY <2>1, FaultAssumption DEF TypeOK
  <1>3. recoveryRequired' \in BOOLEAN
    <2>1. recoveryRequired \in BOOLEAN BY Zenon DEF TypeOK
    <2>2. \/ recoveryRequired' = recoveryRequired
          \/ recoveryRequired' = TRUE \/ recoveryRequired' = FALSE
      BY Zenon DEF Stop, StopSucceeds, StopFails, runtimeVars
    <2> QED BY <2>1, <2>2, Zenon
  <1> QED BY <1>1, <1>2, <1>3

LEMMA StopFlags ==
  ASSUME TypeOK, Stop
  PROVE  /\ recoveryRequired' \in BOOLEAN
         /\ transportPromoted' \in BOOLEAN /\ transportLeaseRef' \in BOOLEAN
  <1>1. transportPromoted \in BOOLEAN /\ transportLeaseRef \in BOOLEAN
    BY Zenon DEF TypeOK
  <1>2. /\ transportPromoted' = transportPromoted \/ transportPromoted' = FALSE
        /\ transportLeaseRef' = transportLeaseRef \/ transportLeaseRef' = FALSE
    BY StopSummary, Zenon DEF StopOutcome
  <1> QED BY <1>1, <1>2, StopTypes, Zenon

\* The owner and its invocation are released together.
LEMMA StopKeepsOwner ==
  ASSUME OwnerIsTracked, Stop, boundConnectCall' = boundConnectCall
  PROVE  OwnerIsTracked'
  <1>1. CASE boundConnectRequestID' = NoRequest
    BY <1>1 DEF OwnerIsTracked
  <1>2. CASE boundConnectRequestID' # NoRequest
    <2>1. /\ stopped' = stopped /\ boundConnectRequestID' = boundConnectRequestID
          /\ transaction # "none" => transaction' = "recoveryRequired"
      BY <1>2, StopSummary DEF StopOutcome
    <2> QED BY <1>2, <2>1 DEF OwnerIsTracked, Current
  <1> QED BY <1>1, <1>2

\* stop touches no request that was not admitted.
LEMMA StopKeepsIdle ==
  ASSUME IdleIsUntouched, Stop, handler' = handler PROVE IdleIsUntouched'
  BY StopSummary, RequestAssumption DEF IdleIsUntouched, StopOutcome

LEMMA CancelStops ==
  ASSUME NEW r \in Requests, CancelSettle(r)
  PROVE  \/ Stop
         \/ UNCHANGED <<stopped, boundConnectRequestID, transportPromoted, transportLeaseRef,
                        transaction, coreLease>>
  BY DEF CancelSettle, Stop, ownerVars, runtimeVars

-----------------------------------------------------------------------------

\* The flags and the sets of requests.
LEMMA SetsTyped ==
  ASSUME IInv, Next PROVE TypeSets'
  <1> USE DEF IInv, TypeOK, TypeSets, Current, NoFault, ReleaseBoundConnect,
          callVars, ownerVars, runtimeVars, handlerVars, envVars, Restored
  <1>1. ASSUME NEW r \in Requests, BeginBoundConnect(r) PROVE TypeSets'
    BY <1>1 DEF BeginBoundConnect
  <1>2. ASSUME NEW r \in Requests, Authorize(r) PROVE TypeSets'
    BY <1>2 DEF Authorize
  <1>3. ASSUME NEW r \in Requests, Prepare(r) PROVE TypeSets'
    BY <1>3 DEF Prepare
  <1>4. ASSUME NEW r \in Requests, Execute(r) PROVE TypeSets'
    BY <1>4 DEF Execute
  <1>5. ASSUME NEW r \in Requests, Settle(r) PROVE TypeSets'
    BY <1>5, StopSummary DEF Settle, StopOutcome
  <1>6. ASSUME NEW r \in Requests, Finish(r) PROVE TypeSets'
    BY <1>6 DEF Finish
  <1>7. ASSUME NEW r \in Requests, WatchOver(r) PROVE TypeSets'
    BY <1>7 DEF WatchOver
  <1>8. ASSUME NEW r \in Requests, WatchPeer(r) PROVE TypeSets'
    BY <1>8 DEF WatchPeer
  <1>9. ASSUME NEW r \in Requests, WatchNetwork(r) PROVE TypeSets'
    BY <1>9 DEF WatchNetwork
  <1>10. ASSUME NEW r \in Requests, WatchDecide(r) PROVE TypeSets'
    BY <1>10 DEF WatchDecide
  <1>11. ASSUME NEW r \in Requests, WatchStop(r) PROVE TypeSets'
    BY <1>11, StopSummary DEF WatchStop, StopOutcome
  <1>12. ASSUME NEW r \in Requests, CancelConnect(r) PROVE TypeSets'
    BY <1>12 DEF CancelConnect
  <1>13. ASSUME NEW r \in Requests, CancelTimeout(r) PROVE TypeSets'
    BY <1>13 DEF CancelTimeout
  <1>14. ASSUME NEW r \in Requests, CancelSettle(r) PROVE TypeSets'
    BY <1>14, StopSummary DEF CancelSettle, Stop, StopOutcome
  <1>15. ASSUME NEW r \in Requests, PromoteStart(r) PROVE TypeSets'
    BY <1>15 DEF PromoteStart
  <1>16. ASSUME NEW r \in Requests, Revoke(r) PROVE TypeSets'
    BY <1>16, StopSummary DEF Revoke, StopOutcome
  <1>17. ASSUME NEW r \in Requests, CallerGone(r) PROVE TypeSets'
    BY <1>17 DEF CallerGone
  <1>18. ASSUME NEW r \in Requests, PeerDies(r) PROVE TypeSets'
    BY <1>18 DEF PeerDies
  <1>19. CASE PromoteLost
    BY <1>19, StopSummary DEF PromoteLost, StopOutcome
  <1>20. CASE PromoteReply
    BY <1>20 DEF PromoteReply
  <1>21. CASE PromoteEnd
    BY <1>21, StopSummary DEF PromoteEnd, StopOutcome
  <1>22. CASE LegacyConnect
    BY <1>22 DEF LegacyConnect
  <1>23. CASE Disconnect
    BY <1>23, StopSummary DEF Disconnect, StopOutcome
  <1>24. CASE SettleExitedCore
    BY <1>24, StopSummary DEF SettleExitedCore, StopOutcome
  <1>25. CASE Close
    BY <1>25, StopSummary DEF Close, StopOutcome
  <1>26. CASE CancelBoundNetwork
    BY <1>26 DEF CancelBoundNetwork
  <1>27. CASE CoreDies
    BY <1>27 DEF CoreDies
  <1>28. CASE NetworkChanges
    BY <1>28 DEF NetworkChanges
  <1> QED BY <1>1, <1>2, <1>3, <1>4, <1>5, <1>6, <1>7, <1>8, <1>9, <1>10, <1>11,
             <1>12, <1>13, <1>14, <1>15, <1>16, <1>17, <1>18, <1>19, <1>20, <1>21,
             <1>22, <1>23, <1>24, <1>25, <1>26, <1>27, <1>28
         DEF Next, Handler, Watcher, Canceller, PromoteWait

\* The retained invocation and the owner.
LEMMA RequestsTyped ==
  ASSUME IInv, Next PROVE TypeRequests'
  <1> USE DEF IInv, TypeOK, TypeRequests, Current, NoFault, ReleaseBoundConnect,
          callVars, ownerVars, runtimeVars, handlerVars, envVars, Restored
  <1>1. ASSUME NEW r \in Requests, BeginBoundConnect(r) PROVE TypeRequests'
    BY <1>1 DEF BeginBoundConnect
  <1>2. ASSUME NEW r \in Requests, Authorize(r) PROVE TypeRequests'
    BY <1>2 DEF Authorize
  <1>3. ASSUME NEW r \in Requests, Prepare(r) PROVE TypeRequests'
    BY <1>3 DEF Prepare
  <1>4. ASSUME NEW r \in Requests, Execute(r) PROVE TypeRequests'
    BY <1>4 DEF Execute
  <1>5. ASSUME NEW r \in Requests, Settle(r) PROVE TypeRequests'
    BY <1>5, StopSummary DEF Settle, StopOutcome
  <1>6. ASSUME NEW r \in Requests, Finish(r) PROVE TypeRequests'
    BY <1>6 DEF Finish
  <1>7. ASSUME NEW r \in Requests, WatchOver(r) PROVE TypeRequests'
    BY <1>7 DEF WatchOver
  <1>8. ASSUME NEW r \in Requests, WatchPeer(r) PROVE TypeRequests'
    BY <1>8 DEF WatchPeer
  <1>9. ASSUME NEW r \in Requests, WatchNetwork(r) PROVE TypeRequests'
    BY <1>9 DEF WatchNetwork
  <1>10. ASSUME NEW r \in Requests, WatchDecide(r) PROVE TypeRequests'
    BY <1>10 DEF WatchDecide
  <1>11. ASSUME NEW r \in Requests, WatchStop(r) PROVE TypeRequests'
    BY <1>11, StopSummary DEF WatchStop, StopOutcome
  <1>12. ASSUME NEW r \in Requests, CancelConnect(r) PROVE TypeRequests'
    BY <1>12 DEF CancelConnect
  <1>13. ASSUME NEW r \in Requests, CancelTimeout(r) PROVE TypeRequests'
    BY <1>13 DEF CancelTimeout
  <1>14. ASSUME NEW r \in Requests, CancelSettle(r) PROVE TypeRequests'
    BY <1>14, StopSummary DEF CancelSettle, Stop, StopOutcome
  <1>15. ASSUME NEW r \in Requests, PromoteStart(r) PROVE TypeRequests'
    BY <1>15 DEF PromoteStart
  <1>16. ASSUME NEW r \in Requests, Revoke(r) PROVE TypeRequests'
    BY <1>16, StopSummary DEF Revoke, StopOutcome
  <1>17. ASSUME NEW r \in Requests, CallerGone(r) PROVE TypeRequests'
    BY <1>17 DEF CallerGone
  <1>18. ASSUME NEW r \in Requests, PeerDies(r) PROVE TypeRequests'
    BY <1>18 DEF PeerDies
  <1>19. CASE PromoteLost
    BY <1>19, StopSummary DEF PromoteLost, StopOutcome
  <1>20. CASE PromoteReply
    BY <1>20 DEF PromoteReply
  <1>21. CASE PromoteEnd
    BY <1>21, StopSummary DEF PromoteEnd, StopOutcome
  <1>22. CASE LegacyConnect
    BY <1>22 DEF LegacyConnect
  <1>23. CASE Disconnect
    BY <1>23, StopSummary DEF Disconnect, StopOutcome
  <1>24. CASE SettleExitedCore
    BY <1>24, StopSummary DEF SettleExitedCore, StopOutcome
  <1>25. CASE Close
    BY <1>25, StopSummary DEF Close, StopOutcome
  <1>26. CASE CancelBoundNetwork
    BY <1>26 DEF CancelBoundNetwork
  <1>27. CASE CoreDies
    BY <1>27 DEF CoreDies
  <1>28. CASE NetworkChanges
    BY <1>28 DEF NetworkChanges
  <1> QED BY <1>1, <1>2, <1>3, <1>4, <1>5, <1>6, <1>7, <1>8, <1>9, <1>10, <1>11,
             <1>12, <1>13, <1>14, <1>15, <1>16, <1>17, <1>18, <1>19, <1>20, <1>21,
             <1>22, <1>23, <1>24, <1>25, <1>26, <1>27, <1>28
         DEF Next, Handler, Watcher, Canceller, PromoteWait

\* What each request has reached.
LEMMA FunctionsTyped ==
  ASSUME IInv, Next PROVE TypeFunctions'
  <1> USE DEF IInv, TypeOK, TypeFunctions, callVars, ownerVars, runtimeVars,
          handlerVars, envVars
  <1>1. ASSUME NEW r \in Requests, BeginBoundConnect(r) PROVE TypeFunctions'
    BY <1>1, NetworkAssumption DEF BeginBoundConnect
  <1>2. ASSUME NEW r \in Requests, Authorize(r) PROVE TypeFunctions'
    BY <1>2, NetworkAssumption DEF Authorize
  <1>3. ASSUME NEW r \in Requests, Prepare(r) PROVE TypeFunctions'
    BY <1>3, NetworkAssumption DEF Prepare
  <1>4. ASSUME NEW r \in Requests, Execute(r) PROVE TypeFunctions'
    BY <1>4, NetworkAssumption DEF Execute
  <1>5. ASSUME NEW r \in Requests, Settle(r) PROVE TypeFunctions'
    BY <1>5, StopSummary, NetworkAssumption DEF Settle, StopOutcome
  <1>6. ASSUME NEW r \in Requests, Finish(r) PROVE TypeFunctions'
    BY <1>6, NetworkAssumption DEF Finish
  <1>7. ASSUME NEW r \in Requests, WatchOver(r) PROVE TypeFunctions'
    BY <1>7, NetworkAssumption DEF WatchOver
  <1>8. ASSUME NEW r \in Requests, WatchPeer(r) PROVE TypeFunctions'
    BY <1>8, NetworkAssumption DEF WatchPeer
  <1>9. ASSUME NEW r \in Requests, WatchNetwork(r) PROVE TypeFunctions'
    BY <1>9, NetworkAssumption DEF WatchNetwork
  <1>10. ASSUME NEW r \in Requests, WatchDecide(r) PROVE TypeFunctions'
    BY <1>10, NetworkAssumption DEF WatchDecide
  <1>11. ASSUME NEW r \in Requests, WatchStop(r) PROVE TypeFunctions'
    BY <1>11, StopSummary, NetworkAssumption DEF WatchStop, StopOutcome
  <1>12. ASSUME NEW r \in Requests, CancelConnect(r) PROVE TypeFunctions'
    BY <1>12, NetworkAssumption DEF CancelConnect
  <1>13. ASSUME NEW r \in Requests, CancelTimeout(r) PROVE TypeFunctions'
    BY <1>13, NetworkAssumption DEF CancelTimeout
  <1>14. ASSUME NEW r \in Requests, CancelSettle(r) PROVE TypeFunctions'
    BY <1>14, StopSummary, NetworkAssumption DEF CancelSettle, Stop, StopOutcome
  <1>15. ASSUME NEW r \in Requests, PromoteStart(r) PROVE TypeFunctions'
    BY <1>15, NetworkAssumption DEF PromoteStart
  <1>16. ASSUME NEW r \in Requests, Revoke(r) PROVE TypeFunctions'
    BY <1>16, StopSummary, NetworkAssumption DEF Revoke, StopOutcome
  <1>17. ASSUME NEW r \in Requests, CallerGone(r) PROVE TypeFunctions'
    BY <1>17, NetworkAssumption DEF CallerGone
  <1>18. ASSUME NEW r \in Requests, PeerDies(r) PROVE TypeFunctions'
    BY <1>18, NetworkAssumption DEF PeerDies
  <1>19. CASE PromoteLost
    BY <1>19, StopSummary, NetworkAssumption DEF PromoteLost, StopOutcome
  <1>20. CASE PromoteReply
    BY <1>20, NetworkAssumption DEF PromoteReply
  <1>21. CASE PromoteEnd
    BY <1>21, StopSummary, NetworkAssumption DEF PromoteEnd, StopOutcome
  <1>22. CASE LegacyConnect
    BY <1>22, NetworkAssumption DEF LegacyConnect
  <1>23. CASE Disconnect
    BY <1>23, StopSummary, NetworkAssumption DEF Disconnect, StopOutcome
  <1>24. CASE SettleExitedCore
    BY <1>24, StopSummary, NetworkAssumption DEF SettleExitedCore, StopOutcome
  <1>25. CASE Close
    BY <1>25, StopSummary, NetworkAssumption DEF Close, StopOutcome
  <1>26. CASE CancelBoundNetwork
    BY <1>26, NetworkAssumption DEF CancelBoundNetwork
  <1>27. CASE CoreDies
    BY <1>27, NetworkAssumption DEF CoreDies
  <1>28. CASE NetworkChanges
    BY <1>28, NetworkAssumption DEF NetworkChanges
  <1> QED BY <1>1, <1>2, <1>3, <1>4, <1>5, <1>6, <1>7, <1>8, <1>9, <1>10, <1>11,
             <1>12, <1>13, <1>14, <1>15, <1>16, <1>17, <1>18, <1>19, <1>20, <1>21,
             <1>22, <1>23, <1>24, <1>25, <1>26, <1>27, <1>28
         DEF Next, Handler, Watcher, Canceller, PromoteWait

\* A stop releases the owner and its invocation together.
LEMMA OwnerTracked ==
  ASSUME IInv, Next PROVE OwnerIsTracked'
  <1> USE DEF IInv, OwnerIsTracked, Current, NoFault, ReleaseBoundConnect,
          callVars, ownerVars, runtimeVars, handlerVars, envVars, Restored,
          WaitingIsOpen, OneInvocation
  <1>1. ASSUME NEW r \in Requests, BeginBoundConnect(r) PROVE OwnerIsTracked'
    BY <1>1, RequestAssumption DEF BeginBoundConnect
  <1>2. ASSUME NEW r \in Requests, Authorize(r) PROVE OwnerIsTracked'
    BY <1>2, RequestAssumption DEF Authorize
  <1>3. ASSUME NEW r \in Requests, Prepare(r) PROVE OwnerIsTracked'
    BY <1>3, RequestAssumption DEF Prepare
  <1>4. ASSUME NEW r \in Requests, Execute(r) PROVE OwnerIsTracked'
    BY <1>4, RequestAssumption DEF Execute
  <1>5. ASSUME NEW r \in Requests, Settle(r) PROVE OwnerIsTracked'
    <2>1. CASE Stop
      BY <1>5, <2>1, StopKeepsOwner DEF Settle
    <2>2. CASE ~Stop
      BY <1>5, <2>2 DEF Settle
    <2> QED BY <2>1, <2>2
  <1>6. ASSUME NEW r \in Requests, Finish(r) PROVE OwnerIsTracked'
    BY <1>6, RequestAssumption DEF Finish
  <1>7. ASSUME NEW r \in Requests, WatchOver(r) PROVE OwnerIsTracked'
    BY <1>7, RequestAssumption DEF WatchOver
  <1>8. ASSUME NEW r \in Requests, WatchPeer(r) PROVE OwnerIsTracked'
    BY <1>8, RequestAssumption DEF WatchPeer
  <1>9. ASSUME NEW r \in Requests, WatchNetwork(r) PROVE OwnerIsTracked'
    BY <1>9, RequestAssumption DEF WatchNetwork
  <1>10. ASSUME NEW r \in Requests, WatchDecide(r) PROVE OwnerIsTracked'
    BY <1>10, RequestAssumption DEF WatchDecide
  <1>11. ASSUME NEW r \in Requests, WatchStop(r) PROVE OwnerIsTracked'
    <2>1. CASE Stop
      BY <1>11, <2>1, StopKeepsOwner DEF WatchStop
    <2>2. CASE ~Stop
      BY <1>11, <2>2 DEF WatchStop
    <2> QED BY <2>1, <2>2
  <1>12. ASSUME NEW r \in Requests, CancelConnect(r) PROVE OwnerIsTracked'
    BY <1>12, RequestAssumption DEF CancelConnect
  <1>13. ASSUME NEW r \in Requests, CancelTimeout(r) PROVE OwnerIsTracked'
    BY <1>13, RequestAssumption DEF CancelTimeout
  <1>14. ASSUME NEW r \in Requests, CancelSettle(r) PROVE OwnerIsTracked'
    BY <1>14, StopSummary, RequestAssumption DEF CancelSettle, Stop, StopOutcome
  <1>15. ASSUME NEW r \in Requests, PromoteStart(r) PROVE OwnerIsTracked'
    BY <1>15, RequestAssumption DEF PromoteStart
  <1>16. ASSUME NEW r \in Requests, Revoke(r) PROVE OwnerIsTracked'
    BY <1>16, StopSummary, RequestAssumption DEF Revoke, StopOutcome
  <1>17. ASSUME NEW r \in Requests, CallerGone(r) PROVE OwnerIsTracked'
    BY <1>17, RequestAssumption DEF CallerGone
  <1>18. ASSUME NEW r \in Requests, PeerDies(r) PROVE OwnerIsTracked'
    BY <1>18, RequestAssumption DEF PeerDies
  <1>19. CASE PromoteLost
    BY <1>19, StopKeepsOwner DEF PromoteLost
  <1>20. CASE PromoteReply
    BY <1>20, RequestAssumption DEF PromoteReply
  <1>21. CASE PromoteEnd
    <2>1. CASE Stop
      BY <1>21, <2>1, StopKeepsOwner DEF PromoteEnd
    <2>2. CASE ~Stop
      BY <1>21, <2>2 DEF PromoteEnd
    <2> QED BY <2>1, <2>2
  <1>22. CASE LegacyConnect
    BY <1>22, RequestAssumption DEF LegacyConnect
  <1>23. CASE Disconnect
    BY <1>23, StopKeepsOwner DEF Disconnect
  <1>24. CASE SettleExitedCore
    BY <1>24, StopKeepsOwner DEF SettleExitedCore
  <1>25. CASE Close
    BY <1>25, StopKeepsOwner DEF Close
  <1>26. CASE CancelBoundNetwork
    BY <1>26, RequestAssumption DEF CancelBoundNetwork
  <1>27. CASE CoreDies
    BY <1>27, RequestAssumption DEF CoreDies
  <1>28. CASE NetworkChanges
    BY <1>28, RequestAssumption DEF NetworkChanges
  <1> QED BY <1>1, <1>2, <1>3, <1>4, <1>5, <1>6, <1>7, <1>8, <1>9, <1>10, <1>11,
             <1>12, <1>13, <1>14, <1>15, <1>16, <1>17, <1>18, <1>19, <1>20, <1>21,
             <1>22, <1>23, <1>24, <1>25, <1>26, <1>27, <1>28
         DEF Next, Handler, Watcher, Canceller, PromoteWait

\* The flag follows the owner.
LEMMA DoneReflects ==
  ASSUME IInv, Next PROVE DoneReflectsOwner'
  <1> USE DEF IInv, DoneReflectsOwner, OwnerIsTracked, Current, NoFault,
          ReleaseBoundConnect, callVars, ownerVars, runtimeVars, handlerVars,
          envVars, Restored, DoneIsFinished, TypeOK
  <1>1. ASSUME NEW r \in Requests, BeginBoundConnect(r) PROVE DoneReflectsOwner'
    BY <1>1, RequestAssumption DEF BeginBoundConnect
  <1>2. ASSUME NEW r \in Requests, Authorize(r) PROVE DoneReflectsOwner'
    BY <1>2, RequestAssumption DEF Authorize
  <1>3. ASSUME NEW r \in Requests, Prepare(r) PROVE DoneReflectsOwner'
    BY <1>3, RequestAssumption DEF Prepare
  <1>4. ASSUME NEW r \in Requests, Execute(r) PROVE DoneReflectsOwner'
    BY <1>4, RequestAssumption DEF Execute
  <1>5. ASSUME NEW r \in Requests, Settle(r) PROVE DoneReflectsOwner'
    BY <1>5, StopSummary, RequestAssumption DEF Settle, StopOutcome
  <1>6. ASSUME NEW r \in Requests, Finish(r) PROVE DoneReflectsOwner'
    BY <1>6, RequestAssumption DEF Finish
  <1>7. ASSUME NEW r \in Requests, WatchOver(r) PROVE DoneReflectsOwner'
    BY <1>7, RequestAssumption DEF WatchOver
  <1>8. ASSUME NEW r \in Requests, WatchPeer(r) PROVE DoneReflectsOwner'
    BY <1>8, RequestAssumption DEF WatchPeer
  <1>9. ASSUME NEW r \in Requests, WatchNetwork(r) PROVE DoneReflectsOwner'
    BY <1>9, RequestAssumption DEF WatchNetwork
  <1>10. ASSUME NEW r \in Requests, WatchDecide(r) PROVE DoneReflectsOwner'
    BY <1>10, RequestAssumption DEF WatchDecide
  <1>11. ASSUME NEW r \in Requests, WatchStop(r) PROVE DoneReflectsOwner'
    BY <1>11, StopSummary, RequestAssumption DEF WatchStop, StopOutcome
  <1>12. ASSUME NEW r \in Requests, CancelConnect(r) PROVE DoneReflectsOwner'
    BY <1>12, RequestAssumption DEF CancelConnect
  <1>13. ASSUME NEW r \in Requests, CancelTimeout(r) PROVE DoneReflectsOwner'
    BY <1>13, RequestAssumption DEF CancelTimeout
  <1>14. ASSUME NEW r \in Requests, CancelSettle(r) PROVE DoneReflectsOwner'
    BY <1>14, StopSummary, RequestAssumption DEF CancelSettle, Stop, StopOutcome
  <1>15. ASSUME NEW r \in Requests, PromoteStart(r) PROVE DoneReflectsOwner'
    BY <1>15, RequestAssumption DEF PromoteStart
  <1>16. ASSUME NEW r \in Requests, Revoke(r) PROVE DoneReflectsOwner'
    BY <1>16, StopSummary, RequestAssumption DEF Revoke, StopOutcome
  <1>17. ASSUME NEW r \in Requests, CallerGone(r) PROVE DoneReflectsOwner'
    BY <1>17, RequestAssumption DEF CallerGone
  <1>18. ASSUME NEW r \in Requests, PeerDies(r) PROVE DoneReflectsOwner'
    BY <1>18, RequestAssumption DEF PeerDies
  <1>19. CASE PromoteLost
    BY <1>19, StopSummary, RequestAssumption DEF PromoteLost, StopOutcome
  <1>20. CASE PromoteReply
    BY <1>20, RequestAssumption DEF PromoteReply
  <1>21. CASE PromoteEnd
    BY <1>21, StopSummary, RequestAssumption DEF PromoteEnd, StopOutcome
  <1>22. CASE LegacyConnect
    BY <1>22, RequestAssumption DEF LegacyConnect
  <1>23. CASE Disconnect
    BY <1>23, StopSummary, RequestAssumption DEF Disconnect, StopOutcome
  <1>24. CASE SettleExitedCore
    BY <1>24, StopSummary, RequestAssumption DEF SettleExitedCore, StopOutcome
  <1>25. CASE Close
    BY <1>25, StopSummary, RequestAssumption DEF Close, StopOutcome
  <1>26. CASE CancelBoundNetwork
    BY <1>26, RequestAssumption DEF CancelBoundNetwork
  <1>27. CASE CoreDies
    BY <1>27, RequestAssumption DEF CoreDies
  <1>28. CASE NetworkChanges
    BY <1>28, RequestAssumption DEF NetworkChanges
  <1> QED BY <1>1, <1>2, <1>3, <1>4, <1>5, <1>6, <1>7, <1>8, <1>9, <1>10, <1>11,
             <1>12, <1>13, <1>14, <1>15, <1>16, <1>17, <1>18, <1>19, <1>20, <1>21,
             <1>22, <1>23, <1>24, <1>25, <1>26, <1>27, <1>28
         DEF Next, Handler, Watcher, Canceller, PromoteWait

\* A receipt stays right.
LEMMA SettledFinal ==
  ASSUME IInv, Next PROVE SettledIsFinal'
  <1> USE DEF IInv, SettledIsFinal, Current, NoFault, ReleaseBoundConnect,
          callVars, ownerVars, runtimeVars, handlerVars, envVars, Restored,
          DoneReflectsOwner, DoneIsFinished, IdleIsUntouched, TypeOK
  <1>1. ASSUME NEW r \in Requests, BeginBoundConnect(r) PROVE SettledIsFinal'
    BY <1>1, RequestAssumption DEF BeginBoundConnect
  <1>2. ASSUME NEW r \in Requests, Authorize(r) PROVE SettledIsFinal'
    BY <1>2, RequestAssumption DEF Authorize
  <1>3. ASSUME NEW r \in Requests, Prepare(r) PROVE SettledIsFinal'
    BY <1>3, RequestAssumption DEF Prepare
  <1>4. ASSUME NEW r \in Requests, Execute(r) PROVE SettledIsFinal'
    BY <1>4, RequestAssumption DEF Execute
  <1>5. ASSUME NEW r \in Requests, Settle(r) PROVE SettledIsFinal'
    BY <1>5, StopSummary, RequestAssumption DEF Settle, StopOutcome
  <1>6. ASSUME NEW r \in Requests, Finish(r) PROVE SettledIsFinal'
    BY <1>6, RequestAssumption DEF Finish
  <1>7. ASSUME NEW r \in Requests, WatchOver(r) PROVE SettledIsFinal'
    BY <1>7, RequestAssumption DEF WatchOver
  <1>8. ASSUME NEW r \in Requests, WatchPeer(r) PROVE SettledIsFinal'
    BY <1>8, RequestAssumption DEF WatchPeer
  <1>9. ASSUME NEW r \in Requests, WatchNetwork(r) PROVE SettledIsFinal'
    BY <1>9, RequestAssumption DEF WatchNetwork
  <1>10. ASSUME NEW r \in Requests, WatchDecide(r) PROVE SettledIsFinal'
    BY <1>10, RequestAssumption DEF WatchDecide
  <1>11. ASSUME NEW r \in Requests, WatchStop(r) PROVE SettledIsFinal'
    BY <1>11, StopSummary, RequestAssumption DEF WatchStop, StopOutcome
  <1>12. ASSUME NEW r \in Requests, CancelConnect(r) PROVE SettledIsFinal'
    BY <1>12, RequestAssumption DEF CancelConnect
  <1>13. ASSUME NEW r \in Requests, CancelTimeout(r) PROVE SettledIsFinal'
    BY <1>13, RequestAssumption DEF CancelTimeout
  <1>14. ASSUME NEW r \in Requests, CancelSettle(r) PROVE SettledIsFinal'
    <2>1. handler' = handler /\ handler[r] = "finished" /\ r \in done
      BY <1>14 DEF CancelSettle
    <2>2. settled' = settled \/ (settled' = settled \cup {r} /\ r \in stopped')
      BY <1>14 DEF CancelSettle
    <2>3. CASE Stop
      <3>1. CASE boundConnectRequestID' = NoRequest
        BY <2>1, <2>2, <3>1, RequestAssumption
      <3>2. CASE boundConnectRequestID' # NoRequest
        <4>1. stopped' = stopped /\ boundConnectRequestID' = boundConnectRequestID
          BY <2>3, <3>2, StopSummary DEF StopOutcome
        <4> QED BY <2>1, <2>2, <4>1
      <3> QED BY <3>1, <3>2
    <2>4. CASE ~Stop
      BY <1>14, <2>1, <2>2, <2>4, CancelStops
    <2> QED BY <2>3, <2>4
  <1>15. ASSUME NEW r \in Requests, PromoteStart(r) PROVE SettledIsFinal'
    BY <1>15, RequestAssumption DEF PromoteStart
  <1>16. ASSUME NEW r \in Requests, Revoke(r) PROVE SettledIsFinal'
    BY <1>16, StopSummary, RequestAssumption DEF Revoke, StopOutcome
  <1>17. ASSUME NEW r \in Requests, CallerGone(r) PROVE SettledIsFinal'
    BY <1>17, RequestAssumption DEF CallerGone
  <1>18. ASSUME NEW r \in Requests, PeerDies(r) PROVE SettledIsFinal'
    BY <1>18, RequestAssumption DEF PeerDies
  <1>19. CASE PromoteLost
    BY <1>19, StopSummary, RequestAssumption DEF PromoteLost, StopOutcome
  <1>20. CASE PromoteReply
    BY <1>20, RequestAssumption DEF PromoteReply
  <1>21. CASE PromoteEnd
    BY <1>21, StopSummary, RequestAssumption DEF PromoteEnd, StopOutcome
  <1>22. CASE LegacyConnect
    BY <1>22, RequestAssumption DEF LegacyConnect
  <1>23. CASE Disconnect
    BY <1>23, StopSummary, RequestAssumption DEF Disconnect, StopOutcome
  <1>24. CASE SettleExitedCore
    BY <1>24, StopSummary, RequestAssumption DEF SettleExitedCore, StopOutcome
  <1>25. CASE Close
    BY <1>25, StopSummary, RequestAssumption DEF Close, StopOutcome
  <1>26. CASE CancelBoundNetwork
    BY <1>26, RequestAssumption DEF CancelBoundNetwork
  <1>27. CASE CoreDies
    BY <1>27, RequestAssumption DEF CoreDies
  <1>28. CASE NetworkChanges
    BY <1>28, RequestAssumption DEF NetworkChanges
  <1> QED BY <1>1, <1>2, <1>3, <1>4, <1>5, <1>6, <1>7, <1>8, <1>9, <1>10, <1>11,
             <1>12, <1>13, <1>14, <1>15, <1>16, <1>17, <1>18, <1>19, <1>20, <1>21,
             <1>22, <1>23, <1>24, <1>25, <1>26, <1>27, <1>28
         DEF Next, Handler, Watcher, Canceller, PromoteWait

\* An invocation is replaced only when it has finished.
LEMMA OneIsRetained ==
  ASSUME IInv, Next PROVE OneInvocation'
  <1> USE DEF IInv, OneInvocation, Current, NoFault, ReleaseBoundConnect,
          callVars, ownerVars, runtimeVars, handlerVars, envVars, Restored,
          OwnerIsTracked, DoneIsFinished, TypeOK
  <1>1. ASSUME NEW r \in Requests, BeginBoundConnect(r) PROVE OneInvocation'
    BY <1>1, RequestAssumption DEF BeginBoundConnect
  <1>2. ASSUME NEW r \in Requests, Authorize(r) PROVE OneInvocation'
    BY <1>2, RequestAssumption DEF Authorize
  <1>3. ASSUME NEW r \in Requests, Prepare(r) PROVE OneInvocation'
    BY <1>3, RequestAssumption DEF Prepare
  <1>4. ASSUME NEW r \in Requests, Execute(r) PROVE OneInvocation'
    BY <1>4, RequestAssumption DEF Execute
  <1>5. ASSUME NEW r \in Requests, Settle(r) PROVE OneInvocation'
    BY <1>5, StopSummary, RequestAssumption DEF Settle, StopOutcome
  <1>6. ASSUME NEW r \in Requests, Finish(r) PROVE OneInvocation'
    BY <1>6, RequestAssumption DEF Finish
  <1>7. ASSUME NEW r \in Requests, WatchOver(r) PROVE OneInvocation'
    BY <1>7, RequestAssumption DEF WatchOver
  <1>8. ASSUME NEW r \in Requests, WatchPeer(r) PROVE OneInvocation'
    BY <1>8, RequestAssumption DEF WatchPeer
  <1>9. ASSUME NEW r \in Requests, WatchNetwork(r) PROVE OneInvocation'
    BY <1>9, RequestAssumption DEF WatchNetwork
  <1>10. ASSUME NEW r \in Requests, WatchDecide(r) PROVE OneInvocation'
    BY <1>10, RequestAssumption DEF WatchDecide
  <1>11. ASSUME NEW r \in Requests, WatchStop(r) PROVE OneInvocation'
    BY <1>11, StopSummary, RequestAssumption DEF WatchStop, StopOutcome
  <1>12. ASSUME NEW r \in Requests, CancelConnect(r) PROVE OneInvocation'
    BY <1>12, RequestAssumption DEF CancelConnect
  <1>13. ASSUME NEW r \in Requests, CancelTimeout(r) PROVE OneInvocation'
    BY <1>13, RequestAssumption DEF CancelTimeout
  <1>14. ASSUME NEW r \in Requests, CancelSettle(r) PROVE OneInvocation'
    BY <1>14, StopSummary, RequestAssumption DEF CancelSettle, Stop, StopOutcome
  <1>15. ASSUME NEW r \in Requests, PromoteStart(r) PROVE OneInvocation'
    BY <1>15, RequestAssumption DEF PromoteStart
  <1>16. ASSUME NEW r \in Requests, Revoke(r) PROVE OneInvocation'
    BY <1>16, StopSummary, RequestAssumption DEF Revoke, StopOutcome
  <1>17. ASSUME NEW r \in Requests, CallerGone(r) PROVE OneInvocation'
    BY <1>17, RequestAssumption DEF CallerGone
  <1>18. ASSUME NEW r \in Requests, PeerDies(r) PROVE OneInvocation'
    BY <1>18, RequestAssumption DEF PeerDies
  <1>19. CASE PromoteLost
    BY <1>19, StopSummary, RequestAssumption DEF PromoteLost, StopOutcome
  <1>20. CASE PromoteReply
    BY <1>20, RequestAssumption DEF PromoteReply
  <1>21. CASE PromoteEnd
    BY <1>21, StopSummary, RequestAssumption DEF PromoteEnd, StopOutcome
  <1>22. CASE LegacyConnect
    BY <1>22, RequestAssumption DEF LegacyConnect
  <1>23. CASE Disconnect
    BY <1>23, StopSummary, RequestAssumption DEF Disconnect, StopOutcome
  <1>24. CASE SettleExitedCore
    BY <1>24, StopSummary, RequestAssumption DEF SettleExitedCore, StopOutcome
  <1>25. CASE Close
    BY <1>25, StopSummary, RequestAssumption DEF Close, StopOutcome
  <1>26. CASE CancelBoundNetwork
    BY <1>26, RequestAssumption DEF CancelBoundNetwork
  <1>27. CASE CoreDies
    BY <1>27, RequestAssumption DEF CoreDies
  <1>28. CASE NetworkChanges
    BY <1>28, RequestAssumption DEF NetworkChanges
  <1> QED BY <1>1, <1>2, <1>3, <1>4, <1>5, <1>6, <1>7, <1>8, <1>9, <1>10, <1>11,
             <1>12, <1>13, <1>14, <1>15, <1>16, <1>17, <1>18, <1>19, <1>20, <1>21,
             <1>22, <1>23, <1>24, <1>25, <1>26, <1>27, <1>28
         DEF Next, Handler, Watcher, Canceller, PromoteWait

\* done is set by finish alone.
LEMMA FinishedDone ==
  ASSUME IInv, Next PROVE DoneIsFinished'
  <1> USE DEF IInv, DoneIsFinished, callVars, ownerVars, runtimeVars,
          handlerVars, envVars, TypeOK
  <1>1. ASSUME NEW r \in Requests, BeginBoundConnect(r) PROVE DoneIsFinished'
    BY <1>1 DEF BeginBoundConnect
  <1>2. ASSUME NEW r \in Requests, Authorize(r) PROVE DoneIsFinished'
    BY <1>2 DEF Authorize
  <1>3. ASSUME NEW r \in Requests, Prepare(r) PROVE DoneIsFinished'
    BY <1>3 DEF Prepare
  <1>4. ASSUME NEW r \in Requests, Execute(r) PROVE DoneIsFinished'
    BY <1>4 DEF Execute
  <1>5. ASSUME NEW r \in Requests, Settle(r) PROVE DoneIsFinished'
    BY <1>5, StopSummary DEF Settle, StopOutcome
  <1>6. ASSUME NEW r \in Requests, Finish(r) PROVE DoneIsFinished'
    BY <1>6 DEF Finish
  <1>7. ASSUME NEW r \in Requests, WatchOver(r) PROVE DoneIsFinished'
    BY <1>7 DEF WatchOver
  <1>8. ASSUME NEW r \in Requests, WatchPeer(r) PROVE DoneIsFinished'
    BY <1>8 DEF WatchPeer
  <1>9. ASSUME NEW r \in Requests, WatchNetwork(r) PROVE DoneIsFinished'
    BY <1>9 DEF WatchNetwork
  <1>10. ASSUME NEW r \in Requests, WatchDecide(r) PROVE DoneIsFinished'
    BY <1>10 DEF WatchDecide
  <1>11. ASSUME NEW r \in Requests, WatchStop(r) PROVE DoneIsFinished'
    BY <1>11, StopSummary DEF WatchStop, StopOutcome
  <1>12. ASSUME NEW r \in Requests, CancelConnect(r) PROVE DoneIsFinished'
    BY <1>12 DEF CancelConnect
  <1>13. ASSUME NEW r \in Requests, CancelTimeout(r) PROVE DoneIsFinished'
    BY <1>13 DEF CancelTimeout
  <1>14. ASSUME NEW r \in Requests, CancelSettle(r) PROVE DoneIsFinished'
    BY <1>14, StopSummary DEF CancelSettle, Stop, StopOutcome
  <1>15. ASSUME NEW r \in Requests, PromoteStart(r) PROVE DoneIsFinished'
    BY <1>15 DEF PromoteStart
  <1>16. ASSUME NEW r \in Requests, Revoke(r) PROVE DoneIsFinished'
    BY <1>16, StopSummary DEF Revoke, StopOutcome
  <1>17. ASSUME NEW r \in Requests, CallerGone(r) PROVE DoneIsFinished'
    BY <1>17 DEF CallerGone
  <1>18. ASSUME NEW r \in Requests, PeerDies(r) PROVE DoneIsFinished'
    BY <1>18 DEF PeerDies
  <1>19. CASE PromoteLost
    BY <1>19, StopSummary DEF PromoteLost, StopOutcome
  <1>20. CASE PromoteReply
    BY <1>20 DEF PromoteReply
  <1>21. CASE PromoteEnd
    BY <1>21, StopSummary DEF PromoteEnd, StopOutcome
  <1>22. CASE LegacyConnect
    BY <1>22 DEF LegacyConnect
  <1>23. CASE Disconnect
    BY <1>23, StopSummary DEF Disconnect, StopOutcome
  <1>24. CASE SettleExitedCore
    BY <1>24, StopSummary DEF SettleExitedCore, StopOutcome
  <1>25. CASE Close
    BY <1>25, StopSummary DEF Close, StopOutcome
  <1>26. CASE CancelBoundNetwork
    BY <1>26 DEF CancelBoundNetwork
  <1>27. CASE CoreDies
    BY <1>27 DEF CoreDies
  <1>28. CASE NetworkChanges
    BY <1>28 DEF NetworkChanges
  <1> QED BY <1>1, <1>2, <1>3, <1>4, <1>5, <1>6, <1>7, <1>8, <1>9, <1>10, <1>11,
             <1>12, <1>13, <1>14, <1>15, <1>16, <1>17, <1>18, <1>19, <1>20, <1>21,
             <1>22, <1>23, <1>24, <1>25, <1>26, <1>27, <1>28
         DEF Next, Handler, Watcher, Canceller, PromoteWait

\* mu is given back when the handler has nothing more to do with the runtime.
LEMMA WorkingLocked ==
  ASSUME IInv, Next PROVE WorkingHoldsMu'
  <1> USE DEF IInv, WorkingHoldsMu, Current, NoFault, ReleaseBoundConnect,
          callVars, ownerVars, runtimeVars, handlerVars, envVars, Restored,
          TypeOK
  <1>1. ASSUME NEW r \in Requests, BeginBoundConnect(r) PROVE WorkingHoldsMu'
    BY <1>1, RequestAssumption DEF BeginBoundConnect
  <1>2. ASSUME NEW r \in Requests, Authorize(r) PROVE WorkingHoldsMu'
    BY <1>2, RequestAssumption DEF Authorize
  <1>3. ASSUME NEW r \in Requests, Prepare(r) PROVE WorkingHoldsMu'
    BY <1>3, RequestAssumption DEF Prepare
  <1>4. ASSUME NEW r \in Requests, Execute(r) PROVE WorkingHoldsMu'
    BY <1>4, RequestAssumption DEF Execute
  <1>5. ASSUME NEW r \in Requests, Settle(r) PROVE WorkingHoldsMu'
    BY <1>5, StopSummary, RequestAssumption DEF Settle, StopOutcome
  <1>6. ASSUME NEW r \in Requests, Finish(r) PROVE WorkingHoldsMu'
    BY <1>6, RequestAssumption DEF Finish
  <1>7. ASSUME NEW r \in Requests, WatchOver(r) PROVE WorkingHoldsMu'
    BY <1>7, RequestAssumption DEF WatchOver
  <1>8. ASSUME NEW r \in Requests, WatchPeer(r) PROVE WorkingHoldsMu'
    BY <1>8, RequestAssumption DEF WatchPeer
  <1>9. ASSUME NEW r \in Requests, WatchNetwork(r) PROVE WorkingHoldsMu'
    BY <1>9, RequestAssumption DEF WatchNetwork
  <1>10. ASSUME NEW r \in Requests, WatchDecide(r) PROVE WorkingHoldsMu'
    BY <1>10, RequestAssumption DEF WatchDecide
  <1>11. ASSUME NEW r \in Requests, WatchStop(r) PROVE WorkingHoldsMu'
    BY <1>11, StopSummary, RequestAssumption DEF WatchStop, StopOutcome
  <1>12. ASSUME NEW r \in Requests, CancelConnect(r) PROVE WorkingHoldsMu'
    BY <1>12, RequestAssumption DEF CancelConnect
  <1>13. ASSUME NEW r \in Requests, CancelTimeout(r) PROVE WorkingHoldsMu'
    BY <1>13, RequestAssumption DEF CancelTimeout
  <1>14. ASSUME NEW r \in Requests, CancelSettle(r) PROVE WorkingHoldsMu'
    BY <1>14, StopSummary, RequestAssumption DEF CancelSettle, Stop, StopOutcome
  <1>15. ASSUME NEW r \in Requests, PromoteStart(r) PROVE WorkingHoldsMu'
    BY <1>15, RequestAssumption DEF PromoteStart
  <1>16. ASSUME NEW r \in Requests, Revoke(r) PROVE WorkingHoldsMu'
    BY <1>16, StopSummary, RequestAssumption DEF Revoke, StopOutcome
  <1>17. ASSUME NEW r \in Requests, CallerGone(r) PROVE WorkingHoldsMu'
    BY <1>17, RequestAssumption DEF CallerGone
  <1>18. ASSUME NEW r \in Requests, PeerDies(r) PROVE WorkingHoldsMu'
    BY <1>18, RequestAssumption DEF PeerDies
  <1>19. CASE PromoteLost
    BY <1>19, StopSummary, RequestAssumption DEF PromoteLost, StopOutcome
  <1>20. CASE PromoteReply
    BY <1>20, RequestAssumption DEF PromoteReply
  <1>21. CASE PromoteEnd
    BY <1>21, StopSummary, RequestAssumption DEF PromoteEnd, StopOutcome
  <1>22. CASE LegacyConnect
    BY <1>22, RequestAssumption DEF LegacyConnect
  <1>23. CASE Disconnect
    BY <1>23, StopSummary, RequestAssumption DEF Disconnect, StopOutcome
  <1>24. CASE SettleExitedCore
    BY <1>24, StopSummary, RequestAssumption DEF SettleExitedCore, StopOutcome
  <1>25. CASE Close
    BY <1>25, StopSummary, RequestAssumption DEF Close, StopOutcome
  <1>26. CASE CancelBoundNetwork
    BY <1>26, RequestAssumption DEF CancelBoundNetwork
  <1>27. CASE CoreDies
    BY <1>27, RequestAssumption DEF CoreDies
  <1>28. CASE NetworkChanges
    BY <1>28, RequestAssumption DEF NetworkChanges
  <1> QED BY <1>1, <1>2, <1>3, <1>4, <1>5, <1>6, <1>7, <1>8, <1>9, <1>10, <1>11,
             <1>12, <1>13, <1>14, <1>15, <1>16, <1>17, <1>18, <1>19, <1>20, <1>21,
             <1>22, <1>23, <1>24, <1>25, <1>26, <1>27, <1>28
         DEF Next, Handler, Watcher, Canceller, PromoteWait

\* Nothing stops an invocation that owns nothing.
LEMMA WaitingOpen ==
  ASSUME IInv, Next PROVE WaitingIsOpen'
  <1> USE DEF IInv, WaitingIsOpen, OwnerIsTracked, IdleIsUntouched, Current,
          NoFault, ReleaseBoundConnect, callVars, ownerVars, runtimeVars,
          handlerVars, envVars, Restored, TypeOK, WorkingHoldsMu
  <1>1. ASSUME NEW r \in Requests, BeginBoundConnect(r) PROVE WaitingIsOpen'
    BY <1>1, RequestAssumption DEF BeginBoundConnect
  <1>2. ASSUME NEW r \in Requests, Authorize(r) PROVE WaitingIsOpen'
    BY <1>2, RequestAssumption DEF Authorize
  <1>3. ASSUME NEW r \in Requests, Prepare(r) PROVE WaitingIsOpen'
    BY <1>3, RequestAssumption DEF Prepare
  <1>4. ASSUME NEW r \in Requests, Execute(r) PROVE WaitingIsOpen'
    BY <1>4, RequestAssumption DEF Execute
  <1>5. ASSUME NEW r \in Requests, Settle(r) PROVE WaitingIsOpen'
    BY <1>5, StopSummary, RequestAssumption DEF Settle, StopOutcome
  <1>6. ASSUME NEW r \in Requests, Finish(r) PROVE WaitingIsOpen'
    BY <1>6, RequestAssumption DEF Finish
  <1>7. ASSUME NEW r \in Requests, WatchOver(r) PROVE WaitingIsOpen'
    BY <1>7, RequestAssumption DEF WatchOver
  <1>8. ASSUME NEW r \in Requests, WatchPeer(r) PROVE WaitingIsOpen'
    BY <1>8, RequestAssumption DEF WatchPeer
  <1>9. ASSUME NEW r \in Requests, WatchNetwork(r) PROVE WaitingIsOpen'
    BY <1>9, RequestAssumption DEF WatchNetwork
  <1>10. ASSUME NEW r \in Requests, WatchDecide(r) PROVE WaitingIsOpen'
    BY <1>10, RequestAssumption DEF WatchDecide
  <1>11. ASSUME NEW r \in Requests, WatchStop(r) PROVE WaitingIsOpen'
    BY <1>11, StopSummary, RequestAssumption DEF WatchStop, StopOutcome
  <1>12. ASSUME NEW r \in Requests, CancelConnect(r) PROVE WaitingIsOpen'
    BY <1>12, RequestAssumption DEF CancelConnect
  <1>13. ASSUME NEW r \in Requests, CancelTimeout(r) PROVE WaitingIsOpen'
    BY <1>13, RequestAssumption DEF CancelTimeout
  <1>14. ASSUME NEW r \in Requests, CancelSettle(r) PROVE WaitingIsOpen'
    BY <1>14, StopSummary, RequestAssumption DEF CancelSettle, Stop, StopOutcome
  <1>15. ASSUME NEW r \in Requests, PromoteStart(r) PROVE WaitingIsOpen'
    BY <1>15, RequestAssumption DEF PromoteStart
  <1>16. ASSUME NEW r \in Requests, Revoke(r) PROVE WaitingIsOpen'
    BY <1>16, StopSummary, RequestAssumption DEF Revoke, StopOutcome
  <1>17. ASSUME NEW r \in Requests, CallerGone(r) PROVE WaitingIsOpen'
    BY <1>17, RequestAssumption DEF CallerGone
  <1>18. ASSUME NEW r \in Requests, PeerDies(r) PROVE WaitingIsOpen'
    BY <1>18, RequestAssumption DEF PeerDies
  <1>19. CASE PromoteLost
    BY <1>19, StopSummary, RequestAssumption DEF PromoteLost, StopOutcome
  <1>20. CASE PromoteReply
    BY <1>20, RequestAssumption DEF PromoteReply
  <1>21. CASE PromoteEnd
    BY <1>21, StopSummary, RequestAssumption DEF PromoteEnd, StopOutcome
  <1>22. CASE LegacyConnect
    BY <1>22, RequestAssumption DEF LegacyConnect
  <1>23. CASE Disconnect
    BY <1>23, StopSummary, RequestAssumption DEF Disconnect, StopOutcome
  <1>24. CASE SettleExitedCore
    BY <1>24, StopSummary, RequestAssumption DEF SettleExitedCore, StopOutcome
  <1>25. CASE Close
    BY <1>25, StopSummary, RequestAssumption DEF Close, StopOutcome
  <1>26. CASE CancelBoundNetwork
    BY <1>26, RequestAssumption DEF CancelBoundNetwork
  <1>27. CASE CoreDies
    BY <1>27, RequestAssumption DEF CoreDies
  <1>28. CASE NetworkChanges
    BY <1>28, RequestAssumption DEF NetworkChanges
  <1> QED BY <1>1, <1>2, <1>3, <1>4, <1>5, <1>6, <1>7, <1>8, <1>9, <1>10, <1>11,
             <1>12, <1>13, <1>14, <1>15, <1>16, <1>17, <1>18, <1>19, <1>20, <1>21,
             <1>22, <1>23, <1>24, <1>25, <1>26, <1>27, <1>28
         DEF Next, Handler, Watcher, Canceller, PromoteWait

\* Only an owner or a finished invocation is stopped.
LEMMA IdleUntouched ==
  ASSUME IInv, Next PROVE IdleIsUntouched'
  <1> USE DEF IInv, IdleIsUntouched, Current, NoFault, ReleaseBoundConnect,
          callVars, ownerVars, runtimeVars, handlerVars, envVars, Restored,
          OneInvocation, TypeOK
  <1>1. ASSUME NEW r \in Requests, BeginBoundConnect(r) PROVE IdleIsUntouched'
    BY <1>1, RequestAssumption DEF BeginBoundConnect
  <1>2. ASSUME NEW r \in Requests, Authorize(r) PROVE IdleIsUntouched'
    BY <1>2, RequestAssumption DEF Authorize
  <1>3. ASSUME NEW r \in Requests, Prepare(r) PROVE IdleIsUntouched'
    BY <1>3, RequestAssumption DEF Prepare
  <1>4. ASSUME NEW r \in Requests, Execute(r) PROVE IdleIsUntouched'
    BY <1>4, RequestAssumption DEF Execute
  <1>5. ASSUME NEW r \in Requests, Settle(r) PROVE IdleIsUntouched'
    BY <1>5, StopSummary, RequestAssumption DEF Settle, StopOutcome
  <1>6. ASSUME NEW r \in Requests, Finish(r) PROVE IdleIsUntouched'
    BY <1>6, RequestAssumption DEF Finish
  <1>7. ASSUME NEW r \in Requests, WatchOver(r) PROVE IdleIsUntouched'
    BY <1>7, RequestAssumption DEF WatchOver
  <1>8. ASSUME NEW r \in Requests, WatchPeer(r) PROVE IdleIsUntouched'
    BY <1>8, RequestAssumption DEF WatchPeer
  <1>9. ASSUME NEW r \in Requests, WatchNetwork(r) PROVE IdleIsUntouched'
    BY <1>9, RequestAssumption DEF WatchNetwork
  <1>10. ASSUME NEW r \in Requests, WatchDecide(r) PROVE IdleIsUntouched'
    BY <1>10, RequestAssumption DEF WatchDecide
  <1>11. ASSUME NEW r \in Requests, WatchStop(r) PROVE IdleIsUntouched'
    <2>1. CASE Stop
      BY <1>11, <2>1, StopKeepsIdle DEF WatchStop
    <2>2. CASE ~Stop
      BY <1>11, <2>2 DEF WatchStop
    <2> QED BY <2>1, <2>2
  <1>12. ASSUME NEW r \in Requests, CancelConnect(r) PROVE IdleIsUntouched'
    BY <1>12, RequestAssumption DEF CancelConnect
  <1>13. ASSUME NEW r \in Requests, CancelTimeout(r) PROVE IdleIsUntouched'
    BY <1>13, RequestAssumption DEF CancelTimeout
  <1>14. ASSUME NEW r \in Requests, CancelSettle(r) PROVE IdleIsUntouched'
    <2>1. handler' = handler BY <1>14 DEF CancelSettle
    <2>2. CASE Stop BY <2>1, <2>2, StopKeepsIdle
    <2>3. CASE ~Stop BY <1>14, <2>1, <2>3, CancelStops
    <2> QED BY <2>2, <2>3
  <1>15. ASSUME NEW r \in Requests, PromoteStart(r) PROVE IdleIsUntouched'
    BY <1>15, RequestAssumption DEF PromoteStart
  <1>16. ASSUME NEW r \in Requests, Revoke(r) PROVE IdleIsUntouched'
    <2>1. CASE Stop
      BY <1>16, <2>1, StopKeepsIdle DEF Revoke
    <2>2. CASE ~Stop
      BY <1>16, <2>2 DEF Revoke
    <2> QED BY <2>1, <2>2
  <1>17. ASSUME NEW r \in Requests, CallerGone(r) PROVE IdleIsUntouched'
    BY <1>17, RequestAssumption DEF CallerGone
  <1>18. ASSUME NEW r \in Requests, PeerDies(r) PROVE IdleIsUntouched'
    BY <1>18, RequestAssumption DEF PeerDies
  <1>19. CASE PromoteLost
    BY <1>19, StopKeepsIdle DEF PromoteLost
  <1>20. CASE PromoteReply
    BY <1>20, RequestAssumption DEF PromoteReply
  <1>21. CASE PromoteEnd
    <2>1. CASE Stop
      BY <1>21, <2>1, StopKeepsIdle DEF PromoteEnd
    <2>2. CASE ~Stop
      BY <1>21, <2>2 DEF PromoteEnd
    <2> QED BY <2>1, <2>2
  <1>22. CASE LegacyConnect
    BY <1>22, RequestAssumption DEF LegacyConnect
  <1>23. CASE Disconnect
    BY <1>23, StopKeepsIdle DEF Disconnect
  <1>24. CASE SettleExitedCore
    BY <1>24, StopKeepsIdle DEF SettleExitedCore
  <1>25. CASE Close
    BY <1>25, StopKeepsIdle DEF Close
  <1>26. CASE CancelBoundNetwork
    BY <1>26, RequestAssumption DEF CancelBoundNetwork
  <1>27. CASE CoreDies
    BY <1>27, RequestAssumption DEF CoreDies
  <1>28. CASE NetworkChanges
    BY <1>28, RequestAssumption DEF NetworkChanges
  <1> QED BY <1>1, <1>2, <1>3, <1>4, <1>5, <1>6, <1>7, <1>8, <1>9, <1>10, <1>11,
             <1>12, <1>13, <1>14, <1>15, <1>16, <1>17, <1>18, <1>19, <1>20, <1>21,
             <1>22, <1>23, <1>24, <1>25, <1>26, <1>27, <1>28
         DEF Next, Handler, Watcher, Canceller, PromoteWait

\* A transaction is dropped with its lease.
LEMMA NoLease ==
  ASSUME IInv, Next PROVE NoTransactionNoLease'
  <1> USE DEF IInv, NoTransactionNoLease, OwnerIsTracked, Current, NoFault,
          ReleaseBoundConnect, callVars, ownerVars, runtimeVars, handlerVars,
          envVars, Restored, PromoterOwns
  <1>1. ASSUME NEW r \in Requests, BeginBoundConnect(r) PROVE NoTransactionNoLease'
    BY <1>1, RequestAssumption DEF BeginBoundConnect
  <1>2. ASSUME NEW r \in Requests, Authorize(r) PROVE NoTransactionNoLease'
    BY <1>2, RequestAssumption DEF Authorize
  <1>3. ASSUME NEW r \in Requests, Prepare(r) PROVE NoTransactionNoLease'
    BY <1>3, RequestAssumption DEF Prepare
  <1>4. ASSUME NEW r \in Requests, Execute(r) PROVE NoTransactionNoLease'
    BY <1>4, RequestAssumption DEF Execute
  <1>5. ASSUME NEW r \in Requests, Settle(r) PROVE NoTransactionNoLease'
    BY <1>5, StopSummary, RequestAssumption DEF Settle, StopOutcome
  <1>6. ASSUME NEW r \in Requests, Finish(r) PROVE NoTransactionNoLease'
    BY <1>6, RequestAssumption DEF Finish
  <1>7. ASSUME NEW r \in Requests, WatchOver(r) PROVE NoTransactionNoLease'
    BY <1>7, RequestAssumption DEF WatchOver
  <1>8. ASSUME NEW r \in Requests, WatchPeer(r) PROVE NoTransactionNoLease'
    BY <1>8, RequestAssumption DEF WatchPeer
  <1>9. ASSUME NEW r \in Requests, WatchNetwork(r) PROVE NoTransactionNoLease'
    BY <1>9, RequestAssumption DEF WatchNetwork
  <1>10. ASSUME NEW r \in Requests, WatchDecide(r) PROVE NoTransactionNoLease'
    BY <1>10, RequestAssumption DEF WatchDecide
  <1>11. ASSUME NEW r \in Requests, WatchStop(r) PROVE NoTransactionNoLease'
    BY <1>11, StopSummary, RequestAssumption DEF WatchStop, StopOutcome
  <1>12. ASSUME NEW r \in Requests, CancelConnect(r) PROVE NoTransactionNoLease'
    BY <1>12, RequestAssumption DEF CancelConnect
  <1>13. ASSUME NEW r \in Requests, CancelTimeout(r) PROVE NoTransactionNoLease'
    BY <1>13, RequestAssumption DEF CancelTimeout
  <1>14. ASSUME NEW r \in Requests, CancelSettle(r) PROVE NoTransactionNoLease'
    BY <1>14, StopSummary, RequestAssumption DEF CancelSettle, Stop, StopOutcome
  <1>15. ASSUME NEW r \in Requests, PromoteStart(r) PROVE NoTransactionNoLease'
    BY <1>15, RequestAssumption DEF PromoteStart
  <1>16. ASSUME NEW r \in Requests, Revoke(r) PROVE NoTransactionNoLease'
    BY <1>16, StopSummary, RequestAssumption DEF Revoke, StopOutcome
  <1>17. ASSUME NEW r \in Requests, CallerGone(r) PROVE NoTransactionNoLease'
    BY <1>17, RequestAssumption DEF CallerGone
  <1>18. ASSUME NEW r \in Requests, PeerDies(r) PROVE NoTransactionNoLease'
    BY <1>18, RequestAssumption DEF PeerDies
  <1>19. CASE PromoteLost
    BY <1>19, StopSummary, RequestAssumption DEF PromoteLost, StopOutcome
  <1>20. CASE PromoteReply
    BY <1>20, RequestAssumption DEF PromoteReply
  <1>21. CASE PromoteEnd
    BY <1>21, StopSummary, RequestAssumption DEF PromoteEnd, StopOutcome
  <1>22. CASE LegacyConnect
    BY <1>22, RequestAssumption DEF LegacyConnect
  <1>23. CASE Disconnect
    BY <1>23, StopSummary, RequestAssumption DEF Disconnect, StopOutcome
  <1>24. CASE SettleExitedCore
    BY <1>24, StopSummary, RequestAssumption DEF SettleExitedCore, StopOutcome
  <1>25. CASE Close
    BY <1>25, StopSummary, RequestAssumption DEF Close, StopOutcome
  <1>26. CASE CancelBoundNetwork
    BY <1>26, RequestAssumption DEF CancelBoundNetwork
  <1>27. CASE CoreDies
    BY <1>27, RequestAssumption DEF CoreDies
  <1>28. CASE NetworkChanges
    BY <1>28, RequestAssumption DEF NetworkChanges
  <1> QED BY <1>1, <1>2, <1>3, <1>4, <1>5, <1>6, <1>7, <1>8, <1>9, <1>10, <1>11,
             <1>12, <1>13, <1>14, <1>15, <1>16, <1>17, <1>18, <1>19, <1>20, <1>21,
             <1>22, <1>23, <1>24, <1>25, <1>26, <1>27, <1>28
         DEF Next, Handler, Watcher, Canceller, PromoteWait

\* The lease does not change while the reply is being handled.
LEMMA Remembered ==
  ASSUME IInv, Next PROVE ReplyIsRemembered'
  <1> USE DEF IInv, ReplyIsRemembered, Current, NoFault, ReleaseBoundConnect,
          callVars, ownerVars, runtimeVars, handlerVars, envVars, Restored,
          WorkingHoldsMu
  <1>1. ASSUME NEW r \in Requests, BeginBoundConnect(r) PROVE ReplyIsRemembered'
    BY <1>1 DEF BeginBoundConnect
  <1>2. ASSUME NEW r \in Requests, Authorize(r) PROVE ReplyIsRemembered'
    BY <1>2 DEF Authorize
  <1>3. ASSUME NEW r \in Requests, Prepare(r) PROVE ReplyIsRemembered'
    BY <1>3 DEF Prepare
  <1>4. ASSUME NEW r \in Requests, Execute(r) PROVE ReplyIsRemembered'
    BY <1>4 DEF Execute
  <1>5. ASSUME NEW r \in Requests, Settle(r) PROVE ReplyIsRemembered'
    BY <1>5, StopSummary DEF Settle, StopOutcome
  <1>6. ASSUME NEW r \in Requests, Finish(r) PROVE ReplyIsRemembered'
    BY <1>6 DEF Finish
  <1>7. ASSUME NEW r \in Requests, WatchOver(r) PROVE ReplyIsRemembered'
    BY <1>7 DEF WatchOver
  <1>8. ASSUME NEW r \in Requests, WatchPeer(r) PROVE ReplyIsRemembered'
    BY <1>8 DEF WatchPeer
  <1>9. ASSUME NEW r \in Requests, WatchNetwork(r) PROVE ReplyIsRemembered'
    BY <1>9 DEF WatchNetwork
  <1>10. ASSUME NEW r \in Requests, WatchDecide(r) PROVE ReplyIsRemembered'
    BY <1>10 DEF WatchDecide
  <1>11. ASSUME NEW r \in Requests, WatchStop(r) PROVE ReplyIsRemembered'
    BY <1>11, StopSummary DEF WatchStop, StopOutcome
  <1>12. ASSUME NEW r \in Requests, CancelConnect(r) PROVE ReplyIsRemembered'
    BY <1>12 DEF CancelConnect
  <1>13. ASSUME NEW r \in Requests, CancelTimeout(r) PROVE ReplyIsRemembered'
    BY <1>13 DEF CancelTimeout
  <1>14. ASSUME NEW r \in Requests, CancelSettle(r) PROVE ReplyIsRemembered'
    BY <1>14, StopSummary DEF CancelSettle, Stop, StopOutcome
  <1>15. ASSUME NEW r \in Requests, PromoteStart(r) PROVE ReplyIsRemembered'
    BY <1>15 DEF PromoteStart
  <1>16. ASSUME NEW r \in Requests, Revoke(r) PROVE ReplyIsRemembered'
    BY <1>16, StopSummary DEF Revoke, StopOutcome
  <1>17. ASSUME NEW r \in Requests, CallerGone(r) PROVE ReplyIsRemembered'
    BY <1>17 DEF CallerGone
  <1>18. ASSUME NEW r \in Requests, PeerDies(r) PROVE ReplyIsRemembered'
    BY <1>18 DEF PeerDies
  <1>19. CASE PromoteLost
    BY <1>19, StopSummary DEF PromoteLost, StopOutcome
  <1>20. CASE PromoteReply
    BY <1>20 DEF PromoteReply
  <1>21. CASE PromoteEnd
    BY <1>21, StopSummary DEF PromoteEnd, StopOutcome
  <1>22. CASE LegacyConnect
    BY <1>22 DEF LegacyConnect
  <1>23. CASE Disconnect
    BY <1>23, StopSummary DEF Disconnect, StopOutcome
  <1>24. CASE SettleExitedCore
    BY <1>24, StopSummary DEF SettleExitedCore, StopOutcome
  <1>25. CASE Close
    BY <1>25, StopSummary DEF Close, StopOutcome
  <1>26. CASE CancelBoundNetwork
    BY <1>26 DEF CancelBoundNetwork
  <1>27. CASE CoreDies
    BY <1>27 DEF CoreDies
  <1>28. CASE NetworkChanges
    BY <1>28 DEF NetworkChanges
  <1> QED BY <1>1, <1>2, <1>3, <1>4, <1>5, <1>6, <1>7, <1>8, <1>9, <1>10, <1>11,
             <1>12, <1>13, <1>14, <1>15, <1>16, <1>17, <1>18, <1>19, <1>20, <1>21,
             <1>22, <1>23, <1>24, <1>25, <1>26, <1>27, <1>28
         DEF Next, Handler, Watcher, Canceller, PromoteWait

\* The owner does not change while mu is held.
LEMMA Promoter ==
  ASSUME IInv, Next PROVE PromoterOwns'
  <1> USE DEF IInv, PromoterOwns, Current, NoFault, ReleaseBoundConnect,
          callVars, ownerVars, runtimeVars, handlerVars, envVars, Restored,
          WorkingHoldsMu
  <1>1. ASSUME NEW r \in Requests, BeginBoundConnect(r) PROVE PromoterOwns'
    BY <1>1 DEF BeginBoundConnect
  <1>2. ASSUME NEW r \in Requests, Authorize(r) PROVE PromoterOwns'
    BY <1>2 DEF Authorize
  <1>3. ASSUME NEW r \in Requests, Prepare(r) PROVE PromoterOwns'
    BY <1>3 DEF Prepare
  <1>4. ASSUME NEW r \in Requests, Execute(r) PROVE PromoterOwns'
    BY <1>4 DEF Execute
  <1>5. ASSUME NEW r \in Requests, Settle(r) PROVE PromoterOwns'
    BY <1>5, StopSummary DEF Settle, StopOutcome
  <1>6. ASSUME NEW r \in Requests, Finish(r) PROVE PromoterOwns'
    BY <1>6 DEF Finish
  <1>7. ASSUME NEW r \in Requests, WatchOver(r) PROVE PromoterOwns'
    BY <1>7 DEF WatchOver
  <1>8. ASSUME NEW r \in Requests, WatchPeer(r) PROVE PromoterOwns'
    BY <1>8 DEF WatchPeer
  <1>9. ASSUME NEW r \in Requests, WatchNetwork(r) PROVE PromoterOwns'
    BY <1>9 DEF WatchNetwork
  <1>10. ASSUME NEW r \in Requests, WatchDecide(r) PROVE PromoterOwns'
    BY <1>10 DEF WatchDecide
  <1>11. ASSUME NEW r \in Requests, WatchStop(r) PROVE PromoterOwns'
    BY <1>11, StopSummary DEF WatchStop, StopOutcome
  <1>12. ASSUME NEW r \in Requests, CancelConnect(r) PROVE PromoterOwns'
    BY <1>12 DEF CancelConnect
  <1>13. ASSUME NEW r \in Requests, CancelTimeout(r) PROVE PromoterOwns'
    BY <1>13 DEF CancelTimeout
  <1>14. ASSUME NEW r \in Requests, CancelSettle(r) PROVE PromoterOwns'
    BY <1>14, StopSummary DEF CancelSettle, Stop, StopOutcome
  <1>15. ASSUME NEW r \in Requests, PromoteStart(r) PROVE PromoterOwns'
    BY <1>15 DEF PromoteStart
  <1>16. ASSUME NEW r \in Requests, Revoke(r) PROVE PromoterOwns'
    BY <1>16, StopSummary DEF Revoke, StopOutcome
  <1>17. ASSUME NEW r \in Requests, CallerGone(r) PROVE PromoterOwns'
    BY <1>17 DEF CallerGone
  <1>18. ASSUME NEW r \in Requests, PeerDies(r) PROVE PromoterOwns'
    BY <1>18 DEF PeerDies
  <1>19. CASE PromoteLost
    BY <1>19, StopSummary DEF PromoteLost, StopOutcome
  <1>20. CASE PromoteReply
    BY <1>20 DEF PromoteReply
  <1>21. CASE PromoteEnd
    BY <1>21, StopSummary DEF PromoteEnd, StopOutcome
  <1>22. CASE LegacyConnect
    BY <1>22 DEF LegacyConnect
  <1>23. CASE Disconnect
    BY <1>23, StopSummary DEF Disconnect, StopOutcome
  <1>24. CASE SettleExitedCore
    BY <1>24, StopSummary DEF SettleExitedCore, StopOutcome
  <1>25. CASE Close
    BY <1>25, StopSummary DEF Close, StopOutcome
  <1>26. CASE CancelBoundNetwork
    BY <1>26 DEF CancelBoundNetwork
  <1>27. CASE CoreDies
    BY <1>27 DEF CoreDies
  <1>28. CASE NetworkChanges
    BY <1>28 DEF NetworkChanges
  <1> QED BY <1>1, <1>2, <1>3, <1>4, <1>5, <1>6, <1>7, <1>8, <1>9, <1>10, <1>11,
             <1>12, <1>13, <1>14, <1>15, <1>16, <1>17, <1>18, <1>19, <1>20, <1>21,
             <1>22, <1>23, <1>24, <1>25, <1>26, <1>27, <1>28
         DEF Next, Handler, Watcher, Canceller, PromoteWait

\* The watcher says why before it asks for the lock.
LEMMA Explained ==
  ASSUME IInv, Next PROVE ActingIsExplained'
  <1> USE DEF IInv, ActingIsExplained, Current, NoFault, ReleaseBoundConnect,
          callVars, ownerVars, runtimeVars, handlerVars, envVars, TypeOK
  <1>1. ASSUME NEW r \in Requests, BeginBoundConnect(r) PROVE ActingIsExplained'
    BY <1>1 DEF BeginBoundConnect
  <1>2. ASSUME NEW r \in Requests, Authorize(r) PROVE ActingIsExplained'
    BY <1>2 DEF Authorize
  <1>3. ASSUME NEW r \in Requests, Prepare(r) PROVE ActingIsExplained'
    BY <1>3 DEF Prepare
  <1>4. ASSUME NEW r \in Requests, Execute(r) PROVE ActingIsExplained'
    BY <1>4 DEF Execute
  <1>5. ASSUME NEW r \in Requests, Settle(r) PROVE ActingIsExplained'
    BY <1>5, StopSummary DEF Settle, StopOutcome
  <1>6. ASSUME NEW r \in Requests, Finish(r) PROVE ActingIsExplained'
    BY <1>6 DEF Finish
  <1>7. ASSUME NEW r \in Requests, WatchOver(r) PROVE ActingIsExplained'
    BY <1>7 DEF WatchOver
  <1>8. ASSUME NEW r \in Requests, WatchPeer(r) PROVE ActingIsExplained'
    BY <1>8 DEF WatchPeer
  <1>9. ASSUME NEW r \in Requests, WatchNetwork(r) PROVE ActingIsExplained'
    BY <1>9 DEF WatchNetwork
  <1>10. ASSUME NEW r \in Requests, WatchDecide(r) PROVE ActingIsExplained'
    BY <1>10 DEF WatchDecide
  <1>11. ASSUME NEW r \in Requests, WatchStop(r) PROVE ActingIsExplained'
    BY <1>11, StopSummary DEF WatchStop, StopOutcome
  <1>12. ASSUME NEW r \in Requests, CancelConnect(r) PROVE ActingIsExplained'
    BY <1>12 DEF CancelConnect
  <1>13. ASSUME NEW r \in Requests, CancelTimeout(r) PROVE ActingIsExplained'
    BY <1>13 DEF CancelTimeout
  <1>14. ASSUME NEW r \in Requests, CancelSettle(r) PROVE ActingIsExplained'
    BY <1>14, StopSummary DEF CancelSettle, Stop, StopOutcome
  <1>15. ASSUME NEW r \in Requests, PromoteStart(r) PROVE ActingIsExplained'
    BY <1>15 DEF PromoteStart
  <1>16. ASSUME NEW r \in Requests, Revoke(r) PROVE ActingIsExplained'
    BY <1>16, StopSummary DEF Revoke, StopOutcome
  <1>17. ASSUME NEW r \in Requests, CallerGone(r) PROVE ActingIsExplained'
    BY <1>17 DEF CallerGone
  <1>18. ASSUME NEW r \in Requests, PeerDies(r) PROVE ActingIsExplained'
    BY <1>18 DEF PeerDies
  <1>19. CASE PromoteLost
    BY <1>19, StopSummary DEF PromoteLost, StopOutcome
  <1>20. CASE PromoteReply
    BY <1>20 DEF PromoteReply
  <1>21. CASE PromoteEnd
    BY <1>21, StopSummary DEF PromoteEnd, StopOutcome
  <1>22. CASE LegacyConnect
    BY <1>22 DEF LegacyConnect
  <1>23. CASE Disconnect
    BY <1>23, StopSummary DEF Disconnect, StopOutcome
  <1>24. CASE SettleExitedCore
    BY <1>24, StopSummary DEF SettleExitedCore, StopOutcome
  <1>25. CASE Close
    BY <1>25, StopSummary DEF Close, StopOutcome
  <1>26. CASE CancelBoundNetwork
    BY <1>26 DEF CancelBoundNetwork
  <1>27. CASE CoreDies
    BY <1>27 DEF CoreDies
  <1>28. CASE NetworkChanges
    BY <1>28 DEF NetworkChanges
  <1> QED BY <1>1, <1>2, <1>3, <1>4, <1>5, <1>6, <1>7, <1>8, <1>9, <1>10, <1>11,
             <1>12, <1>13, <1>14, <1>15, <1>16, <1>17, <1>18, <1>19, <1>20, <1>21,
             <1>22, <1>23, <1>24, <1>25, <1>26, <1>27, <1>28
         DEF Next, Handler, Watcher, Canceller, PromoteWait

\* A promotion finds out what the watcher has said.
LEMMA OutlivesUI ==
  ASSUME IInv, Next PROVE PromotedOutlivesUI'
  <1> USE DEF IInv, PromotedOutlivesUI, Current, NoFault, ReleaseBoundConnect,
          callVars, ownerVars, runtimeVars, handlerVars, envVars, Restored,
          ActingIsExplained, TypeOK
  <1>1. ASSUME NEW r \in Requests, BeginBoundConnect(r) PROVE PromotedOutlivesUI'
    BY <1>1, RequestAssumption DEF BeginBoundConnect
  <1>2. ASSUME NEW r \in Requests, Authorize(r) PROVE PromotedOutlivesUI'
    BY <1>2, RequestAssumption DEF Authorize
  <1>3. ASSUME NEW r \in Requests, Prepare(r) PROVE PromotedOutlivesUI'
    BY <1>3, RequestAssumption DEF Prepare
  <1>4. ASSUME NEW r \in Requests, Execute(r) PROVE PromotedOutlivesUI'
    BY <1>4, RequestAssumption DEF Execute
  <1>5. ASSUME NEW r \in Requests, Settle(r) PROVE PromotedOutlivesUI'
    BY <1>5, StopSummary, RequestAssumption DEF Settle, StopOutcome
  <1>6. ASSUME NEW r \in Requests, Finish(r) PROVE PromotedOutlivesUI'
    BY <1>6, RequestAssumption DEF Finish
  <1>7. ASSUME NEW r \in Requests, WatchOver(r) PROVE PromotedOutlivesUI'
    BY <1>7, RequestAssumption DEF WatchOver
  <1>8. ASSUME NEW r \in Requests, WatchPeer(r) PROVE PromotedOutlivesUI'
    BY <1>8, RequestAssumption DEF WatchPeer
  <1>9. ASSUME NEW r \in Requests, WatchNetwork(r) PROVE PromotedOutlivesUI'
    BY <1>9, RequestAssumption DEF WatchNetwork
  <1>10. ASSUME NEW r \in Requests, WatchDecide(r) PROVE PromotedOutlivesUI'
    BY <1>10, RequestAssumption DEF WatchDecide
  <1>11. ASSUME NEW r \in Requests, WatchStop(r) PROVE PromotedOutlivesUI'
    BY <1>11, StopSummary, RequestAssumption DEF WatchStop, StopOutcome
  <1>12. ASSUME NEW r \in Requests, CancelConnect(r) PROVE PromotedOutlivesUI'
    BY <1>12, RequestAssumption DEF CancelConnect
  <1>13. ASSUME NEW r \in Requests, CancelTimeout(r) PROVE PromotedOutlivesUI'
    BY <1>13, RequestAssumption DEF CancelTimeout
  <1>14. ASSUME NEW r \in Requests, CancelSettle(r) PROVE PromotedOutlivesUI'
    BY <1>14, StopSummary, RequestAssumption DEF CancelSettle, Stop, StopOutcome
  <1>15. ASSUME NEW r \in Requests, PromoteStart(r) PROVE PromotedOutlivesUI'
    BY <1>15, RequestAssumption DEF PromoteStart
  <1>16. ASSUME NEW r \in Requests, Revoke(r) PROVE PromotedOutlivesUI'
    BY <1>16, StopSummary, RequestAssumption DEF Revoke, StopOutcome
  <1>17. ASSUME NEW r \in Requests, CallerGone(r) PROVE PromotedOutlivesUI'
    BY <1>17, RequestAssumption DEF CallerGone
  <1>18. ASSUME NEW r \in Requests, PeerDies(r) PROVE PromotedOutlivesUI'
    BY <1>18, RequestAssumption DEF PeerDies
  <1>19. CASE PromoteLost
    BY <1>19, StopSummary, RequestAssumption DEF PromoteLost, StopOutcome
  <1>20. CASE PromoteReply
    BY <1>20, RequestAssumption DEF PromoteReply
  <1>21. CASE PromoteEnd
    BY <1>21, StopSummary, RequestAssumption DEF PromoteEnd, StopOutcome
  <1>22. CASE LegacyConnect
    BY <1>22, RequestAssumption DEF LegacyConnect
  <1>23. CASE Disconnect
    BY <1>23, StopSummary, RequestAssumption DEF Disconnect, StopOutcome
  <1>24. CASE SettleExitedCore
    BY <1>24, StopSummary, RequestAssumption DEF SettleExitedCore, StopOutcome
  <1>25. CASE Close
    BY <1>25, StopSummary, RequestAssumption DEF Close, StopOutcome
  <1>26. CASE CancelBoundNetwork
    BY <1>26, RequestAssumption DEF CancelBoundNetwork
  <1>27. CASE CoreDies
    BY <1>27, RequestAssumption DEF CoreDies
  <1>28. CASE NetworkChanges
    BY <1>28, RequestAssumption DEF NetworkChanges
  <1> QED BY <1>1, <1>2, <1>3, <1>4, <1>5, <1>6, <1>7, <1>8, <1>9, <1>10, <1>11,
             <1>12, <1>13, <1>14, <1>15, <1>16, <1>17, <1>18, <1>19, <1>20, <1>21,
             <1>22, <1>23, <1>24, <1>25, <1>26, <1>27, <1>28
         DEF Next, Handler, Watcher, Canceller, PromoteWait

\* Promotion follows the reply.
LEMMA Held ==
  ASSUME IInv, Next PROVE PromotedIsHeld'
  <1> USE DEF IInv, PromotedIsHeld, Current, NoFault, ReleaseBoundConnect,
          callVars, ownerVars, runtimeVars, handlerVars, envVars, Restored,
          ReplyIsRemembered, NoTransactionNoLease
  <1>1. ASSUME NEW r \in Requests, BeginBoundConnect(r) PROVE PromotedIsHeld'
    BY <1>1 DEF BeginBoundConnect
  <1>2. ASSUME NEW r \in Requests, Authorize(r) PROVE PromotedIsHeld'
    BY <1>2 DEF Authorize
  <1>3. ASSUME NEW r \in Requests, Prepare(r) PROVE PromotedIsHeld'
    BY <1>3 DEF Prepare
  <1>4. ASSUME NEW r \in Requests, Execute(r) PROVE PromotedIsHeld'
    BY <1>4 DEF Execute
  <1>5. ASSUME NEW r \in Requests, Settle(r) PROVE PromotedIsHeld'
    BY <1>5, StopSummary DEF Settle, StopOutcome
  <1>6. ASSUME NEW r \in Requests, Finish(r) PROVE PromotedIsHeld'
    BY <1>6 DEF Finish
  <1>7. ASSUME NEW r \in Requests, WatchOver(r) PROVE PromotedIsHeld'
    BY <1>7 DEF WatchOver
  <1>8. ASSUME NEW r \in Requests, WatchPeer(r) PROVE PromotedIsHeld'
    BY <1>8 DEF WatchPeer
  <1>9. ASSUME NEW r \in Requests, WatchNetwork(r) PROVE PromotedIsHeld'
    BY <1>9 DEF WatchNetwork
  <1>10. ASSUME NEW r \in Requests, WatchDecide(r) PROVE PromotedIsHeld'
    BY <1>10 DEF WatchDecide
  <1>11. ASSUME NEW r \in Requests, WatchStop(r) PROVE PromotedIsHeld'
    BY <1>11, StopSummary DEF WatchStop, StopOutcome
  <1>12. ASSUME NEW r \in Requests, CancelConnect(r) PROVE PromotedIsHeld'
    BY <1>12 DEF CancelConnect
  <1>13. ASSUME NEW r \in Requests, CancelTimeout(r) PROVE PromotedIsHeld'
    BY <1>13 DEF CancelTimeout
  <1>14. ASSUME NEW r \in Requests, CancelSettle(r) PROVE PromotedIsHeld'
    <2>1. CASE Stop BY <2>1, StopSummary DEF StopOutcome
    <2>2. CASE ~Stop BY <1>14, <2>2, CancelStops
    <2> QED BY <2>1, <2>2
  <1>15. ASSUME NEW r \in Requests, PromoteStart(r) PROVE PromotedIsHeld'
    BY <1>15 DEF PromoteStart
  <1>16. ASSUME NEW r \in Requests, Revoke(r) PROVE PromotedIsHeld'
    BY <1>16, StopSummary DEF Revoke, StopOutcome
  <1>17. ASSUME NEW r \in Requests, CallerGone(r) PROVE PromotedIsHeld'
    BY <1>17 DEF CallerGone
  <1>18. ASSUME NEW r \in Requests, PeerDies(r) PROVE PromotedIsHeld'
    BY <1>18 DEF PeerDies
  <1>19. CASE PromoteLost
    BY <1>19, StopSummary DEF PromoteLost, StopOutcome
  <1>20. CASE PromoteReply
    BY <1>20 DEF PromoteReply
  <1>21. CASE PromoteEnd
    BY <1>21, StopSummary DEF PromoteEnd, StopOutcome
  <1>22. CASE LegacyConnect
    <2>1. CASE UNCHANGED <<ownerVars, coreLease>>
      BY <2>1 DEF ownerVars
    <2>2. CASE ReleaseBoundConnect
      BY <2>2 DEF ReleaseBoundConnect
    <2>3. CASE UNCHANGED ownerVars /\ transaction = "none"
      BY <2>3 DEF ownerVars, NoTransactionNoLease
    <2> QED BY <1>22, <2>1, <2>2, <2>3 DEF LegacyConnect, ownerVars
  <1>23. CASE Disconnect
    BY <1>23, StopSummary DEF Disconnect, StopOutcome
  <1>24. CASE SettleExitedCore
    BY <1>24, StopSummary DEF SettleExitedCore, StopOutcome
  <1>25. CASE Close
    BY <1>25, StopSummary DEF Close, StopOutcome
  <1>26. CASE CancelBoundNetwork
    BY <1>26 DEF CancelBoundNetwork
  <1>27. CASE CoreDies
    BY <1>27 DEF CoreDies
  <1>28. CASE NetworkChanges
    BY <1>28 DEF NetworkChanges
  <1> QED BY <1>1, <1>2, <1>3, <1>4, <1>5, <1>6, <1>7, <1>8, <1>9, <1>10, <1>11,
             <1>12, <1>13, <1>14, <1>15, <1>16, <1>17, <1>18, <1>19, <1>20, <1>21,
             <1>22, <1>23, <1>24, <1>25, <1>26, <1>27, <1>28
         DEF Next, Handler, Watcher, Canceller, PromoteWait

\* A failed promotion is followed by stop.
LEMMA AckLoss ==
  ASSUME IInv, Next PROVE AckLossIsRestored'
  <1> USE DEF IInv, AckLossIsRestored, Current, NoFault, ReleaseBoundConnect,
          callVars, ownerVars, runtimeVars, handlerVars, envVars, Restored,
          OwnerIsTracked, PromoterOwns, WorkingHoldsMu
  <1>1. ASSUME NEW r \in Requests, BeginBoundConnect(r) PROVE AckLossIsRestored'
    BY <1>1, RequestAssumption DEF BeginBoundConnect
  <1>2. ASSUME NEW r \in Requests, Authorize(r) PROVE AckLossIsRestored'
    BY <1>2, RequestAssumption DEF Authorize
  <1>3. ASSUME NEW r \in Requests, Prepare(r) PROVE AckLossIsRestored'
    BY <1>3, RequestAssumption DEF Prepare
  <1>4. ASSUME NEW r \in Requests, Execute(r) PROVE AckLossIsRestored'
    BY <1>4, RequestAssumption DEF Execute
  <1>5. ASSUME NEW r \in Requests, Settle(r) PROVE AckLossIsRestored'
    BY <1>5, StopSummary, RequestAssumption DEF Settle, StopOutcome
  <1>6. ASSUME NEW r \in Requests, Finish(r) PROVE AckLossIsRestored'
    BY <1>6, RequestAssumption DEF Finish
  <1>7. ASSUME NEW r \in Requests, WatchOver(r) PROVE AckLossIsRestored'
    BY <1>7, RequestAssumption DEF WatchOver
  <1>8. ASSUME NEW r \in Requests, WatchPeer(r) PROVE AckLossIsRestored'
    BY <1>8, RequestAssumption DEF WatchPeer
  <1>9. ASSUME NEW r \in Requests, WatchNetwork(r) PROVE AckLossIsRestored'
    BY <1>9, RequestAssumption DEF WatchNetwork
  <1>10. ASSUME NEW r \in Requests, WatchDecide(r) PROVE AckLossIsRestored'
    BY <1>10, RequestAssumption DEF WatchDecide
  <1>11. ASSUME NEW r \in Requests, WatchStop(r) PROVE AckLossIsRestored'
    BY <1>11, StopSummary, RequestAssumption DEF WatchStop, StopOutcome
  <1>12. ASSUME NEW r \in Requests, CancelConnect(r) PROVE AckLossIsRestored'
    BY <1>12, RequestAssumption DEF CancelConnect
  <1>13. ASSUME NEW r \in Requests, CancelTimeout(r) PROVE AckLossIsRestored'
    BY <1>13, RequestAssumption DEF CancelTimeout
  <1>14. ASSUME NEW r \in Requests, CancelSettle(r) PROVE AckLossIsRestored'
    BY <1>14, StopSummary, RequestAssumption DEF CancelSettle, Stop, StopOutcome
  <1>15. ASSUME NEW r \in Requests, PromoteStart(r) PROVE AckLossIsRestored'
    BY <1>15, RequestAssumption DEF PromoteStart
  <1>16. ASSUME NEW r \in Requests, Revoke(r) PROVE AckLossIsRestored'
    BY <1>16, StopSummary, RequestAssumption DEF Revoke, StopOutcome
  <1>17. ASSUME NEW r \in Requests, CallerGone(r) PROVE AckLossIsRestored'
    BY <1>17, RequestAssumption DEF CallerGone
  <1>18. ASSUME NEW r \in Requests, PeerDies(r) PROVE AckLossIsRestored'
    BY <1>18, RequestAssumption DEF PeerDies
  <1>19. CASE PromoteLost
    BY <1>19, StopSummary, RequestAssumption DEF PromoteLost, StopOutcome
  <1>20. CASE PromoteReply
    BY <1>20, RequestAssumption DEF PromoteReply
  <1>21. CASE PromoteEnd
    BY <1>21, StopSummary, RequestAssumption DEF PromoteEnd, StopOutcome
  <1>22. CASE LegacyConnect
    BY <1>22, RequestAssumption DEF LegacyConnect
  <1>23. CASE Disconnect
    BY <1>23, StopSummary, RequestAssumption DEF Disconnect, StopOutcome
  <1>24. CASE SettleExitedCore
    BY <1>24, StopSummary, RequestAssumption DEF SettleExitedCore, StopOutcome
  <1>25. CASE Close
    BY <1>25, StopSummary, RequestAssumption DEF Close, StopOutcome
  <1>26. CASE CancelBoundNetwork
    BY <1>26, RequestAssumption DEF CancelBoundNetwork
  <1>27. CASE CoreDies
    BY <1>27, RequestAssumption DEF CoreDies
  <1>28. CASE NetworkChanges
    BY <1>28, RequestAssumption DEF NetworkChanges
  <1> QED BY <1>1, <1>2, <1>3, <1>4, <1>5, <1>6, <1>7, <1>8, <1>9, <1>10, <1>11,
             <1>12, <1>13, <1>14, <1>15, <1>16, <1>17, <1>18, <1>19, <1>20, <1>21,
             <1>22, <1>23, <1>24, <1>25, <1>26, <1>27, <1>28
         DEF Next, Handler, Watcher, Canceller, PromoteWait

\* mu and the runtime.
LEMMA RuntimeTyped ==
  ASSUME IInv, Next PROVE TypeRuntime'
  <1> USE DEF IInv, TypeOK, TypeRuntime, Current, NoFault, ReleaseBoundConnect,
          callVars, ownerVars, runtimeVars, handlerVars, envVars, Restored
  <1>1. ASSUME NEW r \in Requests, BeginBoundConnect(r) PROVE TypeRuntime'
    BY <1>1 DEF BeginBoundConnect
  <1>2. ASSUME NEW r \in Requests, Authorize(r) PROVE TypeRuntime'
    BY <1>2 DEF Authorize
  <1>3. ASSUME NEW r \in Requests, Prepare(r) PROVE TypeRuntime'
    BY <1>3 DEF Prepare
  <1>4. ASSUME NEW r \in Requests, Execute(r) PROVE TypeRuntime'
    BY <1>4 DEF Execute
  <1>5. ASSUME NEW r \in Requests, Settle(r) PROVE TypeRuntime'
    BY <1>5, StopSummary, StopTypes DEF Settle, StopOutcome
  <1>6. ASSUME NEW r \in Requests, Finish(r) PROVE TypeRuntime'
    BY <1>6 DEF Finish
  <1>7. ASSUME NEW r \in Requests, WatchOver(r) PROVE TypeRuntime'
    BY <1>7 DEF WatchOver
  <1>8. ASSUME NEW r \in Requests, WatchPeer(r) PROVE TypeRuntime'
    BY <1>8 DEF WatchPeer
  <1>9. ASSUME NEW r \in Requests, WatchNetwork(r) PROVE TypeRuntime'
    BY <1>9 DEF WatchNetwork
  <1>10. ASSUME NEW r \in Requests, WatchDecide(r) PROVE TypeRuntime'
    BY <1>10 DEF WatchDecide
  <1>11. ASSUME NEW r \in Requests, WatchStop(r) PROVE TypeRuntime'
    BY <1>11, StopSummary, StopTypes DEF WatchStop, StopOutcome
  <1>12. ASSUME NEW r \in Requests, CancelConnect(r) PROVE TypeRuntime'
    BY <1>12 DEF CancelConnect
  <1>13. ASSUME NEW r \in Requests, CancelTimeout(r) PROVE TypeRuntime'
    BY <1>13 DEF CancelTimeout
  <1>14. ASSUME NEW r \in Requests, CancelSettle(r) PROVE TypeRuntime'
    BY <1>14, StopSummary, StopTypes DEF CancelSettle, Stop, StopOutcome
  <1>15. ASSUME NEW r \in Requests, PromoteStart(r) PROVE TypeRuntime'
    BY <1>15 DEF PromoteStart
  <1>16. ASSUME NEW r \in Requests, Revoke(r) PROVE TypeRuntime'
    BY <1>16, StopSummary, StopTypes DEF Revoke, StopOutcome
  <1>17. ASSUME NEW r \in Requests, CallerGone(r) PROVE TypeRuntime'
    BY <1>17 DEF CallerGone
  <1>18. ASSUME NEW r \in Requests, PeerDies(r) PROVE TypeRuntime'
    BY <1>18 DEF PeerDies
  <1>19. CASE PromoteLost
    BY <1>19, StopSummary, StopTypes DEF PromoteLost, StopOutcome
  <1>20. CASE PromoteReply
    BY <1>20 DEF PromoteReply
  <1>21. CASE PromoteEnd
    BY <1>21, StopSummary, StopTypes DEF PromoteEnd, StopOutcome
  <1>22. CASE LegacyConnect
    BY <1>22 DEF LegacyConnect
  <1>23. CASE Disconnect
    BY <1>23, StopSummary, StopTypes DEF Disconnect, StopOutcome
  <1>24. CASE SettleExitedCore
    BY <1>24, StopSummary, StopTypes DEF SettleExitedCore, StopOutcome
  <1>25. CASE Close
    BY <1>25, StopSummary, StopTypes DEF Close, StopOutcome
  <1>26. CASE CancelBoundNetwork
    BY <1>26 DEF CancelBoundNetwork
  <1>27. CASE CoreDies
    BY <1>27 DEF CoreDies
  <1>28. CASE NetworkChanges
    BY <1>28 DEF NetworkChanges
  <1> QED BY <1>1, <1>2, <1>3, <1>4, <1>5, <1>6, <1>7, <1>8, <1>9, <1>10, <1>11,
             <1>12, <1>13, <1>14, <1>15, <1>16, <1>17, <1>18, <1>19, <1>20, <1>21,
             <1>22, <1>23, <1>24, <1>25, <1>26, <1>27, <1>28
         DEF Next, Handler, Watcher, Canceller, PromoteWait

\* The counters stay within their bounds.
LEMMA NumbersTyped ==
  ASSUME IInv, Next PROVE TypeNumbers'
  <1> USE DEF IInv, TypeNumbers, Current, NoFault, ReleaseBoundConnect,
          callVars, ownerVars, runtimeVars, handlerVars, envVars, Fault, TypeOK
  <1>1. ASSUME NEW r \in Requests, BeginBoundConnect(r) PROVE TypeNumbers'
    BY <1>1, FaultAssumption, NetworkAssumption DEF BeginBoundConnect
  <1>2. ASSUME NEW r \in Requests, Authorize(r) PROVE TypeNumbers'
    BY <1>2, FaultAssumption, NetworkAssumption DEF Authorize
  <1>3. ASSUME NEW r \in Requests, Prepare(r) PROVE TypeNumbers'
    BY <1>3, FaultAssumption, NetworkAssumption DEF Prepare
  <1>4. ASSUME NEW r \in Requests, Execute(r) PROVE TypeNumbers'
    BY <1>4, FaultAssumption, NetworkAssumption DEF Execute
  <1>5. ASSUME NEW r \in Requests, Settle(r) PROVE TypeNumbers'
    BY <1>5, StopSummary, StopTypes, FaultAssumption, NetworkAssumption DEF Settle, StopOutcome
  <1>6. ASSUME NEW r \in Requests, Finish(r) PROVE TypeNumbers'
    BY <1>6, FaultAssumption, NetworkAssumption DEF Finish
  <1>7. ASSUME NEW r \in Requests, WatchOver(r) PROVE TypeNumbers'
    BY <1>7, FaultAssumption, NetworkAssumption DEF WatchOver
  <1>8. ASSUME NEW r \in Requests, WatchPeer(r) PROVE TypeNumbers'
    BY <1>8, FaultAssumption, NetworkAssumption DEF WatchPeer
  <1>9. ASSUME NEW r \in Requests, WatchNetwork(r) PROVE TypeNumbers'
    BY <1>9, FaultAssumption, NetworkAssumption DEF WatchNetwork
  <1>10. ASSUME NEW r \in Requests, WatchDecide(r) PROVE TypeNumbers'
    BY <1>10, FaultAssumption, NetworkAssumption DEF WatchDecide
  <1>11. ASSUME NEW r \in Requests, WatchStop(r) PROVE TypeNumbers'
    BY <1>11, StopSummary, StopTypes, FaultAssumption, NetworkAssumption DEF WatchStop, StopOutcome
  <1>12. ASSUME NEW r \in Requests, CancelConnect(r) PROVE TypeNumbers'
    BY <1>12, FaultAssumption, NetworkAssumption DEF CancelConnect
  <1>13. ASSUME NEW r \in Requests, CancelTimeout(r) PROVE TypeNumbers'
    BY <1>13, FaultAssumption, NetworkAssumption DEF CancelTimeout
  <1>14. ASSUME NEW r \in Requests, CancelSettle(r) PROVE TypeNumbers'
    BY <1>14, StopSummary, StopTypes, FaultAssumption, NetworkAssumption DEF CancelSettle, Stop, StopOutcome
  <1>15. ASSUME NEW r \in Requests, PromoteStart(r) PROVE TypeNumbers'
    BY <1>15, FaultAssumption, NetworkAssumption DEF PromoteStart
  <1>16. ASSUME NEW r \in Requests, Revoke(r) PROVE TypeNumbers'
    BY <1>16, StopSummary, StopTypes, FaultAssumption, NetworkAssumption DEF Revoke, StopOutcome
  <1>17. ASSUME NEW r \in Requests, CallerGone(r) PROVE TypeNumbers'
    BY <1>17, FaultAssumption, NetworkAssumption DEF CallerGone
  <1>18. ASSUME NEW r \in Requests, PeerDies(r) PROVE TypeNumbers'
    BY <1>18, FaultAssumption, NetworkAssumption DEF PeerDies
  <1>19. CASE PromoteLost
    BY <1>19, StopSummary, StopTypes, FaultAssumption, NetworkAssumption DEF PromoteLost, StopOutcome
  <1>20. CASE PromoteReply
    BY <1>20, FaultAssumption, NetworkAssumption DEF PromoteReply
  <1>21. CASE PromoteEnd
    BY <1>21, StopSummary, StopTypes, FaultAssumption, NetworkAssumption DEF PromoteEnd, StopOutcome
  <1>22. CASE LegacyConnect
    BY <1>22, FaultAssumption, NetworkAssumption DEF LegacyConnect
  <1>23. CASE Disconnect
    BY <1>23, StopSummary, StopTypes, FaultAssumption, NetworkAssumption DEF Disconnect, StopOutcome
  <1>24. CASE SettleExitedCore
    BY <1>24, StopSummary, StopTypes, FaultAssumption, NetworkAssumption DEF SettleExitedCore, StopOutcome
  <1>25. CASE Close
    BY <1>25, StopSummary, StopTypes, FaultAssumption, NetworkAssumption DEF Close, StopOutcome
  <1>26. CASE CancelBoundNetwork
    BY <1>26, FaultAssumption, NetworkAssumption DEF CancelBoundNetwork
  <1>27. CASE CoreDies
    BY <1>27, FaultAssumption, NetworkAssumption DEF CoreDies
  <1>28. CASE NetworkChanges
    BY <1>28, FaultAssumption, NetworkAssumption DEF NetworkChanges
  <1> QED BY <1>1, <1>2, <1>3, <1>4, <1>5, <1>6, <1>7, <1>8, <1>9, <1>10, <1>11,
             <1>12, <1>13, <1>14, <1>15, <1>16, <1>17, <1>18, <1>19, <1>20, <1>21,
             <1>22, <1>23, <1>24, <1>25, <1>26, <1>27, <1>28
         DEF Next, Handler, Watcher, Canceller, PromoteWait

\* The flags of the service.
LEMMA FlagsTyped ==
  ASSUME IInv, Next PROVE TypeFlags'
  <1> USE DEF TypeFlags
  <1>0. TypeOK /\ TypeFlags BY Zenon DEF IInv, TypeOK
  <1>1. ASSUME NEW r \in Requests, BeginBoundConnect(r) PROVE TypeFlags'
    BY <1>0, <1>1, Zenon DEF BeginBoundConnect, ownerVars, runtimeVars, envVars, NoFault
  <1>2. ASSUME NEW r \in Requests, Authorize(r) PROVE TypeFlags'
    BY <1>0, <1>2, Zenon DEF Authorize, ownerVars, runtimeVars, envVars, NoFault
  <1>3. ASSUME NEW r \in Requests, Prepare(r) PROVE TypeFlags'
    BY <1>0, <1>3, Zenon DEF Prepare, ownerVars, runtimeVars, envVars, NoFault
  <1>4. ASSUME NEW r \in Requests, Execute(r) PROVE TypeFlags'
    BY <1>0, <1>4, Zenon DEF Execute, ownerVars, runtimeVars, envVars, NoFault, Restored, ReleaseBoundConnect
  <1>5. ASSUME NEW r \in Requests, Settle(r) PROVE TypeFlags'
    BY <1>0, <1>5, StopFlags, Zenon DEF Settle, ownerVars, runtimeVars, envVars, NoFault
  <1>6. ASSUME NEW r \in Requests, Finish(r) PROVE TypeFlags'
    BY <1>0, <1>6, Zenon DEF Finish, ownerVars, runtimeVars, envVars, NoFault
  <1>7. ASSUME NEW r \in Requests, WatchOver(r) PROVE TypeFlags'
    BY <1>0, <1>7, Zenon DEF WatchOver, ownerVars, runtimeVars, envVars, NoFault
  <1>8. ASSUME NEW r \in Requests, WatchPeer(r) PROVE TypeFlags'
    BY <1>0, <1>8, Zenon DEF WatchPeer, ownerVars, runtimeVars, envVars, NoFault
  <1>9. ASSUME NEW r \in Requests, WatchNetwork(r) PROVE TypeFlags'
    BY <1>0, <1>9, Zenon DEF WatchNetwork, ownerVars, runtimeVars, envVars, NoFault
  <1>10. ASSUME NEW r \in Requests, WatchDecide(r) PROVE TypeFlags'
    BY <1>0, <1>10, Zenon DEF WatchDecide, ownerVars, runtimeVars, envVars, NoFault
  <1>11. ASSUME NEW r \in Requests, WatchStop(r) PROVE TypeFlags'
    BY <1>0, <1>11, StopFlags, Zenon DEF WatchStop, ownerVars, runtimeVars, envVars, NoFault
  <1>12. ASSUME NEW r \in Requests, CancelConnect(r) PROVE TypeFlags'
    BY <1>0, <1>12, Zenon DEF CancelConnect, ownerVars, runtimeVars, envVars, NoFault
  <1>13. ASSUME NEW r \in Requests, CancelTimeout(r) PROVE TypeFlags'
    BY <1>0, <1>13, Zenon DEF CancelTimeout, ownerVars, runtimeVars, envVars, NoFault
  <1>14. ASSUME NEW r \in Requests, CancelSettle(r) PROVE TypeFlags'
    BY <1>0, <1>14, StopFlags, Zenon DEF CancelSettle, ownerVars, runtimeVars, envVars, NoFault, Stop
  <1>15. ASSUME NEW r \in Requests, PromoteStart(r) PROVE TypeFlags'
    BY <1>0, <1>15, Zenon DEF PromoteStart, ownerVars, runtimeVars, envVars, NoFault
  <1>16. ASSUME NEW r \in Requests, Revoke(r) PROVE TypeFlags'
    BY <1>0, <1>16, StopFlags, Zenon DEF Revoke, ownerVars, runtimeVars, envVars, NoFault
  <1>17. ASSUME NEW r \in Requests, CallerGone(r) PROVE TypeFlags'
    BY <1>0, <1>17, Zenon DEF CallerGone, ownerVars, runtimeVars, envVars, NoFault
  <1>18. ASSUME NEW r \in Requests, PeerDies(r) PROVE TypeFlags'
    BY <1>0, <1>18, Zenon DEF PeerDies, ownerVars, runtimeVars, envVars, NoFault
  <1>19. CASE PromoteLost
    BY <1>0, <1>19, StopFlags, Zenon DEF PromoteLost, ownerVars, runtimeVars, envVars, NoFault
  <1>20. CASE PromoteReply
    BY <1>0, <1>20, Zenon DEF PromoteReply, ownerVars, runtimeVars, envVars, NoFault
  <1>21. CASE PromoteEnd
    BY <1>0, <1>21, StopFlags, Zenon DEF PromoteEnd, ownerVars, runtimeVars, envVars, NoFault
  <1>22. CASE LegacyConnect
    BY <1>0, <1>22, Zenon DEF LegacyConnect, ownerVars, runtimeVars, envVars, NoFault, ReleaseBoundConnect
  <1>23. CASE Disconnect
    BY <1>0, <1>23, StopFlags, Zenon DEF Disconnect, ownerVars, runtimeVars, envVars, NoFault
  <1>24. CASE SettleExitedCore
    BY <1>0, <1>24, StopFlags, Zenon DEF SettleExitedCore, ownerVars, runtimeVars, envVars, NoFault
  <1>25. CASE Close
    BY <1>0, <1>25, StopFlags, Zenon DEF Close, ownerVars, runtimeVars, envVars, NoFault
  <1>26. CASE CancelBoundNetwork
    BY <1>0, <1>26, Zenon DEF CancelBoundNetwork, ownerVars, runtimeVars, envVars, NoFault
  <1>27. CASE CoreDies
    BY <1>0, <1>27, Zenon DEF CoreDies, ownerVars, runtimeVars, envVars, NoFault
  <1>28. CASE NetworkChanges
    BY <1>0, <1>28, Zenon DEF NetworkChanges, ownerVars, runtimeVars, envVars, NoFault
  <1> QED BY <1>1, <1>2, <1>3, <1>4, <1>5, <1>6, <1>7, <1>8, <1>9, <1>10, <1>11,
             <1>12, <1>13, <1>14, <1>15, <1>16, <1>17, <1>18, <1>19, <1>20, <1>21,
             <1>22, <1>23, <1>24, <1>25, <1>26, <1>27, <1>28
         DEF Next, Handler, Watcher, Canceller, PromoteWait

-----------------------------------------------------------------------------
LEMMA InitInv == Init => IInv
  <1> SUFFICES ASSUME Init PROVE IInv OBVIOUS
  <1>1. TypeOK
    <2>1. TypeFlags BY Zenon DEF Init, TypeFlags
    <2>2. TypeFunctions BY NetworkAssumption DEF Init, TypeFunctions
    <2>3. TypeSets /\ TypeRequests /\ TypeRuntime BY DEF Init, TypeSets, TypeRequests, TypeRuntime
    <2>4. TypeNumbers BY FaultAssumption, NetworkAssumption DEF Init, TypeNumbers
    <2> QED BY <2>1, <2>2, <2>3, <2>4
            DEF TypeOK, TypeFlags, TypeFunctions, TypeSets, TypeRequests, TypeRuntime, TypeNumbers
  <1>2. /\ OwnerIsTracked /\ DoneReflectsOwner /\ SettledIsFinal /\ PromotedOutlivesUI
        /\ PromotedIsHeld /\ AckLossIsRestored /\ NoTransactionNoLease /\ ReplyIsRemembered
        /\ PromoterOwns
    BY DEF Init, OwnerIsTracked, DoneReflectsOwner, SettledIsFinal, PromotedOutlivesUI,
           PromotedIsHeld, AckLossIsRestored, NoTransactionNoLease, ReplyIsRemembered, PromoterOwns
  <1>3. /\ OneInvocation /\ DoneIsFinished /\ WorkingHoldsMu /\ WaitingIsOpen
        /\ IdleIsUntouched /\ ActingIsExplained
    BY RequestAssumption DEF Init, OneInvocation, DoneIsFinished, WorkingHoldsMu, WaitingIsOpen,
           IdleIsUntouched, ActingIsExplained
  <1> QED BY <1>1, <1>2, <1>3 DEF IInv

LEMMA NextTyped ==
  ASSUME IInv, Next PROVE TypeOK'
  BY SetsTyped, RequestsTyped, FunctionsTyped, RuntimeTyped, NumbersTyped, FlagsTyped
     DEF TypeOK, TypeSets, TypeRequests, TypeFunctions, TypeRuntime, TypeNumbers, TypeFlags

LEMMA NextInv ==
  ASSUME IInv, [Next]_vars PROVE IInv'
  <1>1. CASE Next
    BY <1>1, NextTyped, OwnerTracked, DoneReflects, SettledFinal, OneIsRetained, OutlivesUI, Held, AckLoss,
       FinishedDone, WorkingLocked, WaitingOpen, IdleUntouched, NoLease, Remembered, Promoter, Explained DEF IInv
  <1>2. CASE UNCHANGED vars
    <2> USE <1>2 DEF vars, callVars, ownerVars, runtimeVars, handlerVars, envVars
    <2>1. TypeOK'
      <3>1. TypeFlags' BY Zenon DEF IInv, TypeOK, TypeFlags
      <3>2. /\ TypeFunctions' /\ TypeSets' /\ TypeRequests' /\ TypeRuntime' /\ TypeNumbers'
        BY DEF IInv, TypeOK, TypeFunctions, TypeSets, TypeRequests, TypeRuntime, TypeNumbers
      <3> QED BY <3>1, <3>2
              DEF TypeOK, TypeFlags, TypeFunctions, TypeSets, TypeRequests, TypeRuntime, TypeNumbers
    <2>2. /\ OwnerIsTracked' /\ DoneReflectsOwner' /\ SettledIsFinal' /\ OneInvocation'
          /\ PromotedOutlivesUI' /\ PromotedIsHeld' /\ AckLossIsRestored'
      BY DEF IInv, OwnerIsTracked, Current, DoneReflectsOwner, SettledIsFinal, OneInvocation,
             PromotedOutlivesUI, PromotedIsHeld, AckLossIsRestored
    <2>3. /\ DoneIsFinished' /\ WorkingHoldsMu' /\ WaitingIsOpen' /\ IdleIsUntouched'
          /\ NoTransactionNoLease' /\ ReplyIsRemembered' /\ PromoterOwns' /\ ActingIsExplained'
      BY DEF IInv, DoneIsFinished, WorkingHoldsMu, WaitingIsOpen, IdleIsUntouched,
             NoTransactionNoLease, ReplyIsRemembered, PromoterOwns, ActingIsExplained
    <2> QED BY <2>1, <2>2, <2>3 DEF IInv
  <1> QED BY <1>1, <1>2

\* The inductive invariant: every conjunct above, in every reachable state.
THEOREM Invariance == Spec => []IInv
  BY InitInv, NextInv, PTL DEF Spec

\* Every variable keeps its type, for any number of requests.
THEOREM TypeCorrect == Spec => []TypeOK
  BY Invariance, PTL DEF IInv

\* The owner of a running transaction is the retained, unstopped invocation, for
\* any number of requests and any interleaving of their cancellations, watchers
\* and promotions with disconnect, recovery and Close.
THEOREM OwnerReachable == Spec => []OwnerIsTracked
  BY Invariance, PTL DEF IInv

\* The stopped flag of a finished invocation says whether it still owns a runtime.
THEOREM FlagFollowsOwner == Spec => []DoneReflectsOwner
  BY Invariance, PTL DEF IInv

\* A settled receipt, of cancel_connect or of a refused connect, is never wrong
\* later: nothing of that request runs or will run.
THEOREM ReceiptFinal == Spec => []SettledIsFinal
  BY Invariance, PTL DEF IInv

\* beginBoundConnect never lets two invocations work at once.
THEOREM SingleInvocation == Spec => []OneInvocation
  BY Invariance, PTL DEF IInv

\* A promoted runtime is not stopped because its UI died, whenever the UI died.
THEOREM LeaseOutlivesUI == Spec => []PromotedOutlivesUI
  BY Invariance, PTL DEF IInv

\* A lease is reported active only while the child holds it acknowledged.
THEOREM LeaseHeld == Spec => []PromotedIsHeld
  BY Invariance, PTL DEF IInv

\* A lease the child may hold unacknowledged leaves no runtime that counts as whole.
THEOREM LostAckRestored == Spec => []AckLossIsRestored
  BY Invariance, PTL DEF IInv

\* Service and child agree on the lease, for any set of requests.
THEOREM LeaseAgreed == Spec => []LeaseIsAgreed
<1>1. PromotedIsHeld /\ AckLossIsRestored => LeaseIsAgreed
  BY DEF LeaseIsAgreed
<1> QED
  BY <1>1, LeaseHeld, LostAckRestored, PTL

=============================================================================

------------------------- MODULE LinuxBoundConnect -------------------------
(***************************************************************************)
(* Concurrent requests of the Linux daemon around one bound connect:       *)
(*   internal/service/{service_linux,cancel_connect_linux,                 *)
(*   transport_lease_linux}.go and the lease commands of coreprocess.      *)
(*                                                                         *)
(* A bound connect is admitted under connectMu, authorized without a lock, *)
(* runs under mu and is finished under both.  Beside it run the goroutine  *)
(* that watches its UI process and its network, the cancel_connect of that *)
(* process, lease promotion and revocation, disconnect, legacy connect,    *)
(* the watcher of the Core child and Close.                                *)
(*                                                                         *)
(* The network transaction is LinuxNetworkTransaction, seen from outside:  *)
(* Execute installs all of it, or nothing, or leaves something to recover; *)
(* Restore removes it or leaves it to a retry.  Sections of connectMu and  *)
(* handlers that hold mu without waiting for anyone are single steps.      *)
(***************************************************************************)
EXTENDS Naturals, FiniteSets

CONSTANTS
  Requests,     \* connect_with_identity requests, each of its own UI process
  NoRequest,    \* the empty request id
  MaxFaults,    \* bound on failed restorations and lost replies
  MaxNetworks   \* bound on the changes of the physical network

ASSUME RequestAssumption == NoRequest \notin Requests
ASSUME FaultAssumption == MaxFaults \in Nat
ASSUME NetworkAssumption == MaxNetworks \in Nat

VARIABLES
  mu,                     \* "free", or who holds it across steps
  boundConnectCall,       \* the retained invocation
  stopped, done,          \* flags of the invocations: subsets of Requests
  cancelled, peerLost,
  networkRef,             \* the network each invocation was admitted for
  boundConnectRequestID,  \* the owner of the running transaction
  transaction,            \* "none", "fresh", "active" or "recoveryRequired"
  recoveryRequired,
  phase,                  \* "running" or "staged" (any other phase)
  transportPromoted,
  transportLeaseRef,      \* a lease was promoted for this owner
  closed,
  core,                   \* the child: "none", "alive" or "exited"
  coreLease,              \* the child's lease: "none", "accepted" without a reply,
                          \* "acked" or "terminated"
  handler,                \* the connect handler of each request
  watcher,                \* watchBoundPeer of each invocation
  networkChanged,         \* and what its last look at the network said
  canceller,              \* the cancel_connect handler of each request
  settled,                \* the requests that were told they are settled
  alive,                  \* the UI processes
  network,                \* the reference in force: every change of the physical
                          \* network, and every failed sample, makes a new one
  notice,                 \* an onChange callback is under way
  faults

callVars == <<boundConnectCall, stopped, done, cancelled, peerLost, networkRef>>
ownerVars == <<boundConnectRequestID, transportPromoted, transportLeaseRef>>
runtimeVars == <<transaction, recoveryRequired, phase, core, coreLease>>
handlerVars == <<handler, watcher, networkChanged, canceller, settled>>
envVars == <<alive, network, notice>>
vars == <<mu, callVars, ownerVars, runtimeVars, closed, handlerVars, envVars, faults>>

TypeOK ==
  /\ mu \in {"free", "connect", "promote", "promoted"}
  /\ boundConnectCall \in Requests \cup {NoRequest}
  /\ stopped \subseteq Requests /\ done \subseteq Requests
  /\ cancelled \subseteq Requests /\ peerLost \subseteq Requests
  /\ networkRef \in [Requests -> 0..MaxNetworks]
  /\ boundConnectRequestID \in Requests \cup {NoRequest}
  /\ transaction \in {"none", "fresh", "active", "recoveryRequired"}
  /\ recoveryRequired \in BOOLEAN
  /\ phase \in {"running", "staged"}
  /\ transportPromoted \in BOOLEAN /\ transportLeaseRef \in BOOLEAN
  /\ closed \in BOOLEAN
  /\ core \in {"none", "alive", "exited"}
  /\ coreLease \in {"none", "accepted", "acked", "terminated"}
  /\ handler \in [Requests -> {"idle", "refused", "authorizing", "waiting", "executing",
                               "started", "finishing", "finished"}]
  /\ watcher \in [Requests -> {"none", "running", "acting", "waiting", "exited"}]
  /\ networkChanged \subseteq Requests
  /\ canceller \in [Requests -> {"idle", "waiting"}]
  /\ settled \subseteq Requests
  /\ alive \subseteq Requests
  /\ network \in 0..MaxNetworks
  /\ notice \in BOOLEAN
  /\ faults \in 0..MaxFaults

Init ==
  /\ mu = "free"
  /\ boundConnectCall = NoRequest
  /\ stopped = {} /\ done = {} /\ cancelled = {} /\ peerLost = {}
  /\ networkRef = [r \in Requests |-> 0]
  /\ boundConnectRequestID = NoRequest
  /\ transaction = "none"
  /\ recoveryRequired \in BOOLEAN   \* what Recover found at start
  /\ phase = "staged"
  /\ transportPromoted = FALSE /\ transportLeaseRef = FALSE
  /\ closed = FALSE
  /\ core = "none" /\ coreLease = "none"
  /\ handler = [r \in Requests |-> "idle"]
  /\ watcher = [r \in Requests |-> "none"]
  /\ networkChanged = {}
  /\ canceller = [r \in Requests |-> "idle"]
  /\ settled = {}
  /\ alive = Requests
  /\ network = 0 /\ notice = FALSE
  /\ faults = 0

Fault == faults < MaxFaults /\ faults' = faults + 1
NoFault == UNCHANGED faults

\* networkContext.Matches; the observer is closed with the service.
Matches(r) == ~closed /\ networkRef[r] = network

(***************************************************************************)
(* stop and releaseBoundConnect.                                           *)
(***************************************************************************)

\* The invocation that owned the transaction has stopped.
ReleaseBoundConnect ==
  /\ stopped' = stopped \cup {r \in Requests : boundConnectRequestID = r /\ boundConnectCall = r}
  /\ boundConnectRequestID' = NoRequest
  /\ transportPromoted' = FALSE /\ transportLeaseRef' = FALSE

\* Faulty: the transaction is dropped without its owner.
RestoredKeepsOwner ==
  /\ UNCHANGED <<stopped, boundConnectRequestID, transportPromoted, transportLeaseRef>>
  /\ transaction' = "none" /\ phase' = "staged"
  /\ core' = "none" /\ coreLease' = "none"

\* The transaction is restored or recovered, and the child is gone.
Restored ==
  /\ ReleaseBoundConnect
  /\ transaction' = "none" /\ phase' = "staged"
  /\ core' = "none" /\ coreLease' = "none"

\* Nothing to do; Restore succeeds; or recoverPending does, at once or after
\* Restore failed for a child that has exited.
StopSucceeds ==
  /\ NoFault
  /\ \/ /\ transaction = "none" /\ ~recoveryRequired
        /\ UNCHANGED <<stopped, ownerVars, runtimeVars>>
     \/ /\ transaction = "none" /\ recoveryRequired
        /\ recoveryRequired' = FALSE
        /\ \/ Restored
           \/ UNCHANGED <<stopped, ownerVars, transaction, phase, core, coreLease>>
     \/ /\ transaction # "none" /\ Restored
        /\ recoveryRequired' \in {recoveryRequired, FALSE}

\* The owner is retained for a retry.  recoverPending follows a failed Restore
\* when the child has exited: it fails, which takes the phase back, or it finds
\* no record to recover.
StopFails ==
  /\ Fault
  /\ \/ /\ transaction # "none" /\ core = "alive"
        /\ transaction' = "recoveryRequired" /\ UNCHANGED <<recoveryRequired, phase, core>>
     \/ /\ transaction # "none"
        /\ transaction' = "recoveryRequired" /\ core' = "exited"
        /\ \/ recoveryRequired' = TRUE /\ phase' = "staged"
           \/ recoveryRequired' = FALSE /\ UNCHANGED phase
     \/ /\ transaction = "none" /\ recoveryRequired
        /\ phase' = "staged" /\ UNCHANGED <<recoveryRequired, transaction, core>>
  /\ UNCHANGED <<stopped, ownerVars, coreLease>>

Stop == StopSucceeds \/ StopFails

(***************************************************************************)
(* connect_with_identity.                                                  *)
(***************************************************************************)

\* beginBoundConnect: one invocation at a time, until it has both stopped and
\* finished.  The reference may be one that was read some time ago.  A request
\* that is refused is told that it is settled.
BeginBoundConnect(r) ==
  /\ handler[r] = "idle" /\ r \in alive
  /\ IF boundConnectCall = NoRequest \/ boundConnectCall \in stopped \cap done
       THEN /\ boundConnectCall' = r
            /\ networkRef' \in {[networkRef EXCEPT ![r] = n] : n \in 0..network}
            /\ handler' = [handler EXCEPT ![r] = "authorizing"]
            /\ watcher' = [watcher EXCEPT ![r] = "running"]
            /\ UNCHANGED settled
       ELSE /\ handler' = [handler EXCEPT ![r] = "refused"]
            /\ settled' = settled \cup {r}
            /\ UNCHANGED <<boundConnectCall, networkRef, watcher>>
  /\ UNCHANGED <<mu, stopped, done, cancelled, peerLost, ownerVars, runtimeVars, closed,
                 networkChanged, canceller, envVars, faults>>

\* The first look at the network and the authorization, without a lock.
Authorize(r) ==
  /\ handler[r] = "authorizing"
  /\ \/ Matches(r) /\ r \notin cancelled /\ handler' = [handler EXCEPT ![r] = "waiting"]
     \/ handler' = [handler EXCEPT ![r] = "finishing"]
  /\ UNCHANGED <<mu, callVars, ownerVars, runtimeVars, closed, watcher, networkChanged,
                 canceller, settled, envVars, faults>>

\* connect up to Prepare.  A rejected candidate changes nothing.
Prepare(r) ==
  /\ handler[r] = "waiting" /\ mu = "free"
  /\ \/ /\ ~closed /\ r \notin cancelled /\ Matches(r)
        /\ transaction = "none" /\ ~recoveryRequired
        /\ mu' = "connect"
        /\ boundConnectRequestID' = r /\ transportPromoted' = FALSE
        /\ transaction' = "fresh" /\ core' = "alive" /\ coreLease' = "none"
        /\ handler' = [handler EXCEPT ![r] = "executing"]
     \/ /\ handler' = [handler EXCEPT ![r] = "finishing"]
        /\ UNCHANGED <<mu, boundConnectRequestID, transportPromoted, transaction, core, coreLease>>
  /\ UNCHANGED <<callVars, transportLeaseRef, recoveryRequired, phase, closed, watcher,
                 networkChanged, canceller, settled, envVars, faults>>

\* Execute, and what connect makes of its error.
Execute(r) ==
  /\ handler[r] = "executing"
  /\ \/ /\ transaction' = "active" /\ phase' = "running"
        /\ handler' = [handler EXCEPT ![r] = "started"]
        /\ NoFault /\ UNCHANGED <<mu, stopped, ownerVars, core, coreLease>>
     \/ /\ Restored /\ NoFault
        /\ handler' = [handler EXCEPT ![r] = "finishing"] /\ mu' = "free"
     \/ /\ Fault /\ transaction' = "recoveryRequired" /\ phase' = "staged"
        /\ core' \in {core, "exited"}
        /\ handler' = [handler EXCEPT ![r] = "finishing"] /\ mu' = "free"
        /\ UNCHANGED <<stopped, ownerVars, coreLease>>
  /\ UNCHANGED <<boundConnectCall, done, cancelled, peerLost, networkRef, recoveryRequired,
                 closed, watcher, networkChanged, canceller, settled, envVars>>

\* After a successful Execute: a cancellation, the deadline or another network
\* undoes it.
Settle(r) ==
  /\ handler[r] = "started"
  /\ handler' = [handler EXCEPT ![r] = "finishing"] /\ mu' = "free"
  /\ \/ /\ r \notin cancelled /\ Matches(r)
        /\ NoFault /\ UNCHANGED <<stopped, ownerVars, runtimeVars>>
     \/ Stop
  /\ UNCHANGED <<boundConnectCall, done, cancelled, peerLost, networkRef, closed, watcher,
                 networkChanged, canceller, settled, envVars>>

\* The deferred finish, with both locks.
Finish(r) ==
  /\ handler[r] = "finishing" /\ mu = "free"
  /\ handler' = [handler EXCEPT ![r] = "finished"]
  /\ cancelled' = cancelled \cup {r}
  /\ stopped' = IF boundConnectRequestID = r THEN stopped \ {r} ELSE stopped \cup {r}
  /\ done' = done \cup {r}
  /\ UNCHANGED <<mu, boundConnectCall, peerLost, networkRef, ownerVars, runtimeVars, closed,
                 watcher, networkChanged, canceller, settled, envVars, faults>>

(***************************************************************************)
(* watchBoundPeer.                                                         *)
(***************************************************************************)

Current(r) == boundConnectCall = r /\ r \notin stopped

\* A tick of an invocation that is over.
WatchOver(r) ==
  /\ watcher[r] = "running" /\ ~Current(r)
  /\ watcher' = [watcher EXCEPT ![r] = "exited"]
  /\ UNCHANGED <<mu, callVars, ownerVars, runtimeVars, closed, handler, networkChanged,
                 canceller, settled, envVars, faults>>

\* A tick that finds the process gone and has no look at the network, or finds
\* it unchanged.
WatchPeer(r) ==
  /\ watcher[r] = "running" /\ Current(r) /\ r \notin alive
  /\ peerLost' = peerLost \cup {r}
  /\ networkChanged' = networkChanged \ {r}
  /\ watcher' = [watcher EXCEPT ![r] = "acting"]
  /\ UNCHANGED <<mu, boundConnectCall, stopped, done, cancelled, networkRef, ownerVars,
                 runtimeVars, closed, handler, canceller, settled, envVars, faults>>

\* A tick that finds another network, which it looks for once a second.
WatchNetwork(r) ==
  /\ watcher[r] = "running" /\ Current(r) /\ ~Matches(r)
  /\ peerLost' = IF r \in alive THEN peerLost ELSE peerLost \cup {r}
  /\ networkChanged' = networkChanged \cup {r}
  /\ watcher' = [watcher EXCEPT ![r] = "acting"]
  /\ UNCHANGED <<mu, boundConnectCall, stopped, done, cancelled, networkRef, ownerVars,
                 runtimeVars, closed, handler, canceller, settled, envVars, faults>>

\* Faulty: a promoted lease does not outlive its UI.
WatchDecideAll(r) ==
  /\ watcher[r] = "acting" /\ mu = "free"
  /\ \/ ~Current(r) /\ watcher' = [watcher EXCEPT ![r] = "exited"] /\ UNCHANGED cancelled
     \/ Current(r) /\ watcher' = [watcher EXCEPT ![r] = "waiting"] /\ cancelled' = cancelled \cup {r}
  /\ UNCHANGED <<mu, boundConnectCall, stopped, done, peerLost, networkRef, ownerVars,
                 runtimeVars, closed, handler, networkChanged, canceller, settled, envVars, faults>>

\* Faulty: the runtime lock is kept while waiting for the invocation.
WatchDecideLocked(r) ==
  /\ watcher[r] = "acting" /\ mu = "free"
  /\ LET promoted == transportPromoted /\ boundConnectRequestID = r IN
     \/ ~Current(r) /\ watcher' = [watcher EXCEPT ![r] = "exited"] /\ UNCHANGED <<mu, cancelled>>
     \/ /\ Current(r) /\ promoted /\ r \notin networkChanged
        /\ watcher' = [watcher EXCEPT ![r] = "running"] /\ UNCHANGED <<mu, cancelled>>
     \/ /\ Current(r) /\ ~(promoted /\ r \notin networkChanged)
        /\ watcher' = [watcher EXCEPT ![r] = "waiting"] /\ cancelled' = cancelled \cup {r}
        /\ mu' = "connect"
  /\ UNCHANGED <<boundConnectCall, stopped, done, peerLost, networkRef, ownerVars,
                 runtimeVars, closed, handler, networkChanged, canceller, settled, envVars, faults>>

\* The process does not own a promoted lease any more; the network does.
WatchDecide(r) ==
  /\ watcher[r] = "acting" /\ mu = "free"
  /\ LET promoted == transportPromoted /\ boundConnectRequestID = r IN
     \/ ~Current(r) /\ watcher' = [watcher EXCEPT ![r] = "exited"] /\ UNCHANGED cancelled
     \/ /\ Current(r) /\ promoted /\ r \notin networkChanged
        /\ watcher' = [watcher EXCEPT ![r] = "running"] /\ UNCHANGED cancelled
     \/ /\ Current(r) /\ ~(promoted /\ r \notin networkChanged)
        /\ watcher' = [watcher EXCEPT ![r] = "waiting"] /\ cancelled' = cancelled \cup {r}
  /\ UNCHANGED <<mu, boundConnectCall, stopped, done, peerLost, networkRef, ownerVars,
                 runtimeVars, closed, handler, networkChanged, canceller, settled, envVars, faults>>

\* The invocation is over: stop what it owns, once.
WatchStop(r) ==
  /\ watcher[r] = "waiting" /\ r \in done /\ mu = "free"
  /\ watcher' = [watcher EXCEPT ![r] = "exited"]
  /\ IF boundConnectRequestID = r THEN Stop
       ELSE NoFault /\ UNCHANGED <<stopped, ownerVars, runtimeVars>>
  /\ UNCHANGED <<mu, boundConnectCall, done, cancelled, peerLost, networkRef, closed,
                 handler, networkChanged, canceller, settled, envVars>>

(***************************************************************************)
(* cancel_connect of the process that made the request.                    *)
(***************************************************************************)

\* A request that is not the retained one gets no receipt.
CancelConnect(r) ==
  /\ canceller[r] = "idle" /\ r \in alive /\ boundConnectCall = r /\ r \notin settled
  /\ cancelled' = cancelled \cup {r}
  /\ canceller' = [canceller EXCEPT ![r] = "waiting"]
  /\ UNCHANGED <<mu, boundConnectCall, stopped, done, peerLost, networkRef, ownerVars,
                 runtimeVars, closed, handler, watcher, networkChanged, settled, envVars, faults>>

\* 35 seconds are over; the caller may ask again.
CancelTimeout(r) ==
  /\ canceller[r] = "waiting" /\ r \notin done
  /\ canceller' = [canceller EXCEPT ![r] = "idle"]
  /\ UNCHANGED <<mu, callVars, ownerVars, runtimeVars, closed, handler, watcher,
                 networkChanged, settled, envVars, faults>>

\* Faulty: the receipt is given although the owner could not be stopped.
CancelSettleEarly(r) ==
  /\ canceller[r] = "waiting" /\ r \in done /\ mu = "free"
  /\ canceller' = [canceller EXCEPT ![r] = "idle"]
  /\ IF boundConnectRequestID = r THEN Stop
       ELSE NoFault /\ UNCHANGED <<stopped, ownerVars, runtimeVars>>
  /\ settled' = settled \cup {r}
  /\ UNCHANGED <<mu, boundConnectCall, done, cancelled, peerLost, networkRef, closed,
                 handler, watcher, networkChanged, envVars>>

\* The invocation is over: stop what it owns, and answer from its flag.
CancelSettle(r) ==
  /\ canceller[r] = "waiting" /\ r \in done /\ mu = "free"
  /\ canceller' = [canceller EXCEPT ![r] = "idle"]
  /\ \/ boundConnectRequestID = r /\ StopFails /\ UNCHANGED settled
     \/ /\ \/ boundConnectRequestID = r /\ StopSucceeds
           \/ /\ boundConnectRequestID # r
              /\ NoFault /\ UNCHANGED <<stopped, ownerVars, runtimeVars>>
        /\ settled' = IF r \in stopped' THEN settled \cup {r} ELSE settled
  /\ UNCHANGED <<mu, boundConnectCall, done, cancelled, peerLost, networkRef, closed,
                 handler, watcher, networkChanged, envVars>>

(***************************************************************************)
(* promote_transport_lease and revoke_transport_lease.                     *)
(***************************************************************************)

\* The checks before PromoteATSLease, and the command, which the child may
\* accept; mu is held for its reply.  A session that was promoted before, or
\* whose deadline has passed, refuses without asking the child.
PromoteStart(r) ==
  /\ mu = "free" /\ Current(r) /\ r \notin peerLost /\ boundConnectRequestID = r
  /\ ~closed /\ phase = "running" /\ ~transportPromoted /\ ~transportLeaseRef
  /\ core = "alive" /\ r \in alive /\ Matches(r)
  /\ mu' = "promote"
  /\ coreLease' \in {coreLease} \cup (IF coreLease = "none" THEN {"accepted"} ELSE {})
  /\ UNCHANGED <<callVars, ownerVars, transaction, recoveryRequired, phase, core, closed,
                 handlerVars, envVars, faults>>

\* PromoteATSLease fails: the reply is lost, late or wrong, or the session
\* refused.  The child may hold the lease: everything is restored.
PromoteLost ==
  /\ mu = "promote" /\ mu' = "free"
  /\ Stop
  /\ UNCHANGED <<boundConnectCall, done, cancelled, peerLost, networkRef, closed, handlerVars,
                 envVars>>

\* The reply of a live child, which the session remembers.
PromoteReply ==
  /\ mu = "promote" /\ mu' = "promoted"
  /\ coreLease = "accepted" /\ core = "alive"
  /\ coreLease' = "acked"
  /\ UNCHANGED <<callVars, ownerVars, transaction, recoveryRequired, phase, core, closed,
                 handlerVars, envVars, faults>>

\* What may have changed while mu was held for the reply: the process, the
\* child and the network.
PromoteEnd ==
  /\ mu = "promoted" /\ mu' = "free"
  /\ LET r == boundConnectRequestID IN
     IF r \in peerLost \cup stopped \/ r \notin alive \/ core = "exited" \/ ~Matches(r)
       THEN Stop
       ELSE /\ transportPromoted' = TRUE /\ transportLeaseRef' = TRUE
            /\ NoFault /\ UNCHANGED <<stopped, boundConnectRequestID, runtimeVars>>
  /\ UNCHANGED <<boundConnectCall, done, cancelled, peerLost, networkRef, closed, handlerVars,
                 envVars>>

\* Faulty: a terminated lease stays promoted.
RevokeKeepsPromotion(r) ==
  /\ mu = "free" /\ Current(r) /\ r \in alive /\ boundConnectRequestID = r
  /\ ~closed /\ phase = "running" /\ transportPromoted /\ core = "alive"
  /\ coreLease' = "terminated"
  /\ UNCHANGED <<mu, callVars, ownerVars, transaction, recoveryRequired, phase, core, closed,
                 handlerVars, envVars, faults>>

\* RevokeATSLease: a lost reply restores everything; otherwise a terminated
\* lease is not active any more, and its reference stays in the way of another.
Revoke(r) ==
  /\ mu = "free" /\ Current(r) /\ r \in alive /\ boundConnectRequestID = r
  /\ ~closed /\ phase = "running" /\ transportPromoted /\ core = "alive"
  /\ \/ Stop
     \/ /\ transportPromoted' = FALSE /\ coreLease' = "terminated"
        /\ NoFault
        /\ UNCHANGED <<stopped, boundConnectRequestID, transportLeaseRef, transaction,
                       recoveryRequired, phase, core>>
  /\ UNCHANGED <<mu, boundConnectCall, done, cancelled, peerLost, networkRef, closed,
                 handlerVars, envVars>>

(***************************************************************************)
(* The other users of the runtime.                                         *)
(***************************************************************************)

\* connect without an identity.  It may recover what an earlier owner left; it
\* starts a transaction that no bound request owns.
LegacyConnect ==
  /\ mu = "free" /\ ~closed
  /\ \/ /\ recoveryRequired /\ Fault /\ phase' = "staged"
        /\ UNCHANGED <<stopped, ownerVars, transaction, recoveryRequired, core, coreLease>>
     \/ /\ recoveryRequired /\ recoveryRequired' = FALSE /\ NoFault
        /\ UNCHANGED <<stopped, ownerVars, transaction, phase, core, coreLease>>
     \/ /\ transaction = "none" \/ recoveryRequired
        /\ IF recoveryRequired THEN ReleaseBoundConnect ELSE UNCHANGED <<stopped, ownerVars>>
        /\ coreLease' = "none"
        /\ \/ /\ transaction' = "active" /\ phase' = "running" /\ core' = "alive"
              /\ recoveryRequired' = FALSE /\ NoFault
           \/ /\ transaction' = "none" /\ phase' = "staged" /\ core' = "none"
              /\ recoveryRequired' = FALSE /\ NoFault
           \/ /\ transaction' = "recoveryRequired" /\ core' \in {"alive", "exited"} /\ Fault
              /\ \/ recoveryRequired' = FALSE /\ phase' \in {"staged", "running"}
                 \/ recoveryRequired' = TRUE /\ core' = "exited" /\ phase' = "staged"
  /\ UNCHANGED <<mu, boundConnectCall, done, cancelled, peerLost, networkRef, closed,
                 handlerVars, envVars>>

Disconnect ==
  /\ mu = "free" /\ ~closed
  /\ Stop
  /\ UNCHANGED <<mu, boundConnectCall, done, cancelled, peerLost, networkRef, closed,
                 handlerVars, envVars>>

\* watchCore, once, and status, as often as it is asked, for an exited child.
SettleExitedCore ==
  /\ mu = "free" /\ core = "exited"
  /\ Stop
  /\ UNCHANGED <<mu, boundConnectCall, done, cancelled, peerLost, networkRef, closed,
                 handlerVars, envVars>>

Close ==
  /\ mu = "free" /\ ~closed
  /\ closed' = TRUE
  /\ Stop
  /\ UNCHANGED <<mu, boundConnectCall, done, cancelled, peerLost, networkRef, handlerVars,
                 envVars>>

\* cancelBoundNetwork, called without a lock after the change.
CancelBoundNetwork ==
  /\ notice /\ notice' = FALSE
  /\ cancelled' = cancelled \cup {r \in Requests : Current(r)}
  /\ UNCHANGED <<mu, boundConnectCall, stopped, done, peerLost, networkRef, ownerVars,
                 runtimeVars, closed, handlerVars, alive, network, faults>>

\* The connect socket: a trailer, its end or the deadline cancels the invocation.
CallerGone(r) ==
  /\ handler[r] \in {"authorizing", "waiting", "executing", "started"}
  /\ cancelled' = cancelled \cup {r}
  /\ UNCHANGED <<mu, boundConnectCall, stopped, done, peerLost, networkRef, ownerVars,
                 runtimeVars, closed, handlerVars, envVars, faults>>

\* External: the child, the UI process and the network.
CoreDies ==
  /\ core = "alive" /\ core' = "exited"
  /\ UNCHANGED <<mu, callVars, ownerVars, transaction, recoveryRequired, phase, coreLease,
                 closed, handlerVars, envVars, faults>>

PeerDies(r) ==
  /\ r \in alive /\ alive' = alive \ {r}
  /\ UNCHANGED <<mu, callVars, ownerVars, runtimeVars, closed, handlerVars, network, notice, faults>>

NetworkChanges ==
  /\ network < MaxNetworks /\ network' = network + 1 /\ notice' = TRUE
  /\ UNCHANGED <<mu, callVars, ownerVars, runtimeVars, closed, handlerVars, alive, faults>>

-----------------------------------------------------------------------------
Handler(r) ==
  \/ Authorize(r) \/ Prepare(r) \/ Execute(r) \/ Settle(r) \/ Finish(r)

Watcher(r) ==
  \/ WatchOver(r) \/ WatchPeer(r) \/ WatchNetwork(r) \/ WatchDecide(r) \/ WatchStop(r)

Canceller(r) ==
  \/ CancelConnect(r) \/ CancelTimeout(r) \/ CancelSettle(r)

PromoteWait == PromoteLost \/ PromoteReply \/ PromoteEnd

Next ==
  \/ \E r \in Requests :
       \/ BeginBoundConnect(r) \/ Handler(r) \/ Watcher(r) \/ Canceller(r)
       \/ PromoteStart(r) \/ Revoke(r) \/ CallerGone(r) \/ PeerDies(r)
  \/ PromoteWait
  \/ LegacyConnect \/ Disconnect \/ SettleExitedCore \/ Close
  \/ CancelBoundNetwork \/ CoreDies \/ NetworkChanges

Spec == Init /\ [][Next]_vars

\* Goroutines run and the holder of mu always gives it back: its waits have
\* timeouts.  The look at the network comes round once a second, whatever the
\* ticks between find.
Fairness ==
  /\ \A r \in Requests :
       /\ WF_vars(Handler(r)) /\ WF_vars(Watcher(r)) /\ SF_vars(WatchNetwork(r))
       /\ WF_vars(CancelSettle(r))
  /\ WF_vars(PromoteWait)

FairSpec == Spec /\ Fairness

-----------------------------------------------------------------------------
\* The owner of a running transaction is the retained, unstopped invocation,
\* whatever cancelled, stopped or recovered it meanwhile (releaseBoundConnect):
\* otherwise no watcher and no cancel_connect would reach the runtime.
OwnerIsTracked ==
  boundConnectRequestID # NoRequest =>
    /\ transaction # "none"
    /\ Current(boundConnectRequestID)

\* Once an invocation has finished, stopped says exactly whether it left a
\* runtime behind: the value computed in finish stays right through every later
\* stop, recovery and failed retry.
DoneReflectsOwner ==
  \A r \in done : r \in stopped <=> boundConnectRequestID # r

\* An answer that says settled, of cancel_connect or of a refused connect, is final: the
\* request owns nothing and its handler will not start anything any more.
SettledIsFinal ==
  \A r \in settled :
    boundConnectRequestID # r /\ handler[r] \in {"refused", "finished"}

\* No invocation is in progress or owns anything beside the retained one.
OneInvocation ==
  \A r \in Requests : r # boundConnectCall =>
    handler[r] \in {"idle", "refused", "finished"} /\ boundConnectRequestID # r

\* The watcher is on its way to stop a promoted runtime only for the network:
\* the process that made the request does not own the lease any more, even if it
\* died while the child was accepting it.
PromotedOutlivesUI ==
  \A r \in Requests :
    watcher[r] = "waiting" /\ transportPromoted /\ boundConnectRequestID = r =>
      r \in networkChanged

\* TransportLeaseActive is reported for a lease the child acknowledged and has
\* not terminated.
PromotedIsHeld ==
  transportPromoted => coreLease = "acked" /\ transportLeaseRef

\* A lease the child may have accepted without the daemon knowing leaves no
\* runtime that counts as whole.
AckLossIsRestored ==
  coreLease = "accepted" /\ mu # "promote" => transaction = "recoveryRequired"

\* Service and child agree on the lease, whichever message between them is lost:
\* see the two above.
LeaseIsAgreed == PromotedIsHeld /\ AckLossIsRestored

\* Every admitted invocation finishes: nobody who waits for it holds a lock that
\* it needs.
InvocationFinishes ==
  \A r \in Requests : (handler[r] = "authorizing") ~> (r \in done)

\* A runtime whose process is gone is stopped, unless its lease was promoted or
\* the one attempt to restore it failed.
DeadPeerReleased ==
  \A r \in Requests :
    (boundConnectRequestID = r /\ r \notin alive)
      ~> (boundConnectRequestID # r \/ transportPromoted \/ transaction = "recoveryRequired")

\* A runtime of another network is stopped, promoted or not, unless the one
\* attempt to restore it failed.
ChangedNetworkStops ==
  \A r \in Requests :
    (boundConnectRequestID = r /\ ~Matches(r))
      ~> (boundConnectRequestID # r \/ transaction = "recoveryRequired")

=============================================================================

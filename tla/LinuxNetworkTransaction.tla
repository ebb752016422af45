---------------------- MODULE LinuxNetworkTransaction ----------------------
(***************************************************************************)
(* The host network transaction of the Linux daemon, its durable recovery  *)
(* record and the service operations that drive it:                        *)
(*   internal/networktxn/{transaction,recovery,recovery_linux,             *)
(*   participants,routes}.go, Start and Stop of internal/coreprocess, and  *)
(*   connect, stop, recoverPending and Recover of internal/service.        *)
(*                                                                         *)
(* A connect installs an nftables block, starts Core (which creates the    *)
(* TUN), adds policy routes and per-link DNS, and undoes all of it in the  *)
(* opposite order.  Every command may fail, with or without its effect;    *)
(* the daemon may die and the host may reboot between any two steps.  What *)
(* is left is cleaned up from a record that is written before each effect. *)
(*                                                                         *)
(* service.mu is held from the first to the last step of an operation, so  *)
(* the daemon is one sequential process with program counter pc; what runs *)
(* beside it is the host: Core, NetworkManager, other administrators.      *)
(***************************************************************************)
EXTENDS Naturals, Sequences

CONSTANTS
  MaxFaults,      \* bound on the faults of a behaviour
  FaultKinds,     \* which faults happen
  TunnelRoutes    \* the policy routes that go through the TUN device:
                  \* {"route4"}, or both families when the plan has IPv6

ASSUME FaultAssumption == MaxFaults \in Nat
ASSUME RouteAssumption == TunnelRoutes \subseteq {"route4", "route6"}

\* recoveryState's pending bits; "nm" stands for a recorded NMCheckpoint.
Subsystems == {"nm", "resolved", "nft", "routes"}

\* routeParticipant adds its objects in ApplyOrder and removes them in RemoveOrder.
ApplyOrder == <<"route4", "rule4", "route6", "rule6">>
RemoveOrder == <<"rule4", "route4", "rule6", "route6">>
RouteObjects == {"route4", "rule4", "route6", "rule6"}

NoFile == [boot |-> "none", pending |-> {}]
Files == [boot : {"none", "this", "previous"}, pending : SUBSET Subsystems]

VARIABLES
  \* the host
  nftTable,       \* table inet pokrov: "none", "own", "foreign", "merged" (ours
                  \* added to a foreign one) or "orphan" (an older token of ours)
  routes,         \* our objects in route table 20555
  foreignRoutes,  \* someone else's objects with our table and protocol
  resolved,       \* DNS of the TUN link: "default" or "owned"
  nmCheckpoint,   \* the NetworkManager checkpoint we created: "none" or "live"
  orphan,         \* a Core child of a daemon that died: "none", "starting", "running"
  file,           \* network-recovery.json as the running system sees it
  fileDisk,       \* what it may be after a power loss
  \* the daemon
  pc,
  cursor,         \* position in the loop over the route objects
  transaction,    \* service.transaction and its state; "none" is nil
  recoveryRequired,
  core,           \* the child of this daemon: "none", "prepared", "starting",
                  \* "running", "acked" (stopped and exited) or "dead"
  corePending,
  record,         \* recoveryLog.state, or the record being recovered
  dirty,          \* the participants whose PendingRollback is true
  failed,         \* rollback: a link participant failed
  \* bookkeeping
  tampered,       \* someone else replaced or removed our table
  faults

hostVars == <<nftTable, routes, foreignRoutes, resolved, nmCheckpoint>>
fileVars == <<file, fileDisk>>
coreVars == <<core, corePending, orphan>>
memVars == <<record, dirty, failed>>
serviceVars == <<transaction, recoveryRequired>>
vars == <<hostVars, fileVars, coreVars, memVars, serviceVars, pc, cursor, tampered, faults>>

\* pokrov0 exists.
TunLive == core = "running" \/ orphan = "running"

\* Session.Exited()
Exited == core \in {"acked", "dead"}

ExecuteSteps == {"begin", "ckRoutes", "ckRoutesSave", "ckNft", "ckNftSave",
  "intendNft", "applyNft", "nftSave", "startCore", "recordLink",
  "intendRoutes", "applyRoutes", "routesSave", "ckNM", "ckNMSave",
  "ckResolved", "ckResolvedSave", "intendResolved", "applyResolved",
  "resolvedSave", "intendNM", "applyNM", "nmSave"}
RollbackSteps == {"rbResolved", "rbResolvedSave", "rbNM", "rbNMSave", "rbJoin",
  "rbRoutes", "rbRoutesSave", "rbCore", "rbNft", "rbNftDelete", "rbNftSave", "rbRemove"}
RecoverySteps == {"recLoad", "recInspect", "recResolved", "recNM", "recNMSave",
  "recRoutes", "recRoutesSave", "recNft", "recNftDelete", "recNftSave", "recRemove"}

TypeOK ==
  /\ nftTable \in {"none", "own", "foreign", "merged", "orphan"}
  /\ routes \subseteq RouteObjects
  /\ foreignRoutes \in BOOLEAN
  /\ resolved \in {"default", "owned"}
  /\ nmCheckpoint \in {"none", "live"}
  /\ orphan \in {"none", "starting", "running"}
  /\ file \in Files
  /\ fileDisk \subseteq Files
  /\ pc \in {"idle"} \cup ExecuteSteps \cup RollbackSteps \cup RecoverySteps
  /\ cursor \in 1..5
  /\ transaction \in {"none", "fresh", "active", "recoveryRequired"}
  /\ recoveryRequired \in BOOLEAN
  /\ core \in {"none", "prepared", "starting", "running", "acked", "dead"}
  /\ corePending \in BOOLEAN
  /\ record \subseteq Subsystems
  /\ dirty \subseteq Subsystems
  /\ failed \in BOOLEAN
  /\ tampered \in BOOLEAN
  /\ faults \in 0..MaxFaults

\* A first start on a host we never touched; main calls Recover before it serves.
Init ==
  /\ nftTable \in {"none", "foreign"} /\ routes = {} /\ foreignRoutes = FALSE
  /\ resolved = "default" /\ nmCheckpoint = "none" /\ orphan = "none"
  /\ file = NoFile /\ fileDisk = {NoFile}
  /\ pc = "recLoad" /\ cursor = 1
  /\ transaction = "none" /\ recoveryRequired = FALSE
  /\ core = "none" /\ corePending = FALSE
  /\ record = {} /\ dirty = {} /\ failed = FALSE
  /\ tampered = FALSE /\ faults = 0

\* One fault of kind k happens in this step.
Fault(k) ==
  /\ k \in FaultKinds
  /\ faults < MaxFaults
  /\ faults' = faults + 1

NoFault == UNCHANGED faults

\* Every step but those of the two loops over the route objects.
Goto(step) == pc' = step /\ cursor' = 1

\* The TUN disappears with its owner, and with it its DNS and its routes.
LinkGone ==
  /\ resolved' = "default"
  /\ routes' = routes \ TunnelRoutes

(***************************************************************************)
(* recoveryFile: Save replaces the file and syncs the directory; Remove    *)
(* unlinks it and syncs.  Either may fail before or after its effect, and  *)
(* in the second case the effect may not survive a power loss.             *)
(***************************************************************************)

FileIs(f) == file' = f /\ fileDisk' = {f}

FileFails(f) ==
  /\ Fault("disk")
  /\ \/ UNCHANGED fileVars
     \/ file' = f /\ fileDisk' = fileDisk \cup {f}

\* The record of a transaction of this boot.
ThisBoot(pending) == [boot |-> "this", pending |-> pending]

(***************************************************************************)
(* connect: NewSystemTransaction refuses an existing record, Prepare an    *)
(* existing pokrov0.  A new transaction has a new nft owner token.         *)
(***************************************************************************)

Connect ==
  /\ pc = "idle" /\ transaction = "none" /\ ~recoveryRequired
  /\ file.boot = "none"
  /\ ~TunLive
  /\ nftTable' = IF nftTable = "own" THEN "orphan" ELSE nftTable
  /\ transaction' = "fresh"
  /\ core' = "prepared" /\ corePending' = TRUE
  /\ record' = {} /\ dirty' = {} /\ failed' = FALSE
  /\ tampered' = FALSE
  /\ Goto("begin")
  /\ NoFault
  /\ UNCHANGED <<routes, foreignRoutes, resolved, nmCheckpoint, orphan, fileVars,
                 recoveryRequired>>

(***************************************************************************)
(* Execute.                                                                *)
(***************************************************************************)

\* fail: the rollback has its own deadline, detached from the request.
Abort == Goto("rbResolved") /\ failed' = FALSE

\* Execute writes the record and goes on to the next step.  The in-memory
\* record keeps the new bits when the write fails.
SaveStep(step, pending, next) ==
  /\ pc = step
  /\ record' = pending
  /\ \/ FileIs(ThisBoot(pending)) /\ Goto(next) /\ NoFault /\ UNCHANGED failed
     \/ FileFails(ThisBoot(pending)) /\ Abort
  /\ UNCHANGED <<hostVars, coreVars, serviceVars, dirty, tampered>>

\* beginRecovery, and saveRecovery after each checkpoint and each apply.
SaveRecovery ==
  \/ SaveStep("begin", record, "ckRoutes")
  \/ SaveStep("ckRoutesSave", dirty, "ckNft")
  \/ SaveStep("ckNftSave", dirty, "intendNft")
  \/ SaveStep("nftSave", dirty, "startCore")
  \/ SaveStep("routesSave", dirty, "ckNM")
  \/ SaveStep("ckNMSave", dirty, "ckResolved")
  \/ SaveStep("ckResolvedSave", dirty, "intendResolved")
  \/ SaveStep("resolvedSave", dirty, "intendNM")

\* Faulty: the intent is recorded only after the routes were added.
BeforeApplyUnrecorded ==
  \/ SaveStep("intendNft", record \cup {"nft"}, "applyNft")
  \/ SaveStep("intendRoutes", record, "applyRoutes")
  \/ SaveStep("intendResolved", record \cup {"resolved"}, "applyResolved")
  \/ SaveStep("intendNM", record, "applyNM")

\* Faulty: each intent replaces the ones before it.
BeforeApplyFromScratch ==
  \/ SaveStep("intendNft", {"nft"}, "applyNft")
  \/ SaveStep("intendRoutes", {"routes"}, "applyRoutes")
  \/ SaveStep("intendResolved", {"resolved"}, "applyResolved")
  \/ SaveStep("intendNM", record, "applyNM")

\* beforeApply: the intent is durable before the host is touched.
BeforeApply ==
  \/ SaveStep("intendNft", record \cup {"nft"}, "applyNft")
  \/ SaveStep("intendRoutes", record \cup {"routes"}, "applyRoutes")
  \/ SaveStep("intendResolved", record \cup {"resolved"}, "applyResolved")
  \/ SaveStep("intendNM", record, "applyNM")

\* recordStartedLink needs the interface index of pokrov0.
RecordStartedLink ==
  \/ TunLive /\ SaveStep("recordLink", record, "intendRoutes")
  \/ /\ pc = "recordLink"
     /\ \/ ~TunLive /\ NoFault
        \/ Fault("command")
     /\ Abort
     /\ UNCHANGED <<hostVars, fileVars, coreVars, serviceVars, record, dirty, tampered>>

\* The checkpoints that only look: routes, nftables and resolved.
InspectStep(step, ok, next) ==
  /\ pc = step
  /\ \/ ok /\ Goto(next) /\ NoFault /\ UNCHANGED failed
     \/ ~ok /\ Abort /\ NoFault
     \/ Fault("command") /\ Abort
  /\ UNCHANGED <<hostVars, fileVars, coreVars, serviceVars, record, dirty, tampered>>

Checkpoint ==
  \/ InspectStep("ckRoutes", routes = {} /\ ~foreignRoutes, "ckRoutesSave")
  \/ InspectStep("ckNft", nftTable = "none", "ckNftSave")
  \/ InspectStep("ckResolved", TunLive, "ckResolvedSave")

\* CheckpointCreate for the device of pokrov0; a lost reply leaves a
\* checkpoint whose path the daemon never learns.
CheckpointNM ==
  /\ pc = "ckNM"
  /\ \/ /\ TunLive
        /\ nmCheckpoint' = "live" /\ dirty' = dirty \cup {"nm"}
        /\ Goto("ckNMSave") /\ NoFault /\ UNCHANGED failed
     \/ /\ TunLive /\ Fault("lost")
        /\ nmCheckpoint' = "live" /\ UNCHANGED dirty /\ Abort
     \/ /\ \/ ~TunLive /\ NoFault
           \/ Fault("command")
        /\ Abort /\ UNCHANGED <<nmCheckpoint, dirty>>
  /\ UNCHANGED <<nftTable, routes, foreignRoutes, resolved, fileVars, coreVars,
                 serviceVars, record, tampered>>

\* nft -f on top of a foreign table of that name adds to it.
Installed == IF nftTable = "foreign" THEN "merged" ELSE "own"

\* nft --check, then dirty, then nft --file.
ApplyNft ==
  /\ pc = "applyNft"
  /\ \/ /\ nftTable' = Installed /\ dirty' = dirty \cup {"nft"}
        /\ Goto("nftSave") /\ NoFault /\ UNCHANGED failed
     \/ /\ Fault("command") /\ Abort /\ UNCHANGED nftTable
        /\ dirty' \in {dirty, dirty \cup {"nft"}}
     \/ /\ Fault("lost") /\ Abort
        /\ nftTable' = Installed /\ dirty' = dirty \cup {"nft"}
  /\ UNCHANGED <<routes, foreignRoutes, resolved, nmCheckpoint, fileVars, coreVars,
                 serviceVars, record, tampered>>

\* Session.Start: a failed start may leave the child prepared, still starting
\* or up.  The name pokrov0 has one owner.
StartCore ==
  /\ pc = "startCore"
  /\ \/ /\ core = "prepared" /\ ~TunLive
        /\ core' = "running" /\ Goto("recordLink") /\ NoFault /\ UNCHANGED failed
     \/ /\ core = "prepared" /\ TunLive
        /\ Abort /\ NoFault /\ core' \in {"prepared", "starting"}
     \/ /\ core = "prepared" /\ ~TunLive /\ Fault("command") /\ Abort
        /\ core' \in {"prepared", "starting", "running"}
     \/ core # "prepared" /\ Abort /\ NoFault /\ UNCHANGED core
  /\ UNCHANGED <<hostVars, fileVars, corePending, orphan, serviceVars, record, dirty, tampered>>

\* ip route add and ip rule add, one object at a time.  A route through
\* pokrov0 needs the device.
ApplyRoutes ==
  /\ pc = "applyRoutes"
  /\ dirty' = dirty \cup {"routes"}
  /\ \/ /\ cursor <= 4
        /\ ApplyOrder[cursor] \in TunnelRoutes => TunLive
        /\ routes' = routes \cup {ApplyOrder[cursor]}
        /\ \/ UNCHANGED <<pc, failed>> /\ cursor' = cursor + 1 /\ NoFault
           \/ Fault("lost") /\ Abort
     \/ /\ cursor <= 4
        /\ \/ ApplyOrder[cursor] \in TunnelRoutes /\ ~TunLive /\ NoFault
           \/ Fault("command")
        /\ Abort /\ UNCHANGED routes
     \/ cursor = 5 /\ Goto("routesSave") /\ NoFault /\ UNCHANGED <<routes, failed>>
  /\ UNCHANGED <<nftTable, foreignRoutes, resolved, nmCheckpoint, fileVars, coreVars,
                 serviceVars, record, tampered>>

\* Three resolvectl commands on the link; a failure may leave some of them.
ApplyResolved ==
  /\ pc = "applyResolved"
  /\ dirty' = dirty \cup {"resolved"}
  /\ \/ /\ TunLive /\ resolved' = "owned"
        /\ Goto("resolvedSave") /\ NoFault /\ UNCHANGED failed
     \/ /\ TunLive /\ Fault("command") /\ Abort
        /\ resolved' \in {"default", "owned"}
     \/ ~TunLive /\ Abort /\ NoFault /\ UNCHANGED resolved
  /\ UNCHANGED <<nftTable, routes, foreignRoutes, nmCheckpoint, fileVars, coreVars,
                 serviceVars, record, tampered>>

\* CheckpointDestroy commits; there must still be a checkpoint.
ApplyNM ==
  /\ pc = "applyNM"
  /\ \/ /\ nmCheckpoint = "live" /\ nmCheckpoint' = "none"
        /\ dirty' = dirty \ {"nm"} /\ Goto("nmSave") /\ NoFault /\ UNCHANGED failed
     \/ /\ nmCheckpoint = "live" /\ Fault("lost") /\ nmCheckpoint' = "none"
        /\ Abort /\ UNCHANGED dirty
     \/ /\ \/ nmCheckpoint = "none" /\ NoFault
           \/ Fault("command")
        /\ Abort /\ UNCHANGED <<nmCheckpoint, dirty>>
  /\ UNCHANGED <<nftTable, routes, foreignRoutes, resolved, fileVars, coreVars,
                 serviceVars, record, tampered>>

\* The last saveRecovery of Execute; the transaction is then active.
Activate ==
  /\ pc = "nmSave"
  /\ record' = dirty
  /\ \/ /\ FileIs(ThisBoot(dirty)) /\ transaction' = "active" /\ Goto("idle")
        /\ NoFault /\ UNCHANGED failed
     \/ FileFails(ThisBoot(dirty)) /\ Abort /\ UNCHANGED transaction
  /\ UNCHANGED <<hostVars, coreVars, recoveryRequired, dirty, tampered>>

(***************************************************************************)
(* stop: Restore for a transaction, RecoverSystem for a pending recovery.  *)
(* disconnect, cancel_connect, the watchers, a status request that finds   *)
(* the child gone, and Close all end here; connect retries a pending       *)
(* recovery first.                                                         *)
(***************************************************************************)

Stop ==
  /\ pc = "idle"
  /\ \/ transaction \in {"active", "recoveryRequired"} /\ Goto("rbResolved")
     \/ transaction = "none" /\ recoveryRequired /\ Goto("recLoad")
  /\ failed' = FALSE
  /\ NoFault
  /\ UNCHANGED <<hostVars, fileVars, coreVars, serviceVars, record, dirty, tampered>>

\* How a step of rollback or of recoverRecord fails.  rollback leaves the
\* transaction in recovery-required; when stop called it and the child is
\* gone, recoverPending is tried at once.  A failed recoverPending sets
\* recoveryRequired.  child is Core after the step.
FailsWith(child) ==
  /\ cursor' = 1
  /\ \/ /\ pc \in RecoverySteps
        /\ pc' = "idle" /\ recoveryRequired' = TRUE /\ UNCHANGED transaction
     \/ /\ pc \in RollbackSteps
        /\ pc' = IF transaction # "fresh" /\ child \in {"acked", "dead"}
                   THEN "recLoad" ELSE "idle"
        /\ transaction' = "recoveryRequired" /\ UNCHANGED recoveryRequired

Fails == FailsWith(core)

Continues(step) == Goto(step) /\ NoFault /\ UNCHANGED serviceVars

(***************************************************************************)
(* rollback: the two owners of the link first, both of them attempted.     *)
(***************************************************************************)

\* resolvectl revert needs the link.
RollbackResolved ==
  /\ pc = "rbResolved"
  /\ \/ "resolved" \notin dirty /\ Continues("rbNM") /\ UNCHANGED <<resolved, dirty, failed>>
     \/ /\ "resolved" \in dirty /\ TunLive
        /\ resolved' = "default" /\ dirty' = dirty \ {"resolved"}
        /\ Continues("rbResolvedSave") /\ UNCHANGED failed
     \/ /\ "resolved" \in dirty
        /\ \/ ~TunLive /\ NoFault /\ UNCHANGED resolved
           \/ Fault("command") /\ UNCHANGED resolved
           \/ TunLive /\ Fault("lost") /\ resolved' = "default"
        /\ failed' = TRUE /\ Goto("rbNM") /\ UNCHANGED <<dirty, serviceVars>>
  /\ UNCHANGED <<nftTable, routes, foreignRoutes, nmCheckpoint, fileVars, coreVars,
                 record, tampered>>

\* CheckpointRollback consumes the checkpoint; it is an error when there is
\* none, and its result is rejected when the device is gone.
RollbackNM ==
  /\ pc = "rbNM"
  /\ \/ "nm" \notin dirty /\ Continues("rbJoin") /\ UNCHANGED <<nmCheckpoint, dirty, failed>>
     \/ /\ "nm" \in dirty /\ nmCheckpoint = "live" /\ core = "running"
        /\ nmCheckpoint' = "none" /\ dirty' = dirty \ {"nm"}
        /\ Continues("rbNMSave") /\ UNCHANGED failed
     \/ /\ "nm" \in dirty
        /\ \/ (nmCheckpoint = "none" \/ core # "running") /\ nmCheckpoint' = "none" /\ NoFault
           \/ Fault("command") /\ UNCHANGED nmCheckpoint
           \/ Fault("lost") /\ nmCheckpoint' = "none"
        /\ failed' = TRUE /\ Goto("rbJoin") /\ UNCHANGED <<dirty, serviceVars>>
  /\ UNCHANGED <<nftTable, routes, foreignRoutes, resolved, fileVars, coreVars,
                 record, tampered>>

\* saveRecovery after a link owner was restored.
RollbackLinkSave(step, next) ==
  /\ pc = step
  /\ record' = dirty
  /\ \/ FileIs(ThisBoot(dirty)) /\ NoFault /\ UNCHANGED failed
     \/ FileFails(ThisBoot(dirty)) /\ failed' = TRUE
  /\ Goto(next)
  /\ UNCHANGED <<hostVars, coreVars, serviceVars, dirty, tampered>>

\* Keep the traffic block and Core if a link owner needs a retry.
RollbackJoin ==
  /\ pc = "rbJoin"
  /\ \/ failed /\ Fails /\ NoFault
     \/ ~failed /\ Continues("rbRoutes")
  /\ UNCHANGED <<hostVars, fileVars, coreVars, memVars, tampered>>

(***************************************************************************)
(* The participants' Rollback as rollback and recoverRecord use it.  The   *)
(* first acts for a dirty participant, the second for a recorded one.      *)
(***************************************************************************)

\* PendingRollback, or the bit of the record.
Pending(sub) ==
  IF pc \in RecoverySteps THEN sub \in record ELSE sub \in dirty

\* The participant is clean: rollback clears its dirty flag now, recoverRecord
\* the bit when it saves.
Cleaned(sub) == dirty' = IF pc \in RollbackSteps THEN dirty \ {sub} ELSE dirty

\* routeParticipant.Rollback: list, match and delete one object after another;
\* an object that is not exactly ours stops it.
RemoveRoutes(step, save, skip) ==
  /\ pc = step
  /\ \/ /\ ~Pending("routes")
        /\ Continues(skip) /\ UNCHANGED <<routes, dirty>>
     \/ /\ Pending("routes") /\ cursor <= 4 /\ ~foreignRoutes
        /\ routes' = routes \ {RemoveOrder[cursor]}
        /\ cursor' = cursor + 1
        /\ NoFault /\ UNCHANGED <<pc, serviceVars, dirty>>
     \/ /\ Pending("routes") /\ cursor = 5
        /\ Cleaned("routes") /\ Continues(save) /\ UNCHANGED routes
     \/ /\ Pending("routes") /\ cursor <= 4
        /\ \/ foreignRoutes /\ NoFault /\ UNCHANGED routes
           \/ Fault("command") /\ UNCHANGED routes
           \/ ~foreignRoutes /\ Fault("lost") /\ routes' = routes \ {RemoveOrder[cursor]}
        /\ Fails /\ UNCHANGED dirty
  /\ UNCHANGED <<nftTable, foreignRoutes, resolved, nmCheckpoint, fileVars, coreVars,
                 record, failed, tampered>>

\* nftablesParticipant.Rollback up to the delete: tablePresent, verifyOwner.
VerifyTable(step, delete, save, skip) ==
  /\ pc = step
  /\ \/ ~Pending("nft") /\ Continues(skip) /\ UNCHANGED dirty
     \/ Pending("nft") /\ nftTable = "none" /\ Cleaned("nft") /\ Continues(save)
     \/ Pending("nft") /\ nftTable = "own" /\ Continues(delete) /\ UNCHANGED dirty
     \/ /\ Pending("nft")
        /\ \/ nftTable \notin {"none", "own"} /\ NoFault
           \/ Fault("command")
        /\ Fails /\ UNCHANGED dirty
  /\ UNCHANGED <<hostVars, fileVars, coreVars, record, failed, tampered>>

\* delete table inet pokrov names the table, not its owner.
DeleteTable(step, save) ==
  /\ pc = step
  /\ \/ nftTable # "none" /\ nftTable' = "none" /\ Cleaned("nft") /\ Continues(save)
     \/ /\ \/ nftTable = "none" /\ NoFault /\ UNCHANGED nftTable
           \/ Fault("command") /\ UNCHANGED nftTable
           \/ nftTable # "none" /\ Fault("lost") /\ nftTable' = "none"
        /\ Fails /\ UNCHANGED dirty
  /\ UNCHANGED <<routes, foreignRoutes, resolved, nmCheckpoint, fileVars, coreVars,
                 record, failed, tampered>>

\* saveRecovery after routes or nftables were restored.
RollbackSave(step, next) ==
  /\ pc = step
  /\ record' = dirty
  /\ \/ FileIs(ThisBoot(dirty)) /\ Continues(next)
     \/ FileFails(ThisBoot(dirty)) /\ Fails
  /\ UNCHANGED <<hostVars, coreVars, dirty, failed, tampered>>

\* Faulty: goes on to the nft table although Core did not acknowledge.
StopCoreBestEffort ==
  /\ pc = "rbCore"
  /\ \/ /\ core' = "acked" /\ NoFault
        /\ IF core = "running" THEN LinkGone ELSE UNCHANGED <<routes, resolved>>
     \/ Fault("command") /\ UNCHANGED <<core, routes, resolved>>
  /\ corePending' = FALSE
  /\ Goto("rbNft")
  /\ UNCHANGED <<nftTable, foreignRoutes, nmCheckpoint, fileVars, orphan, serviceVars,
                 memVars, tampered>>

\* Session.Stop: SIGTERM, then wait for the child's acknowledgement and its
\* exit.  A child that died without it is never acknowledged.
StopCore ==
  /\ pc = "rbCore"
  /\ \/ ~corePending /\ Continues("rbNft") /\ UNCHANGED <<core, corePending, routes, resolved>>
     \/ /\ corePending /\ core \in {"prepared", "starting", "running", "acked"}
        /\ core' = "acked" /\ corePending' = FALSE
        /\ IF core = "running" THEN LinkGone ELSE UNCHANGED <<routes, resolved>>
        /\ Continues("rbNft")
     \/ /\ corePending /\ core = "dead" /\ NoFault
        /\ Fails /\ UNCHANGED <<core, corePending, routes, resolved>>
     \/ /\ corePending /\ core # "dead" /\ Fault("command")
        /\ \/ Fails /\ UNCHANGED <<core, routes, resolved>>
           \/ /\ core' \in {"acked", "dead"} /\ FailsWith(core')
              /\ IF core = "running" THEN LinkGone ELSE UNCHANGED <<routes, resolved>>
        /\ UNCHANGED corePending
  /\ UNCHANGED <<nftTable, foreignRoutes, nmCheckpoint, fileVars, orphan, memVars, tampered>>

\* rollback succeeded: stop, or the failed connect, drops the transaction.
RollbackDone ==
  /\ pc = "rbRemove"
  /\ \/ /\ FileIs(NoFile) /\ transaction' = "none" /\ core' = "none"
        /\ Goto("idle") /\ NoFault /\ UNCHANGED recoveryRequired
     \/ FileFails(NoFile) /\ UNCHANGED core /\ Fails
  /\ UNCHANGED <<hostVars, corePending, orphan, memVars, tampered>>

Rollback ==
  \/ RollbackResolved \/ RollbackLinkSave("rbResolvedSave", "rbNM")
  \/ RollbackNM \/ RollbackLinkSave("rbNMSave", "rbJoin")
  \/ RollbackJoin
  \/ RemoveRoutes("rbRoutes", "rbRoutesSave", "rbCore") \/ RollbackSave("rbRoutesSave", "rbCore")
  \/ StopCore
  \/ VerifyTable("rbNft", "rbNftDelete", "rbNftSave", "rbRemove")
  \/ DeleteTable("rbNftDelete", "rbNftSave") \/ RollbackSave("rbNftSave", "rbRemove")
  \/ RollbackDone

(***************************************************************************)
(* RecoverSystem, at start or after the child has exited.                  *)
(***************************************************************************)

\* Load and the look for a live pokrov0.  Without a record there is nothing
\* to do, and a transaction the caller may have is left as it is.
RecoverLoad ==
  /\ pc = "recLoad"
  /\ \/ /\ \/ TunLive /\ NoFault
           \/ Fault("command")
           \/ Fault("disk")
        /\ Fails /\ UNCHANGED record
     \/ /\ ~TunLive /\ file.boot = "none"
        /\ recoveryRequired' = FALSE
        /\ Goto("idle") /\ NoFault /\ UNCHANGED <<transaction, record>>
     \/ /\ ~TunLive /\ file.boot # "none"
        /\ record' = file.pending
        /\ Continues("recInspect")
  /\ UNCHANGED <<hostVars, fileVars, coreVars, dirty, failed, tampered>>

\* Faulty: retires a record of any boot when no table is there.
RecoverInspectAnyBoot ==
  /\ pc = "recInspect"
  /\ \/ /\ nftTable \notin {"none", "own"} /\ "nft" \in record /\ NoFault
        /\ Fails
     \/ /\ nftTable \in {"none", "own"} \/ "nft" \notin record
        /\ Continues(IF nftTable = "none" THEN "recRemove" ELSE "recResolved")
  /\ UNCHANGED <<hostVars, fileVars, coreVars, memVars, tampered>>

\* recoverRecord: an owned table must still be ours; a record of an earlier
\* boot is retired when no table is there.
RecoverInspect ==
  /\ pc = "recInspect"
  /\ \/ /\ \/ nftTable \notin {"none", "own"} /\ "nft" \in record /\ NoFault
           \/ Fault("command")
        /\ Fails
     \/ /\ nftTable \in {"none", "own"} \/ "nft" \notin record
        /\ Continues(IF file.boot = "previous" /\ nftTable = "none"
                       THEN "recRemove" ELSE "recResolved")
  /\ UNCHANGED <<hostVars, fileVars, coreVars, memVars, tampered>>

\* recoverRecord clears the bit of sub in its copy and saves it.
RecoverSave(step, sub, next) ==
  /\ pc = step
  /\ record' = record \ {sub}
  /\ \/ FileIs([boot |-> file.boot, pending |-> record']) /\ Continues(next)
     \/ FileFails([boot |-> file.boot, pending |-> record']) /\ Fails
  /\ UNCHANGED <<hostVars, coreVars, dirty, failed, tampered>>

\* The TUN is gone, so resolved has already dropped the link.
RecoverResolved ==
  \/ "resolved" \in record /\ RecoverSave("recResolved", "resolved", "recNM")
  \/ /\ pc = "recResolved" /\ "resolved" \notin record /\ Continues("recNM")
     /\ UNCHANGED <<hostVars, fileVars, coreVars, memVars, tampered>>

\* Faulty: a checkpoint that is not listed any more is an error.
RecoverNMStrict ==
  /\ pc = "recNM"
  /\ \/ "nm" \notin record /\ Continues("recRoutes") /\ UNCHANGED nmCheckpoint
     \/ /\ "nm" \in record /\ file.boot = "this" /\ nmCheckpoint = "live"
        /\ nmCheckpoint' = "none" /\ Continues("recNMSave")
     \/ /\ "nm" \in record /\ ~(file.boot = "this" /\ nmCheckpoint = "live")
        /\ Fails /\ NoFault /\ UNCHANGED nmCheckpoint
  /\ UNCHANGED <<nftTable, routes, foreignRoutes, resolved, fileVars, coreVars,
                 memVars, tampered>>

\* destroyOwnedCheckpoint, of this boot only: one that is not listed any more
\* needs nothing.
RecoverNM ==
  /\ pc = "recNM"
  /\ \/ "nm" \notin record /\ Continues("recRoutes") /\ UNCHANGED nmCheckpoint
     \/ /\ "nm" \in record /\ Continues("recNMSave")
        /\ nmCheckpoint' = IF file.boot = "this" THEN "none" ELSE nmCheckpoint
     \/ /\ "nm" \in record /\ file.boot = "this" /\ Fails
        /\ \/ Fault("command") /\ UNCHANGED nmCheckpoint
           \/ Fault("lost") /\ nmCheckpoint' = "none"
  /\ UNCHANGED <<nftTable, routes, foreignRoutes, resolved, fileVars, coreVars,
                 memVars, tampered>>

\* recoverPending after a found record: whatever the service held is settled.
RecoverDone ==
  /\ pc = "recRemove"
  /\ \/ /\ FileIs(NoFile) /\ transaction' = "none" /\ recoveryRequired' = FALSE
        /\ core' = "none" /\ Goto("idle") /\ NoFault
     \/ FileFails(NoFile) /\ UNCHANGED core /\ Fails
  /\ UNCHANGED <<hostVars, corePending, orphan, memVars, tampered>>

Recovery ==
  \/ RecoverLoad \/ RecoverInspect
  \/ RecoverResolved
  \/ RecoverNM \/ RecoverSave("recNMSave", "nm", "recRoutes")
  \/ RemoveRoutes("recRoutes", "recRoutesSave", "recNft")
  \/ RecoverSave("recRoutesSave", "routes", "recNft")
  \/ VerifyTable("recNft", "recNftDelete", "recNftSave", "recRemove")
  \/ DeleteTable("recNftDelete", "recNftSave")
  \/ RecoverSave("recNftSave", "nft", "recRemove")
  \/ RecoverDone

(***************************************************************************)
(* What happens beside the daemon.                                         *)
(***************************************************************************)

HostStep == UNCHANGED <<fileVars, serviceVars, memVars, corePending, pc, cursor>>

\* The child exits without an acknowledgement.
CoreDies ==
  /\ core \in {"prepared", "starting", "running"} /\ Fault("core")
  /\ core' = "dead"
  /\ IF core = "running" THEN LinkGone ELSE UNCHANGED <<routes, resolved>>
  /\ UNCHANGED <<nftTable, foreignRoutes, nmCheckpoint, orphan, tampered>>
  /\ HostStep

\* A start that was reported as failed may still succeed.
CoreComesUp ==
  /\ core = "starting" /\ ~TunLive /\ core' = "running" /\ NoFault
  /\ UNCHANGED <<hostVars, orphan, tampered>>
  /\ HostStep

\* Pdeathsig: the child of a dead daemon gets SIGTERM and goes away in time.
OrphanExits ==
  /\ orphan # "none" /\ orphan' = "none" /\ NoFault
  /\ IF orphan = "running" THEN LinkGone ELSE UNCHANGED <<routes, resolved>>
  /\ UNCHANGED <<nftTable, foreignRoutes, nmCheckpoint, core, tampered>>
  /\ HostStep

OrphanComesUp ==
  /\ orphan = "starting" /\ ~TunLive /\ orphan' = "running" /\ NoFault
  /\ UNCHANGED <<hostVars, core, tampered>>
  /\ HostStep

\* NetworkManager restarts, or rolls the checkpoint back after its 90 seconds.
CheckpointExpires ==
  /\ nmCheckpoint = "live" /\ Fault("expire")
  /\ nmCheckpoint' = "none"
  /\ UNCHANGED <<nftTable, routes, foreignRoutes, resolved, core, orphan, tampered>>
  /\ HostStep

\* Another administrator creates, replaces or removes table inet pokrov.
ForeignTable ==
  /\ Fault("foreign")
  /\ nftTable' \in {"none", "foreign"} \ {nftTable}
  /\ tampered' = (tampered \/ nftTable \in {"own", "merged"})
  /\ UNCHANGED <<routes, foreignRoutes, resolved, nmCheckpoint, core, orphan>>
  /\ HostStep

\* Another program uses route table 20555 with our protocol number.
ForeignRoute ==
  /\ Fault("foreign")
  /\ foreignRoutes' = ~foreignRoutes
  /\ UNCHANGED <<nftTable, routes, resolved, nmCheckpoint, core, orphan, tampered>>
  /\ HostStep

\* The daemon's memory is gone; systemd starts it again and main calls Recover.
DaemonRestarts ==
  /\ pc' = "recLoad" /\ cursor' = 1
  /\ transaction' = "none" /\ recoveryRequired' = FALSE
  /\ core' = "none" /\ corePending' = FALSE
  /\ record' = {} /\ dirty' = {} /\ failed' = FALSE

Crash ==
  /\ Fault("crash")
  /\ DaemonRestarts
  /\ orphan' = IF core = "running" \/ (core = "starting" /\ orphan = "none")
                 THEN core ELSE orphan
  /\ UNCHANGED <<hostVars, fileVars, tampered>>

\* A power loss or a reboot: kernel and link state is gone, the file is what
\* reached the disk, and the record is now of an earlier boot.
Reboot ==
  /\ Fault("reboot")
  /\ DaemonRestarts
  /\ nftTable' \in {"none"} \cup ({"foreign"} \cap FaultKinds)
  /\ routes' = {} /\ foreignRoutes' = FALSE
  /\ resolved' = "default" /\ nmCheckpoint' = "none" /\ orphan' = "none"
  /\ \E f \in fileDisk :
       FileIs(IF f.boot = "none" THEN f ELSE [boot |-> "previous", pending |-> f.pending])
  /\ tampered' = FALSE

Execute ==
  \/ SaveRecovery \/ BeforeApply \/ RecordStartedLink
  \/ Checkpoint \/ CheckpointNM
  \/ ApplyNft \/ StartCore \/ ApplyRoutes \/ ApplyResolved \/ ApplyNM
  \/ Activate

Daemon == Execute \/ Rollback \/ Recovery

Environment ==
  \/ CoreDies \/ CoreComesUp \/ OrphanExits \/ OrphanComesUp
  \/ CheckpointExpires \/ ForeignTable \/ ForeignRoute
  \/ Crash \/ Reboot

Next == Connect \/ Stop \/ Daemon \/ Environment

Spec == Init /\ [][Next]_vars

\* watchCore stops a transaction whose child has exited; a transaction or a
\* record that needs recovery is retried by someone: a disconnect, a status
\* request, the next connect or a restart of the service.
Retry == Stop /\ (transaction # "active" \/ Exited)

\* An operation runs to its end (every wait in it has a deadline), what failed
\* is retried, and Pdeathsig ends an orphan.
Fairness ==
  /\ WF_vars(Daemon)
  /\ WF_vars(Retry)
  /\ WF_vars(OrphanExits)

FairSpec == Spec /\ Fairness

(***************************************************************************)
(* Properties.                                                             *)
(***************************************************************************)

\* Write-ahead: whatever of ours is on the host, network-recovery.json says so,
\* and so does what is left of it after a power loss of which the kernel state
\* could survive (Execute, saveRecovery, recoverRecord).
OwnedStateIsRecorded ==
  /\ nftTable \in {"own", "merged"} => "nft" \in file.pending
  /\ routes # {} => "routes" \in file.pending
  /\ resolved = "owned" => "resolved" \in file.pending

\* The traffic block brackets everything that steers traffic: Core's link, the
\* policy routes and the link DNS exist only while the table is installed,
\* unless someone else removed it (transaction.go: "Block uplink traffic before
\* Core creates routes", "Keep the traffic block and Core available").
BlockBracketsSteering ==
  routes # {} \/ resolved = "owned" \/ core \in {"starting", "running"}
    => nftTable \in {"own", "merged"} \/ tampered

\* A service that reports neither a transaction nor a pending recovery has left
\* nothing on the host: no table, route, DNS or record, and Core is not running.
CleanWhenIdle ==
  pc = "idle" /\ transaction = "none" /\ ~recoveryRequired =>
    /\ nftTable \notin {"own", "merged", "orphan"}
    /\ routes = {} /\ resolved = "default"
    /\ file = NoFile /\ core = "none"

\* What the file may be after a power loss never claims routes or link DNS
\* without the table: recoverRecord retires a record of an earlier boot by
\* looking at the table alone.
RecordKeepsTableLast ==
  \A f \in fileDisk : f.pending \cap {"routes", "resolved"} # {} => "nft" \in f.pending

\* An active connection is completely installed and completely recorded, unless
\* someone else or the death of Core took something away.
ActiveIsComplete ==
  transaction = "active" /\ pc = "idle" =>
    /\ dirty = {"nft", "routes", "resolved"}
    /\ file = ThisBoot(dirty)
    /\ core = "running" => routes = RouteObjects /\ resolved = "owned"

\* The record on disk is neither ahead of nor behind what it stands for: see the
\* two above.
RecordIsFaithful == RecordKeepsTableLast /\ ActiveIsComplete

\* README.md of linux_shell: "A failed owner remains pending for retry": with
\* the faults over, the retries of a failed rollback succeed.
FailedOwnerIsRetried == transaction = "recoveryRequired" ~> transaction = "none"

\* Whatever needs recovery is recovered once faults stop: the connection whose
\* Core died and the transaction whose rollback failed end in a clean host.
RecoveryCompletes ==
  (transaction = "recoveryRequired" \/ recoveryRequired \/ (transaction = "active" /\ Exited))
    ~> (pc = "idle" /\ transaction = "none" /\ ~recoveryRequired)
=============================================================================

------------------- MODULE LinuxNetworkTransaction_proofs -------------------
(***************************************************************************)
(* The write-ahead discipline of the Linux network transaction, for every  *)
(* number and kind of faults: what is installed is recorded, and traffic   *)
(* is steered only behind the block.                                       *)
(***************************************************************************)
EXTENDS LinuxNetworkTransaction, TLAPS

\* The subsystems that hold something of ours.
OwnedNft == nftTable \in {"own", "merged"}
OwnedRoutes == routes # {}
OwnedResolved == resolved = "owned"

\* A set of pending bits that names whatever is owned.
Covers(pending) ==
  /\ OwnedNft => "nft" \in pending
  /\ OwnedRoutes => "routes" \in pending
  /\ OwnedResolved => "resolved" \in pending

Blocked == nftTable \in {"own", "merged"} \/ tampered

(***************************************************************************)
(* The parts of the inductive invariant.                                   *)
(***************************************************************************)

\* The record covers the host, and so does what may replace it: the bits a
\* transaction saves from its participants, and the record Execute extends.
FileCovers == Covers(file.pending)
DirtyCovers == transaction # "none" => Covers(dirty)
RecordCovers == pc \in ExecuteSteps => Covers(record)

\* A missing record is empty; a record of an earlier boot covers nothing.
NoFileIsEmpty == \A f \in fileDisk \cup {file} : f.boot = "none" => f.pending = {}
EarlierBoot == file.boot = "previous" => ~OwnedNft /\ routes = {} /\ resolved = "default"
BootOfTransaction == transaction # "none" => file.boot # "previous"

\* Where the daemon is and what it holds.
Working == pc \in ExecuteSteps \cup RollbackSteps => transaction # "none"
Intent ==
  /\ pc = "applyNft" => "nft" \in file.pending /\ "nft" \in record
  /\ pc = "applyRoutes" => "routes" \in file.pending /\ "routes" \in record
  /\ pc = "applyResolved" => "resolved" \in file.pending /\ "resolved" \in record

\* recoverRecord works on what it loaded.
RecordLoaded == pc \in RecoverySteps \ {"recLoad"} => record = file.pending

\* resolved forgets a link that is gone.
LinkDns == resolved = "owned" => TunLive
RecoveryDns == pc \in RecoverySteps \ {"recLoad"} => resolved = "default"

\* The loop over the route objects.
RouteLoop ==
  /\ pc \in {"rbRoutes", "recRoutes"} => \A i \in 1..4 : i < cursor => RemoveOrder[i] \notin routes
  /\ pc \in {"rbRoutesSave", "rbCore", "rbNft", "rbNftDelete", "rbNftSave", "rbRemove",
             "recRoutesSave", "recNft", "recNftDelete", "recNftSave", "recRemove"} => routes = {}

\* What rollback has finished with.
RollbackOrder ==
  /\ pc \in {"rbNM", "rbNMSave", "rbJoin"} /\ ~failed => "resolved" \notin dirty
  /\ pc \in {"rbResolvedSave", "rbRoutes", "rbRoutesSave", "rbCore", "rbNft", "rbNftDelete",
             "rbNftSave", "rbRemove"} => "resolved" \notin dirty
  /\ pc \in {"rbRoutesSave", "rbCore", "rbNft", "rbNftDelete", "rbNftSave", "rbRemove"}
       => "routes" \notin dirty
  /\ pc \in {"rbNftSave", "rbRemove"} => "nft" \notin dirty

\* The table is gone, and never left to a later transaction.
TableReleased ==
  /\ nftTable # "orphan"
  /\ pc \in {"recNftSave", "recRemove"} => ~OwnedNft

\* Core while the block is being released.
CoreStopped ==
  /\ pc \in RecoverySteps => core \in {"none", "acked", "dead"}
  /\ transaction = "none" => core = "none"
  /\ transaction # "none" /\ ~corePending => core = "acked"
  /\ pc \in {"rbNft", "rbNftDelete", "rbNftSave", "rbRemove"} => core = "acked"

\* A service without a transaction or a pending recovery has no record.
Settled ==
  transaction = "none" /\ ~recoveryRequired /\ pc \notin RecoverySteps => file.boot = "none"

ExecuteBlocked ==
  pc \in {"nftSave", "startCore", "recordLink", "intendRoutes", "applyRoutes", "routesSave",
          "ckNM", "ckNMSave", "ckResolved", "ckResolvedSave", "intendResolved", "applyResolved",
          "resolvedSave", "intendNM", "applyNM", "nmSave"} => Blocked

\* TypeOK, in the groups the proof takes apart.
TypeHost ==
  /\ nftTable \in {"none", "own", "foreign", "merged", "orphan"}
  /\ routes \subseteq RouteObjects
  /\ resolved \in {"default", "owned"}
  /\ nmCheckpoint \in {"none", "live"}
  /\ orphan \in {"none", "starting", "running"}
TypeFile == file \in Files /\ fileDisk \subseteq Files
TypeControl ==
  /\ pc \in {"idle"} \cup ExecuteSteps \cup RollbackSteps \cup RecoverySteps
  /\ cursor \in 1..5
  /\ transaction \in {"none", "fresh", "active", "recoveryRequired"}
  /\ core \in {"none", "prepared", "starting", "running", "acked", "dead"}
TypeFlags ==
  /\ foreignRoutes \in BOOLEAN /\ recoveryRequired \in BOOLEAN
  /\ corePending \in BOOLEAN /\ failed \in BOOLEAN /\ tampered \in BOOLEAN
TypeMemory == record \subseteq Subsystems /\ dirty \subseteq Subsystems
TypeFaults == faults \in 0..MaxFaults

IInv ==
  /\ TypeOK
  /\ FileCovers /\ DirtyCovers /\ RecordCovers
  /\ NoFileIsEmpty /\ EarlierBoot /\ BootOfTransaction
  /\ Working /\ Intent /\ RecordLoaded
  /\ LinkDns /\ RecoveryDns
  /\ RouteLoop /\ RollbackOrder /\ TableReleased
  /\ Settled /\ CoreStopped /\ ExecuteBlocked /\ BlockBracketsSteering

-----------------------------------------------------------------------------

\* What the provers need to know of the values the record takes.
LEMMA FileFacts ==
  /\ NoFile \in Files /\ NoFile.boot = "none" /\ NoFile.pending = {}
  /\ \A p \in SUBSET Subsystems :
       /\ ThisBoot(p) \in Files /\ ThisBoot(p).boot = "this" /\ ThisBoot(p).pending = p
  /\ \A b \in {"none", "this", "previous"}, p \in SUBSET Subsystems :
       /\ [boot |-> b, pending |-> p] \in Files
       /\ [boot |-> b, pending |-> p].boot = b /\ [boot |-> b, pending |-> p].pending = p
  /\ \A f \in Files :
       /\ f.boot \in {"none", "this", "previous"} /\ f.pending \subseteq Subsystems
  BY DEF Files, NoFile, ThisBoot

\* The two loops visit the four route objects.
LEMMA OrderFacts ==
  /\ \A c \in 1..4 : ApplyOrder[c] \in RouteObjects
  /\ \A c \in 1..5 : c <= 4 => c \in 1..4
  /\ {} \subseteq RouteObjects
  BY DEF ApplyOrder, RouteObjects

\* A set of route objects that the whole loop has visited is empty.
LEMMA RemoveFacts ==
  ASSUME NEW R, R \subseteq RouteObjects, \A i \in 1..4 : RemoveOrder[i] \notin R
  PROVE  R = {}
  BY 1 \in 1..4, 2 \in 1..4, 3 \in 1..4, 4 \in 1..4 DEF RemoveOrder, RouteObjects

\* A record that is empty and of no boot is no record.
LEMMA EmptyFile == \A f \in Files : f.boot = "none" /\ f.pending = {} => f = NoFile
  BY DEF Files, NoFile

\* How a step moves on, writes the record and counts its faults.
USE DEF Goto, Continues, Fails, FailsWith, Abort, NoFault, Fault, FileIs, FileFails,
        hostVars, fileVars, coreVars, memVars, serviceVars,
        Subsystems, ExecuteSteps, RollbackSteps, RecoverySteps,
        Covers, OwnedNft, OwnedRoutes, OwnedResolved, Blocked

\* The host variables keep their types: the loops add and remove route objects.
LEMMA TypeHostPreserved == IInv /\ [Next]_vars => TypeHost'
<1> SUFFICES ASSUME IInv, [Next]_vars PROVE TypeHost'
  OBVIOUS
<1> USE OrderFacts DEF IInv, TypeControl, TypeHost, TypeOK
<1>1. CASE Connect
  BY <1>1 DEF Connect
<1>2. CASE Execute
  BY <1>2 DEF Execute, SaveRecovery, BeforeApply, RecordStartedLink, SaveStep, Checkpoint,
         InspectStep, CheckpointNM, ApplyNft, Installed, StartCore, ApplyRoutes, ApplyResolved, ApplyNM, Activate
<1>3. CASE Stop
  BY <1>3 DEF Stop
<1>4. CASE Rollback
  BY <1>4 DEF Rollback, RollbackResolved, RollbackNM, RollbackLinkSave, RollbackJoin, RemoveRoutes,
         VerifyTable, DeleteTable, RollbackSave, StopCore, RollbackDone, Pending, Cleaned, LinkGone
<1>5. CASE Recovery
  BY <1>5 DEF Recovery, RecoverLoad, RecoverInspect, RecoverSave, RecoverResolved, RecoverNM,
         RemoveRoutes, VerifyTable, DeleteTable, RecoverDone, Pending, Cleaned
<1>6. CASE Environment
  BY <1>6 DEF Environment, CoreDies, CoreComesUp, OrphanExits, OrphanComesUp, CheckpointExpires,
         ForeignTable, ForeignRoute, Crash, Reboot, DaemonRestarts, HostStep, LinkGone
<1>7. CASE UNCHANGED vars
  BY <1>7 DEF vars
<1> QED
  BY <1>1, <1>2, <1>3, <1>4, <1>5, <1>6, <1>7 DEF Next, Daemon

\* Save and Remove write records.
LEMMA TypeFilePreserved == IInv /\ [Next]_vars => TypeFile'
<1> SUFFICES ASSUME IInv, [Next]_vars PROVE TypeFile'
  OBVIOUS
<1> USE FileFacts DEF IInv, TypeFile, TypeMemory, TypeOK
<1>1. CASE Connect
  BY <1>1 DEF Connect
<1>2. CASE Execute
  BY <1>2 DEF Execute, SaveRecovery, BeforeApply, RecordStartedLink, SaveStep, Checkpoint,
         InspectStep, CheckpointNM, ApplyNft, Installed, StartCore, ApplyRoutes, ApplyResolved, ApplyNM, Activate
<1>3. CASE Stop
  BY <1>3 DEF Stop
<1>4. CASE Rollback
  BY <1>4 DEF Rollback, RollbackResolved, RollbackNM, RollbackLinkSave, RollbackJoin, RemoveRoutes,
         VerifyTable, DeleteTable, RollbackSave, StopCore, RollbackDone, Pending, Cleaned, LinkGone
<1>5. CASE Recovery
  BY <1>5 DEF Recovery, RecoverLoad, RecoverInspect, RecoverSave, RecoverResolved, RecoverNM,
         RemoveRoutes, VerifyTable, DeleteTable, RecoverDone, Pending, Cleaned
<1>6. CASE Environment
  BY <1>6 DEF Environment, CoreDies, CoreComesUp, OrphanExits, OrphanComesUp, CheckpointExpires,
         ForeignTable, ForeignRoute, Crash, Reboot, DaemonRestarts, HostStep, LinkGone
<1>7. CASE UNCHANGED vars
  BY <1>7 DEF vars
<1> QED
  BY <1>1, <1>2, <1>3, <1>4, <1>5, <1>6, <1>7 DEF Next, Daemon

\* The daemon stays in its program.
LEMMA TypeControlPreserved == IInv /\ [Next]_vars => TypeControl'
<1> SUFFICES ASSUME IInv, [Next]_vars PROVE TypeControl'
  OBVIOUS
<1> USE DEF IInv, TypeControl, TypeOK
<1>1. CASE Connect
  BY <1>1 DEF Connect
<1>2. CASE Execute
  BY <1>2 DEF Execute, SaveRecovery, BeforeApply, RecordStartedLink, SaveStep, Checkpoint,
         InspectStep, CheckpointNM, ApplyNft, Installed, StartCore, ApplyRoutes, ApplyResolved, ApplyNM, Activate
<1>3. CASE Stop
  BY <1>3 DEF Stop
<1>4. CASE Rollback
  BY <1>4 DEF Rollback, RollbackResolved, RollbackNM, RollbackLinkSave, RollbackJoin, RemoveRoutes,
         VerifyTable, DeleteTable, RollbackSave, StopCore, RollbackDone, Pending, Cleaned, LinkGone
<1>5. CASE Recovery
  BY <1>5 DEF Recovery, RecoverLoad, RecoverInspect, RecoverSave, RecoverResolved, RecoverNM,
         RemoveRoutes, VerifyTable, DeleteTable, RecoverDone, Pending, Cleaned
<1>6. CASE Environment
  BY <1>6 DEF Environment, CoreDies, CoreComesUp, OrphanExits, OrphanComesUp, CheckpointExpires,
         ForeignTable, ForeignRoute, Crash, Reboot, DaemonRestarts, HostStep, LinkGone
<1>7. CASE UNCHANGED vars
  BY <1>7 DEF vars
<1> QED
  BY <1>1, <1>2, <1>3, <1>4, <1>5, <1>6, <1>7 DEF Next, Daemon

\* The flags stay flags.
LEMMA TypeFlagsPreserved == IInv /\ [Next]_vars => TypeFlags'
<1> SUFFICES ASSUME IInv, [Next]_vars PROVE TypeFlags'
  OBVIOUS
<1> USE DEF IInv, TypeFlags, TypeOK
<1>1. CASE Connect
  BY <1>1, Zenon DEF Connect
<1>2. CASE Execute
  <2>1. CASE SaveRecovery
    BY <2>1, Zenon DEF SaveRecovery, SaveStep
  <2>2. CASE BeforeApply
    BY <2>2, Zenon DEF BeforeApply, SaveStep
  <2>3. CASE RecordStartedLink
    BY <2>3, Zenon DEF RecordStartedLink, SaveStep
  <2>4. CASE Checkpoint
    BY <2>4, Zenon DEF Checkpoint, InspectStep
  <2>5. CASE CheckpointNM
    BY <2>5, Zenon DEF CheckpointNM
  <2>6. CASE ApplyNft
    BY <2>6, Zenon DEF ApplyNft, Installed
  <2>7. CASE StartCore
    BY <2>7, Zenon DEF StartCore
  <2>8. CASE ApplyRoutes
    BY <2>8, Zenon DEF ApplyRoutes
  <2>9. CASE ApplyResolved
    BY <2>9, Zenon DEF ApplyResolved
  <2>10. CASE ApplyNM
    BY <2>10, Zenon DEF ApplyNM
  <2>11. CASE Activate
    BY <2>11, Zenon DEF Activate
  <2> QED
    BY <1>2, <2>1, <2>2, <2>3, <2>4, <2>5, <2>6, <2>7, <2>8, <2>9, <2>10, <2>11 DEF Execute
<1>3. CASE Stop
  BY <1>3, Zenon DEF Stop
<1>4. CASE Rollback
  <2>1. CASE RollbackResolved
    BY <2>1, Zenon DEF RollbackResolved
  <2>2. CASE RollbackNM
    BY <2>2, Zenon DEF RollbackNM
  <2>3. CASE RollbackLinkSave("rbResolvedSave", "rbNM") \/ RollbackLinkSave("rbNMSave", "rbJoin")
    BY <2>3, Zenon DEF RollbackLinkSave
  <2>4. CASE RollbackJoin
    BY <2>4, Zenon DEF RollbackJoin
  <2>5. CASE RemoveRoutes("rbRoutes", "rbRoutesSave", "rbCore")
    BY <2>5, Zenon DEF RemoveRoutes, Pending, Cleaned
  <2>6. CASE VerifyTable("rbNft", "rbNftDelete", "rbNftSave", "rbRemove")
    BY <2>6, Zenon DEF VerifyTable, Pending, Cleaned
  <2>7. CASE DeleteTable("rbNftDelete", "rbNftSave")
    BY <2>7, Zenon DEF DeleteTable, Cleaned
  <2>8. CASE RollbackSave("rbRoutesSave", "rbCore") \/ RollbackSave("rbNftSave", "rbRemove")
    BY <2>8, Zenon DEF RollbackSave
  <2>9. CASE StopCore
    BY <2>9, Zenon DEF StopCore, LinkGone
  <2>10. CASE RollbackDone
    BY <2>10, Zenon DEF RollbackDone
  <2> QED
    BY <1>4, <2>1, <2>2, <2>3, <2>4, <2>5, <2>6, <2>7, <2>8, <2>9, <2>10 DEF Rollback
<1>5. CASE Recovery
  <2>1. CASE RecoverLoad
    BY <2>1, Zenon DEF RecoverLoad
  <2>2. CASE RecoverInspect
    BY <2>2, Zenon DEF RecoverInspect
  <2>3. CASE RecoverResolved
    BY <2>3, Zenon DEF RecoverResolved, RecoverSave
  <2>4. CASE RecoverNM
    BY <2>4, Zenon DEF RecoverNM
  <2>5. CASE RecoverSave("recNMSave", "nm", "recRoutes")
    BY <2>5, Zenon DEF RecoverSave
  <2>6. CASE RemoveRoutes("recRoutes", "recRoutesSave", "recNft")
    BY <2>6, Zenon DEF RemoveRoutes, Pending, Cleaned
  <2>7. CASE RecoverSave("recRoutesSave", "routes", "recNft")
    BY <2>7, Zenon DEF RecoverSave
  <2>8. CASE VerifyTable("recNft", "recNftDelete", "recNftSave", "recRemove")
    BY <2>8, Zenon DEF VerifyTable, Pending, Cleaned
  <2>9. CASE DeleteTable("recNftDelete", "recNftSave")
    BY <2>9, Zenon DEF DeleteTable, Cleaned
  <2>10. CASE RecoverSave("recNftSave", "nft", "recRemove")
    BY <2>10, Zenon DEF RecoverSave
  <2>11. CASE RecoverDone
    BY <2>11, Zenon DEF RecoverDone
  <2> QED
    BY <1>5, <2>1, <2>2, <2>3, <2>4, <2>5, <2>6, <2>7, <2>8, <2>9, <2>10, <2>11 DEF Recovery
<1>6. CASE Environment
  <2>1. CASE CoreDies
    BY <2>1, Zenon DEF CoreDies, HostStep, LinkGone
  <2>2. CASE CoreComesUp
    BY <2>2, Zenon DEF CoreComesUp, HostStep
  <2>3. CASE OrphanExits
    BY <2>3, Zenon DEF OrphanExits, HostStep, LinkGone
  <2>4. CASE OrphanComesUp
    BY <2>4, Zenon DEF OrphanComesUp, HostStep
  <2>5. CASE CheckpointExpires
    BY <2>5, Zenon DEF CheckpointExpires, HostStep
  <2>6. CASE ForeignTable
    BY <2>6, Zenon DEF ForeignTable, HostStep
  <2>7. CASE ForeignRoute
    BY <2>7, Zenon DEF ForeignRoute, HostStep
  <2>8. CASE Crash
    BY <2>8, Zenon DEF Crash, DaemonRestarts
  <2>9. CASE Reboot
    BY <2>9, Zenon DEF Reboot, DaemonRestarts
  <2> QED
    BY <1>6, <2>1, <2>2, <2>3, <2>4, <2>5, <2>6, <2>7, <2>8, <2>9 DEF Environment
<1>7. CASE UNCHANGED vars
  BY <1>7 DEF vars
<1> QED
  BY <1>1, <1>2, <1>3, <1>4, <1>5, <1>6, <1>7 DEF Next, Daemon

\* Records and dirty flags name subsystems.
LEMMA TypeMemoryPreserved == IInv /\ [Next]_vars => TypeMemory'
<1> SUFFICES ASSUME IInv, [Next]_vars PROVE TypeMemory'
  OBVIOUS
<1> USE FileFacts DEF IInv, TypeFile, TypeMemory, TypeOK
<1>1. CASE Connect
  BY <1>1 DEF Connect
<1>2. CASE Execute
  <2>1. CASE SaveRecovery
    BY <2>1 DEF SaveRecovery, SaveStep
  <2>2. CASE BeforeApply
    BY <2>2 DEF BeforeApply, SaveStep
  <2>3. CASE RecordStartedLink
    BY <2>3 DEF RecordStartedLink, SaveStep
  <2>4. CASE Checkpoint
    BY <2>4 DEF Checkpoint, InspectStep
  <2>5. CASE CheckpointNM
    BY <2>5 DEF CheckpointNM
  <2>6. CASE ApplyNft
    BY <2>6 DEF ApplyNft, Installed
  <2>7. CASE StartCore
    BY <2>7 DEF StartCore
  <2>8. CASE ApplyRoutes
    BY <2>8 DEF ApplyRoutes
  <2>9. CASE ApplyResolved
    BY <2>9 DEF ApplyResolved
  <2>10. CASE ApplyNM
    BY <2>10 DEF ApplyNM
  <2>11. CASE Activate
    BY <2>11 DEF Activate
  <2> QED
    BY <1>2, <2>1, <2>2, <2>3, <2>4, <2>5, <2>6, <2>7, <2>8, <2>9, <2>10, <2>11 DEF Execute
<1>3. CASE Stop
  BY <1>3 DEF Stop
<1>4. CASE Rollback
  BY <1>4 DEF Rollback, RollbackResolved, RollbackNM, RollbackLinkSave, RollbackJoin, RemoveRoutes,
         VerifyTable, DeleteTable, RollbackSave, StopCore, RollbackDone, Pending, Cleaned, LinkGone
<1>5. CASE Recovery
  BY <1>5 DEF Recovery, RecoverLoad, RecoverInspect, RecoverSave, RecoverResolved, RecoverNM,
         RemoveRoutes, VerifyTable, DeleteTable, RecoverDone, Pending, Cleaned
<1>6. CASE Environment
  BY <1>6 DEF Environment, CoreDies, CoreComesUp, OrphanExits, OrphanComesUp, CheckpointExpires,
         ForeignTable, ForeignRoute, Crash, Reboot, DaemonRestarts, HostStep, LinkGone
<1>7. CASE UNCHANGED vars
  BY <1>7 DEF vars
<1> QED
  BY <1>1, <1>2, <1>3, <1>4, <1>5, <1>6, <1>7 DEF Next, Daemon

\* No step exceeds the bound on faults.
LEMMA TypeFaultsPreserved == IInv /\ [Next]_vars => TypeFaults'
<1> SUFFICES ASSUME IInv, [Next]_vars PROVE TypeFaults'
  OBVIOUS
<1> USE FaultAssumption DEF IInv, TypeFaults, TypeOK
<1>1. CASE Connect
  BY <1>1 DEF Connect
<1>2. CASE Execute
  BY <1>2 DEF Execute, SaveRecovery, BeforeApply, RecordStartedLink, SaveStep, Checkpoint,
         InspectStep, CheckpointNM, ApplyNft, Installed, StartCore, ApplyRoutes, ApplyResolved, ApplyNM, Activate
<1>3. CASE Stop
  BY <1>3 DEF Stop
<1>4. CASE Rollback
  BY <1>4 DEF Rollback, RollbackResolved, RollbackNM, RollbackLinkSave, RollbackJoin, RemoveRoutes,
         VerifyTable, DeleteTable, RollbackSave, StopCore, RollbackDone, Pending, Cleaned, LinkGone
<1>5. CASE Recovery
  BY <1>5 DEF Recovery, RecoverLoad, RecoverInspect, RecoverSave, RecoverResolved, RecoverNM,
         RemoveRoutes, VerifyTable, DeleteTable, RecoverDone, Pending, Cleaned
<1>6. CASE Environment
  BY <1>6 DEF Environment, CoreDies, CoreComesUp, OrphanExits, OrphanComesUp, CheckpointExpires,
         ForeignTable, ForeignRoute, Crash, Reboot, DaemonRestarts, HostStep, LinkGone
<1>7. CASE UNCHANGED vars
  BY <1>7 DEF vars
<1> QED
  BY <1>1, <1>2, <1>3, <1>4, <1>5, <1>6, <1>7 DEF Next, Daemon

\* The heart of it.  Execute saves a record that covers the host before it
\* installs anything; rollback saves its dirty participants, recovery drops a bit
\* once the subsystem is restored, and the record goes when nothing is owned.
LEMMA FileCoversPreserved == IInv /\ [Next]_vars => FileCovers'
<1> SUFFICES ASSUME IInv, [Next]_vars PROVE FileCovers'
  OBVIOUS
<1> USE FileFacts DEF IInv, DirtyCovers, EarlierBoot, FileCovers, Intent, NoFileIsEmpty,
        RecordCovers, RecordLoaded, RecoveryDns, RollbackOrder, RouteLoop, TableReleased, TypeOK, Working
<1>1. CASE Connect
  BY <1>1 DEF Connect
<1>2. CASE Execute
  <2>1. CASE SaveRecovery
    BY <2>1 DEF SaveRecovery, SaveStep
  <2>2. CASE BeforeApply
    BY <2>2 DEF BeforeApply, SaveStep
  <2>3. CASE RecordStartedLink
    BY <2>3 DEF RecordStartedLink, SaveStep
  <2>4. CASE Checkpoint
    BY <2>4 DEF Checkpoint, InspectStep
  <2>5. CASE CheckpointNM
    BY <2>5 DEF CheckpointNM
  <2>6. CASE ApplyNft
    BY <2>6 DEF ApplyNft, Installed
  <2>7. CASE StartCore
    BY <2>7 DEF StartCore
  <2>8. CASE ApplyRoutes
    BY <2>8 DEF ApplyRoutes
  <2>9. CASE ApplyResolved
    BY <2>9 DEF ApplyResolved
  <2>10. CASE ApplyNM
    BY <2>10 DEF ApplyNM
  <2>11. CASE Activate
    BY <2>11 DEF Activate
  <2> QED
    BY <1>2, <2>1, <2>2, <2>3, <2>4, <2>5, <2>6, <2>7, <2>8, <2>9, <2>10, <2>11 DEF Execute
<1>3. CASE Stop
  BY <1>3 DEF Stop
<1>4. CASE Rollback
  <2>1. CASE RollbackResolved
    BY <2>1 DEF RollbackResolved
  <2>2. CASE RollbackNM
    BY <2>2 DEF RollbackNM
  <2>3. CASE RollbackLinkSave("rbResolvedSave", "rbNM") \/ RollbackLinkSave("rbNMSave", "rbJoin")
    BY <2>3 DEF RollbackLinkSave
  <2>4. CASE RollbackJoin
    BY <2>4 DEF RollbackJoin
  <2>5. CASE RemoveRoutes("rbRoutes", "rbRoutesSave", "rbCore")
    BY <2>5 DEF RemoveRoutes, Pending, Cleaned
  <2>6. CASE VerifyTable("rbNft", "rbNftDelete", "rbNftSave", "rbRemove")
    BY <2>6 DEF VerifyTable, Pending, Cleaned
  <2>7. CASE DeleteTable("rbNftDelete", "rbNftSave")
    BY <2>7 DEF DeleteTable, Cleaned
  <2>8. CASE RollbackSave("rbRoutesSave", "rbCore") \/ RollbackSave("rbNftSave", "rbRemove")
    BY <2>8 DEF RollbackSave
  <2>9. CASE StopCore
    BY <2>9 DEF StopCore, LinkGone
  <2>10. CASE RollbackDone
    BY <2>10 DEF RollbackDone
  <2> QED
    BY <1>4, <2>1, <2>2, <2>3, <2>4, <2>5, <2>6, <2>7, <2>8, <2>9, <2>10 DEF Rollback
<1>5. CASE Recovery
  <2>1. CASE RecoverLoad
    BY <2>1 DEF RecoverLoad
  <2>2. CASE RecoverInspect
    BY <2>2 DEF RecoverInspect
  <2>3. CASE RecoverResolved
    BY <2>3 DEF RecoverResolved, RecoverSave
  <2>4. CASE RecoverNM
    BY <2>4 DEF RecoverNM
  <2>5. CASE RecoverSave("recNMSave", "nm", "recRoutes")
    BY <2>5 DEF RecoverSave
  <2>6. CASE RemoveRoutes("recRoutes", "recRoutesSave", "recNft")
    BY <2>6 DEF RemoveRoutes, Pending, Cleaned
  <2>7. CASE RecoverSave("recRoutesSave", "routes", "recNft")
    BY <2>7 DEF RecoverSave
  <2>8. CASE VerifyTable("recNft", "recNftDelete", "recNftSave", "recRemove")
    BY <2>8 DEF VerifyTable, Pending, Cleaned
  <2>9. CASE DeleteTable("recNftDelete", "recNftSave")
    BY <2>9 DEF DeleteTable, Cleaned
  <2>10. CASE RecoverSave("recNftSave", "nft", "recRemove")
    BY <2>10 DEF RecoverSave
  <2>11. CASE RecoverDone
    BY <2>11 DEF RecoverDone
  <2> QED
    BY <1>5, <2>1, <2>2, <2>3, <2>4, <2>5, <2>6, <2>7, <2>8, <2>9, <2>10, <2>11 DEF Recovery
<1>6. CASE Environment
  <2>1. CASE CoreDies
    BY <2>1 DEF CoreDies, HostStep, LinkGone
  <2>2. CASE CoreComesUp
    BY <2>2 DEF CoreComesUp, HostStep
  <2>3. CASE OrphanExits
    BY <2>3 DEF OrphanExits, HostStep, LinkGone
  <2>4. CASE OrphanComesUp
    BY <2>4 DEF OrphanComesUp, HostStep
  <2>5. CASE CheckpointExpires
    BY <2>5 DEF CheckpointExpires, HostStep
  <2>6. CASE ForeignTable
    BY <2>6 DEF ForeignTable, HostStep
  <2>7. CASE ForeignRoute
    BY <2>7 DEF ForeignRoute, HostStep
  <2>8. CASE Crash
    BY <2>8 DEF Crash, DaemonRestarts
  <2>9. CASE Reboot
    BY <2>9 DEF Reboot, DaemonRestarts
  <2> QED
    BY <1>6, <2>1, <2>2, <2>3, <2>4, <2>5, <2>6, <2>7, <2>8, <2>9 DEF Environment
<1>7. CASE UNCHANGED vars
  BY <1>7 DEF vars
<1> QED
  BY <1>1, <1>2, <1>3, <1>4, <1>5, <1>6, <1>7 DEF Next, Daemon

\* A participant is dirty before its first effect and clean after its last.
LEMMA DirtyCoversPreserved == IInv /\ [Next]_vars => DirtyCovers'
<1> SUFFICES ASSUME IInv, [Next]_vars PROVE DirtyCovers'
  OBVIOUS
<1> USE RemoveFacts DEF IInv, DirtyCovers, FileCovers, NoFileIsEmpty, RouteLoop, TypeOK, Working
<1>1. CASE Connect
  BY <1>1 DEF Connect
<1>2. CASE Execute
  BY <1>2 DEF Execute, SaveRecovery, BeforeApply, RecordStartedLink, SaveStep, Checkpoint,
         InspectStep, CheckpointNM, ApplyNft, Installed, StartCore, ApplyRoutes, ApplyResolved, ApplyNM, Activate
<1>3. CASE Stop
  BY <1>3 DEF Stop
<1>4. CASE Rollback
  <2>1. CASE RollbackResolved
    BY <2>1 DEF RollbackResolved
  <2>2. CASE RollbackNM
    BY <2>2 DEF RollbackNM
  <2>3. CASE RollbackLinkSave("rbResolvedSave", "rbNM") \/ RollbackLinkSave("rbNMSave", "rbJoin")
    BY <2>3 DEF RollbackLinkSave
  <2>4. CASE RollbackJoin
    BY <2>4 DEF RollbackJoin
  <2>5. CASE RemoveRoutes("rbRoutes", "rbRoutesSave", "rbCore")
    BY <2>5 DEF RemoveRoutes, Pending, Cleaned
  <2>6. CASE VerifyTable("rbNft", "rbNftDelete", "rbNftSave", "rbRemove")
    BY <2>6 DEF VerifyTable, Pending, Cleaned
  <2>7. CASE DeleteTable("rbNftDelete", "rbNftSave")
    BY <2>7 DEF DeleteTable, Cleaned
  <2>8. CASE RollbackSave("rbRoutesSave", "rbCore") \/ RollbackSave("rbNftSave", "rbRemove")
    BY <2>8 DEF RollbackSave
  <2>9. CASE StopCore
    BY <2>9 DEF StopCore, LinkGone
  <2>10. CASE RollbackDone
    BY <2>10 DEF RollbackDone
  <2> QED
    BY <1>4, <2>1, <2>2, <2>3, <2>4, <2>5, <2>6, <2>7, <2>8, <2>9, <2>10 DEF Rollback
<1>5. CASE Recovery
  BY <1>5 DEF Recovery, RecoverLoad, RecoverInspect, RecoverSave, RecoverResolved, RecoverNM,
         RemoveRoutes, VerifyTable, DeleteTable, RecoverDone, Pending, Cleaned
<1>6. CASE Environment
  BY <1>6 DEF Environment, CoreDies, CoreComesUp, OrphanExits, OrphanComesUp, CheckpointExpires,
         ForeignTable, ForeignRoute, Crash, Reboot, DaemonRestarts, HostStep, LinkGone
<1>7. CASE UNCHANGED vars
  BY <1>7 DEF vars
<1> QED
  BY <1>1, <1>2, <1>3, <1>4, <1>5, <1>6, <1>7 DEF Next, Daemon

\* In Execute the record only grows, or is read from the participants.
LEMMA RecordCoversPreserved == IInv /\ [Next]_vars => RecordCovers'
<1> SUFFICES ASSUME IInv, [Next]_vars PROVE RecordCovers'
  OBVIOUS
<1> USE DEF IInv, DirtyCovers, FileCovers, Intent, NoFileIsEmpty, RecordCovers, TypeOK, Working
<1>1. CASE Connect
  BY <1>1 DEF Connect
<1>2. CASE Execute
  BY <1>2 DEF Execute, SaveRecovery, BeforeApply, RecordStartedLink, SaveStep, Checkpoint,
         InspectStep, CheckpointNM, ApplyNft, Installed, StartCore, ApplyRoutes, ApplyResolved, ApplyNM, Activate
<1>3. CASE Stop
  BY <1>3 DEF Stop
<1>4. CASE Rollback
  BY <1>4 DEF Rollback, RollbackResolved, RollbackNM, RollbackLinkSave, RollbackJoin, RemoveRoutes,
         VerifyTable, DeleteTable, RollbackSave, StopCore, RollbackDone, Pending, Cleaned, LinkGone
<1>5. CASE Recovery
  BY <1>5 DEF Recovery, RecoverLoad, RecoverInspect, RecoverSave, RecoverResolved, RecoverNM,
         RemoveRoutes, VerifyTable, DeleteTable, RecoverDone, Pending, Cleaned
<1>6. CASE Environment
  BY <1>6 DEF Environment, CoreDies, CoreComesUp, OrphanExits, OrphanComesUp, CheckpointExpires,
         ForeignTable, ForeignRoute, Crash, Reboot, DaemonRestarts, HostStep, LinkGone
<1>7. CASE UNCHANGED vars
  BY <1>7 DEF vars
<1> QED
  BY <1>1, <1>2, <1>3, <1>4, <1>5, <1>6, <1>7 DEF Next, Daemon

\* A missing record claims nothing, on disk too.
LEMMA NoFileIsEmptyPreserved == IInv /\ [Next]_vars => NoFileIsEmpty'
<1> SUFFICES ASSUME IInv, [Next]_vars PROVE NoFileIsEmpty'
  OBVIOUS
<1> USE FileFacts DEF IInv, NoFileIsEmpty, RecordLoaded, TypeOK
<1>1. CASE Connect
  BY <1>1 DEF Connect
<1>2. CASE Execute
  BY <1>2 DEF Execute, SaveRecovery, BeforeApply, RecordStartedLink, SaveStep, Checkpoint,
         InspectStep, CheckpointNM, ApplyNft, Installed, StartCore, ApplyRoutes, ApplyResolved, ApplyNM, Activate
<1>3. CASE Stop
  BY <1>3 DEF Stop
<1>4. CASE Rollback
  BY <1>4 DEF Rollback, RollbackResolved, RollbackNM, RollbackLinkSave, RollbackJoin, RemoveRoutes,
         VerifyTable, DeleteTable, RollbackSave, StopCore, RollbackDone, Pending, Cleaned, LinkGone
<1>5. CASE Recovery
  BY <1>5 DEF Recovery, RecoverLoad, RecoverInspect, RecoverSave, RecoverResolved, RecoverNM,
         RemoveRoutes, VerifyTable, DeleteTable, RecoverDone, Pending, Cleaned
<1>6. CASE Environment
  BY <1>6 DEF Environment, CoreDies, CoreComesUp, OrphanExits, OrphanComesUp, CheckpointExpires,
         ForeignTable, ForeignRoute, Crash, Reboot, DaemonRestarts, HostStep, LinkGone
<1>7. CASE UNCHANGED vars
  BY <1>7 DEF vars
<1> QED
  BY <1>1, <1>2, <1>3, <1>4, <1>5, <1>6, <1>7 DEF Next, Daemon

\* A reboot erased what the record names, and nothing is installed under it.
LEMMA EarlierBootPreserved == IInv /\ [Next]_vars => EarlierBoot'
<1> SUFFICES ASSUME IInv, [Next]_vars PROVE EarlierBoot'
  OBVIOUS
<1> USE FileFacts DEF IInv, BootOfTransaction, EarlierBoot, TypeOK, Working
<1>1. CASE Connect
  BY <1>1 DEF Connect
<1>2. CASE Execute
  BY <1>2 DEF Execute, SaveRecovery, BeforeApply, RecordStartedLink, SaveStep, Checkpoint,
         InspectStep, CheckpointNM, ApplyNft, Installed, StartCore, ApplyRoutes, ApplyResolved, ApplyNM, Activate
<1>3. CASE Stop
  BY <1>3 DEF Stop
<1>4. CASE Rollback
  BY <1>4 DEF Rollback, RollbackResolved, RollbackNM, RollbackLinkSave, RollbackJoin, RemoveRoutes,
         VerifyTable, DeleteTable, RollbackSave, StopCore, RollbackDone, Pending, Cleaned, LinkGone
<1>5. CASE Recovery
  BY <1>5 DEF Recovery, RecoverLoad, RecoverInspect, RecoverSave, RecoverResolved, RecoverNM,
         RemoveRoutes, VerifyTable, DeleteTable, RecoverDone, Pending, Cleaned
<1>6. CASE Environment
  BY <1>6 DEF Environment, CoreDies, CoreComesUp, OrphanExits, OrphanComesUp, CheckpointExpires,
         ForeignTable, ForeignRoute, Crash, Reboot, DaemonRestarts, HostStep, LinkGone
<1>7. CASE UNCHANGED vars
  BY <1>7 DEF vars
<1> QED
  BY <1>1, <1>2, <1>3, <1>4, <1>5, <1>6, <1>7 DEF Next, Daemon

\* A transaction starts without a record and writes its own.
LEMMA BootOfTransactionPreserved == IInv /\ [Next]_vars => BootOfTransaction'
<1> SUFFICES ASSUME IInv, [Next]_vars PROVE BootOfTransaction'
  OBVIOUS
<1> USE FileFacts DEF IInv, BootOfTransaction, TypeOK, Working
<1>1. CASE Connect
  BY <1>1 DEF Connect
<1>2. CASE Execute
  BY <1>2 DEF Execute, SaveRecovery, BeforeApply, RecordStartedLink, SaveStep, Checkpoint,
         InspectStep, CheckpointNM, ApplyNft, Installed, StartCore, ApplyRoutes, ApplyResolved, ApplyNM, Activate
<1>3. CASE Stop
  BY <1>3 DEF Stop
<1>4. CASE Rollback
  BY <1>4 DEF Rollback, RollbackResolved, RollbackNM, RollbackLinkSave, RollbackJoin, RemoveRoutes,
         VerifyTable, DeleteTable, RollbackSave, StopCore, RollbackDone, Pending, Cleaned, LinkGone
<1>5. CASE Recovery
  BY <1>5 DEF Recovery, RecoverLoad, RecoverInspect, RecoverSave, RecoverResolved, RecoverNM,
         RemoveRoutes, VerifyTable, DeleteTable, RecoverDone, Pending, Cleaned
<1>6. CASE Environment
  BY <1>6 DEF Environment, CoreDies, CoreComesUp, OrphanExits, OrphanComesUp, CheckpointExpires,
         ForeignTable, ForeignRoute, Crash, Reboot, DaemonRestarts, HostStep, LinkGone
<1>7. CASE UNCHANGED vars
  BY <1>7 DEF vars
<1> QED
  BY <1>1, <1>2, <1>3, <1>4, <1>5, <1>6, <1>7 DEF Next, Daemon

\* Execute and rollback run for a transaction.
LEMMA WorkingPreserved == IInv /\ [Next]_vars => Working'
<1> SUFFICES ASSUME IInv, [Next]_vars PROVE Working'
  OBVIOUS
<1> USE DEF IInv, Working
<1>1. CASE Connect
  BY <1>1 DEF Connect
<1>2. CASE Execute
  BY <1>2 DEF Execute, SaveRecovery, BeforeApply, RecordStartedLink, SaveStep, Checkpoint,
         InspectStep, CheckpointNM, ApplyNft, Installed, StartCore, ApplyRoutes, ApplyResolved, ApplyNM, Activate
<1>3. CASE Stop
  BY <1>3 DEF Stop
<1>4. CASE Rollback
  BY <1>4 DEF Rollback, RollbackResolved, RollbackNM, RollbackLinkSave, RollbackJoin, RemoveRoutes,
         VerifyTable, DeleteTable, RollbackSave, StopCore, RollbackDone, Pending, Cleaned, LinkGone
<1>5. CASE Recovery
  BY <1>5 DEF Recovery, RecoverLoad, RecoverInspect, RecoverSave, RecoverResolved, RecoverNM,
         RemoveRoutes, VerifyTable, DeleteTable, RecoverDone, Pending, Cleaned
<1>6. CASE Environment
  BY <1>6 DEF Environment, CoreDies, CoreComesUp, OrphanExits, OrphanComesUp, CheckpointExpires,
         ForeignTable, ForeignRoute, Crash, Reboot, DaemonRestarts, HostStep, LinkGone
<1>7. CASE UNCHANGED vars
  BY <1>7 DEF vars
<1> QED
  BY <1>1, <1>2, <1>3, <1>4, <1>5, <1>6, <1>7 DEF Next, Daemon

\* beforeApply is on disk when Apply begins.
LEMMA IntentPreserved == IInv /\ [Next]_vars => Intent'
<1> SUFFICES ASSUME IInv, [Next]_vars PROVE Intent'
  OBVIOUS
<1> USE FileFacts DEF IInv, Intent, TypeOK
<1>1. CASE Connect
  BY <1>1 DEF Connect
<1>2. CASE Execute
  BY <1>2 DEF Execute, SaveRecovery, BeforeApply, RecordStartedLink, SaveStep, Checkpoint,
         InspectStep, CheckpointNM, ApplyNft, Installed, StartCore, ApplyRoutes, ApplyResolved, ApplyNM, Activate
<1>3. CASE Stop
  BY <1>3 DEF Stop
<1>4. CASE Rollback
  BY <1>4 DEF Rollback, RollbackResolved, RollbackNM, RollbackLinkSave, RollbackJoin, RemoveRoutes,
         VerifyTable, DeleteTable, RollbackSave, StopCore, RollbackDone, Pending, Cleaned, LinkGone
<1>5. CASE Recovery
  BY <1>5 DEF Recovery, RecoverLoad, RecoverInspect, RecoverSave, RecoverResolved, RecoverNM,
         RemoveRoutes, VerifyTable, DeleteTable, RecoverDone, Pending, Cleaned
<1>6. CASE Environment
  BY <1>6 DEF Environment, CoreDies, CoreComesUp, OrphanExits, OrphanComesUp, CheckpointExpires,
         ForeignTable, ForeignRoute, Crash, Reboot, DaemonRestarts, HostStep, LinkGone
<1>7. CASE UNCHANGED vars
  BY <1>7 DEF vars
<1> QED
  BY <1>1, <1>2, <1>3, <1>4, <1>5, <1>6, <1>7 DEF Next, Daemon

\* recoverRecord saves what it changes.
LEMMA RecordLoadedPreserved == IInv /\ [Next]_vars => RecordLoaded'
<1> SUFFICES ASSUME IInv, [Next]_vars PROVE RecordLoaded'
  OBVIOUS
<1> USE FileFacts DEF IInv, RecordLoaded, TypeOK
<1>1. CASE Connect
  BY <1>1 DEF Connect
<1>2. CASE Execute
  BY <1>2 DEF Execute, SaveRecovery, BeforeApply, RecordStartedLink, SaveStep, Checkpoint,
         InspectStep, CheckpointNM, ApplyNft, Installed, StartCore, ApplyRoutes, ApplyResolved, ApplyNM, Activate
<1>3. CASE Stop
  BY <1>3 DEF Stop
<1>4. CASE Rollback
  BY <1>4 DEF Rollback, RollbackResolved, RollbackNM, RollbackLinkSave, RollbackJoin, RemoveRoutes,
         VerifyTable, DeleteTable, RollbackSave, StopCore, RollbackDone, Pending, Cleaned, LinkGone
<1>5. CASE Recovery
  BY <1>5 DEF Recovery, RecoverLoad, RecoverInspect, RecoverSave, RecoverResolved, RecoverNM,
         RemoveRoutes, VerifyTable, DeleteTable, RecoverDone, Pending, Cleaned
<1>6. CASE Environment
  BY <1>6 DEF Environment, CoreDies, CoreComesUp, OrphanExits, OrphanComesUp, CheckpointExpires,
         ForeignTable, ForeignRoute, Crash, Reboot, DaemonRestarts, HostStep, LinkGone
<1>7. CASE UNCHANGED vars
  BY <1>7 DEF vars
<1> QED
  BY <1>1, <1>2, <1>3, <1>4, <1>5, <1>6, <1>7 DEF Next, Daemon

\* Whoever takes the TUN away takes its DNS with it.
LEMMA LinkDnsPreserved == IInv /\ [Next]_vars => LinkDns'
<1> SUFFICES ASSUME IInv, [Next]_vars PROVE LinkDns'
  OBVIOUS
<1> USE DEF IInv, CoreStopped, LinkDns, TypeOK, TunLive
<1>1. CASE Connect
  BY <1>1 DEF Connect
<1>2. CASE Execute
  BY <1>2 DEF Execute, SaveRecovery, BeforeApply, RecordStartedLink, SaveStep, Checkpoint,
         InspectStep, CheckpointNM, ApplyNft, Installed, StartCore, ApplyRoutes, ApplyResolved, ApplyNM, Activate
<1>3. CASE Stop
  BY <1>3 DEF Stop
<1>4. CASE Rollback
  BY <1>4 DEF Rollback, RollbackResolved, RollbackNM, RollbackLinkSave, RollbackJoin, RemoveRoutes,
         VerifyTable, DeleteTable, RollbackSave, StopCore, RollbackDone, Pending, Cleaned, LinkGone
<1>5. CASE Recovery
  BY <1>5 DEF Recovery, RecoverLoad, RecoverInspect, RecoverSave, RecoverResolved, RecoverNM,
         RemoveRoutes, VerifyTable, DeleteTable, RecoverDone, Pending, Cleaned
<1>6. CASE Environment
  BY <1>6 DEF Environment, CoreDies, CoreComesUp, OrphanExits, OrphanComesUp, CheckpointExpires,
         ForeignTable, ForeignRoute, Crash, Reboot, DaemonRestarts, HostStep, LinkGone
<1>7. CASE UNCHANGED vars
  BY <1>7 DEF vars, TunLive
<1> QED
  BY <1>1, <1>2, <1>3, <1>4, <1>5, <1>6, <1>7 DEF Next, Daemon

\* Recovery found no TUN, and resolved had dropped the link.
LEMMA RecoveryDnsPreserved == IInv /\ [Next]_vars => RecoveryDns'
<1> SUFFICES ASSUME IInv, [Next]_vars PROVE RecoveryDns'
  OBVIOUS
<1> USE DEF IInv, LinkDns, RecoveryDns, TypeOK, TunLive
<1>1. CASE Connect
  BY <1>1 DEF Connect
<1>2. CASE Execute
  BY <1>2 DEF Execute, SaveRecovery, BeforeApply, RecordStartedLink, SaveStep, Checkpoint,
         InspectStep, CheckpointNM, ApplyNft, Installed, StartCore, ApplyRoutes, ApplyResolved, ApplyNM, Activate
<1>3. CASE Stop
  BY <1>3 DEF Stop
<1>4. CASE Rollback
  BY <1>4 DEF Rollback, RollbackResolved, RollbackNM, RollbackLinkSave, RollbackJoin, RemoveRoutes,
         VerifyTable, DeleteTable, RollbackSave, StopCore, RollbackDone, Pending, Cleaned, LinkGone
<1>5. CASE Recovery
  BY <1>5 DEF Recovery, RecoverLoad, RecoverInspect, RecoverSave, RecoverResolved, RecoverNM,
         RemoveRoutes, VerifyTable, DeleteTable, RecoverDone, Pending, Cleaned
<1>6. CASE Environment
  BY <1>6 DEF Environment, CoreDies, CoreComesUp, OrphanExits, OrphanComesUp, CheckpointExpires,
         ForeignTable, ForeignRoute, Crash, Reboot, DaemonRestarts, HostStep, LinkGone
<1>7. CASE UNCHANGED vars
  BY <1>7 DEF vars
<1> QED
  BY <1>1, <1>2, <1>3, <1>4, <1>5, <1>6, <1>7 DEF Next, Daemon

\* After n rounds the first n objects of RemoveOrder are gone.
LEMMA RouteLoopPreserved == IInv /\ [Next]_vars => RouteLoop'
<1> SUFFICES ASSUME IInv, [Next]_vars PROVE RouteLoop'
  OBVIOUS
<1> USE RemoveFacts DEF IInv, DirtyCovers, EarlierBoot, FileCovers, RecordLoaded, RouteLoop,
        TypeOK, Working
<1>1. CASE Connect
  BY <1>1 DEF Connect
<1>2. CASE Execute
  BY <1>2 DEF Execute, SaveRecovery, BeforeApply, RecordStartedLink, SaveStep, Checkpoint,
         InspectStep, CheckpointNM, ApplyNft, Installed, StartCore, ApplyRoutes, ApplyResolved, ApplyNM, Activate
<1>3. CASE Stop
  BY <1>3 DEF Stop
<1>4. CASE Rollback
  <2>1. CASE RollbackResolved
    BY <2>1 DEF RollbackResolved
  <2>2. CASE RollbackNM
    BY <2>2 DEF RollbackNM
  <2>3. CASE RollbackLinkSave("rbResolvedSave", "rbNM") \/ RollbackLinkSave("rbNMSave", "rbJoin")
    BY <2>3 DEF RollbackLinkSave
  <2>4. CASE RollbackJoin
    BY <2>4 DEF RollbackJoin
  <2>5. CASE RemoveRoutes("rbRoutes", "rbRoutesSave", "rbCore")
    BY <2>5 DEF RemoveRoutes, Pending, Cleaned
  <2>6. CASE VerifyTable("rbNft", "rbNftDelete", "rbNftSave", "rbRemove")
    BY <2>6 DEF VerifyTable, Pending, Cleaned
  <2>7. CASE DeleteTable("rbNftDelete", "rbNftSave")
    BY <2>7 DEF DeleteTable, Cleaned
  <2>8. CASE RollbackSave("rbRoutesSave", "rbCore") \/ RollbackSave("rbNftSave", "rbRemove")
    BY <2>8 DEF RollbackSave
  <2>9. CASE StopCore
    BY <2>9 DEF StopCore, LinkGone
  <2>10. CASE RollbackDone
    BY <2>10 DEF RollbackDone
  <2> QED
    BY <1>4, <2>1, <2>2, <2>3, <2>4, <2>5, <2>6, <2>7, <2>8, <2>9, <2>10 DEF Rollback
<1>5. CASE Recovery
  <2>1. CASE RecoverLoad
    BY <2>1 DEF RecoverLoad
  <2>2. CASE RecoverInspect
    BY <2>2 DEF RecoverInspect
  <2>3. CASE RecoverResolved
    BY <2>3 DEF RecoverResolved, RecoverSave
  <2>4. CASE RecoverNM
    BY <2>4 DEF RecoverNM
  <2>5. CASE RecoverSave("recNMSave", "nm", "recRoutes")
    BY <2>5 DEF RecoverSave
  <2>6. CASE RemoveRoutes("recRoutes", "recRoutesSave", "recNft")
    BY <2>6 DEF RemoveRoutes, Pending, Cleaned
  <2>7. CASE RecoverSave("recRoutesSave", "routes", "recNft")
    BY <2>7 DEF RecoverSave
  <2>8. CASE VerifyTable("recNft", "recNftDelete", "recNftSave", "recRemove")
    BY <2>8 DEF VerifyTable, Pending, Cleaned
  <2>9. CASE DeleteTable("recNftDelete", "recNftSave")
    BY <2>9 DEF DeleteTable, Cleaned
  <2>10. CASE RecoverSave("recNftSave", "nft", "recRemove")
    BY <2>10 DEF RecoverSave
  <2>11. CASE RecoverDone
    BY <2>11 DEF RecoverDone
  <2> QED
    BY <1>5, <2>1, <2>2, <2>3, <2>4, <2>5, <2>6, <2>7, <2>8, <2>9, <2>10, <2>11 DEF Recovery
<1>6. CASE Environment
  BY <1>6 DEF Environment, CoreDies, CoreComesUp, OrphanExits, OrphanComesUp, CheckpointExpires,
         ForeignTable, ForeignRoute, Crash, Reboot, DaemonRestarts, HostStep, LinkGone
<1>7. CASE UNCHANGED vars
  BY <1>7 DEF vars
<1> QED
  BY <1>1, <1>2, <1>3, <1>4, <1>5, <1>6, <1>7 DEF Next, Daemon

\* rollback goes on only when what came before is restored.
LEMMA RollbackOrderPreserved == IInv /\ [Next]_vars => RollbackOrder'
<1> SUFFICES ASSUME IInv, [Next]_vars PROVE RollbackOrder'
  OBVIOUS
<1> USE DEF IInv, RollbackOrder, TypeOK
<1>1. CASE Connect
  BY <1>1 DEF Connect
<1>2. CASE Execute
  BY <1>2 DEF Execute, SaveRecovery, BeforeApply, RecordStartedLink, SaveStep, Checkpoint,
         InspectStep, CheckpointNM, ApplyNft, Installed, StartCore, ApplyRoutes, ApplyResolved, ApplyNM, Activate
<1>3. CASE Stop
  BY <1>3 DEF Stop
<1>4. CASE Rollback
  BY <1>4 DEF Rollback, RollbackResolved, RollbackNM, RollbackLinkSave, RollbackJoin, RemoveRoutes,
         VerifyTable, DeleteTable, RollbackSave, StopCore, RollbackDone, Pending, Cleaned, LinkGone
<1>5. CASE Recovery
  BY <1>5 DEF Recovery, RecoverLoad, RecoverInspect, RecoverSave, RecoverResolved, RecoverNM,
         RemoveRoutes, VerifyTable, DeleteTable, RecoverDone, Pending, Cleaned
<1>6. CASE Environment
  BY <1>6 DEF Environment, CoreDies, CoreComesUp, OrphanExits, OrphanComesUp, CheckpointExpires,
         ForeignTable, ForeignRoute, Crash, Reboot, DaemonRestarts, HostStep, LinkGone
<1>7. CASE UNCHANGED vars
  BY <1>7 DEF vars
<1> QED
  BY <1>1, <1>2, <1>3, <1>4, <1>5, <1>6, <1>7 DEF Next, Daemon

\* Past the delete the table is not ours, and no token is forgotten.
LEMMA TableReleasedPreserved == IInv /\ [Next]_vars => TableReleased'
<1> SUFFICES ASSUME IInv, [Next]_vars PROVE TableReleased'
  OBVIOUS
<1> USE DEF IInv, FileCovers, NoFileIsEmpty, RecordLoaded, TableReleased, TypeOK
<1>1. CASE Connect
  BY <1>1 DEF Connect
<1>2. CASE Execute
  BY <1>2 DEF Execute, SaveRecovery, BeforeApply, RecordStartedLink, SaveStep, Checkpoint,
         InspectStep, CheckpointNM, ApplyNft, Installed, StartCore, ApplyRoutes, ApplyResolved, ApplyNM, Activate
<1>3. CASE Stop
  BY <1>3 DEF Stop
<1>4. CASE Rollback
  BY <1>4 DEF Rollback, RollbackResolved, RollbackNM, RollbackLinkSave, RollbackJoin, RemoveRoutes,
         VerifyTable, DeleteTable, RollbackSave, StopCore, RollbackDone, Pending, Cleaned, LinkGone
<1>5. CASE Recovery
  BY <1>5 DEF Recovery, RecoverLoad, RecoverInspect, RecoverSave, RecoverResolved, RecoverNM,
         RemoveRoutes, VerifyTable, DeleteTable, RecoverDone, Pending, Cleaned
<1>6. CASE Environment
  BY <1>6 DEF Environment, CoreDies, CoreComesUp, OrphanExits, OrphanComesUp, CheckpointExpires,
         ForeignTable, ForeignRoute, Crash, Reboot, DaemonRestarts, HostStep, LinkGone
<1>7. CASE UNCHANGED vars
  BY <1>7 DEF vars
<1> QED
  BY <1>1, <1>2, <1>3, <1>4, <1>5, <1>6, <1>7 DEF Next, Daemon

\* The record goes before the service forgets the transaction.
LEMMA SettledPreserved == IInv /\ [Next]_vars => Settled'
<1> SUFFICES ASSUME IInv, [Next]_vars PROVE Settled'
  OBVIOUS
<1> USE FileFacts DEF IInv, Settled, TypeOK, Working
<1>1. CASE Connect
  BY <1>1 DEF Connect
<1>2. CASE Execute
  BY <1>2 DEF Execute, SaveRecovery, BeforeApply, RecordStartedLink, SaveStep, Checkpoint,
         InspectStep, CheckpointNM, ApplyNft, Installed, StartCore, ApplyRoutes, ApplyResolved, ApplyNM, Activate
<1>3. CASE Stop
  BY <1>3 DEF Stop
<1>4. CASE Rollback
  BY <1>4 DEF Rollback, RollbackResolved, RollbackNM, RollbackLinkSave, RollbackJoin, RemoveRoutes,
         VerifyTable, DeleteTable, RollbackSave, StopCore, RollbackDone, Pending, Cleaned, LinkGone
<1>5. CASE Recovery
  BY <1>5 DEF Recovery, RecoverLoad, RecoverInspect, RecoverSave, RecoverResolved, RecoverNM,
         RemoveRoutes, VerifyTable, DeleteTable, RecoverDone, Pending, Cleaned
<1>6. CASE Environment
  BY <1>6 DEF Environment, CoreDies, CoreComesUp, OrphanExits, OrphanComesUp, CheckpointExpires,
         ForeignTable, ForeignRoute, Crash, Reboot, DaemonRestarts, HostStep, LinkGone
<1>7. CASE UNCHANGED vars
  BY <1>7 DEF vars
<1> QED
  BY <1>1, <1>2, <1>3, <1>4, <1>5, <1>6, <1>7 DEF Next, Daemon

\* Core has acknowledged or exited before anything that it needs is released.
LEMMA CoreStoppedPreserved == IInv /\ [Next]_vars => CoreStopped'
<1> SUFFICES ASSUME IInv, [Next]_vars PROVE CoreStopped'
  OBVIOUS
<1> USE DEF IInv, CoreStopped, TypeOK, Working
<1>1. CASE Connect
  BY <1>1 DEF Connect
<1>2. CASE Execute
  BY <1>2 DEF Execute, SaveRecovery, BeforeApply, RecordStartedLink, SaveStep, Checkpoint,
         InspectStep, CheckpointNM, ApplyNft, Installed, StartCore, ApplyRoutes, ApplyResolved, ApplyNM, Activate
<1>3. CASE Stop
  BY <1>3 DEF Stop
<1>4. CASE Rollback
  BY <1>4 DEF Rollback, RollbackResolved, RollbackNM, RollbackLinkSave, RollbackJoin, RemoveRoutes,
         VerifyTable, DeleteTable, RollbackSave, StopCore, RollbackDone, Pending, Cleaned, LinkGone
<1>5. CASE Recovery
  BY <1>5 DEF Recovery, RecoverLoad, RecoverInspect, RecoverSave, RecoverResolved, RecoverNM,
         RemoveRoutes, VerifyTable, DeleteTable, RecoverDone, Pending, Cleaned
<1>6. CASE Environment
  BY <1>6 DEF Environment, CoreDies, CoreComesUp, OrphanExits, OrphanComesUp, CheckpointExpires,
         ForeignTable, ForeignRoute, Crash, Reboot, DaemonRestarts, HostStep, LinkGone
<1>7. CASE UNCHANGED vars
  BY <1>7 DEF vars
<1> QED
  BY <1>1, <1>2, <1>3, <1>4, <1>5, <1>6, <1>7 DEF Next, Daemon

\* From ApplyNft on the block is there, or someone else took it away.
LEMMA ExecuteBlockedPreserved == IInv /\ [Next]_vars => ExecuteBlocked'
<1> SUFFICES ASSUME IInv, [Next]_vars PROVE ExecuteBlocked'
  OBVIOUS
<1> USE DEF IInv, ExecuteBlocked, TypeOK
<1>1. CASE Connect
  BY <1>1 DEF Connect
<1>2. CASE Execute
  BY <1>2 DEF Execute, SaveRecovery, BeforeApply, RecordStartedLink, SaveStep, Checkpoint,
         InspectStep, CheckpointNM, ApplyNft, Installed, StartCore, ApplyRoutes, ApplyResolved, ApplyNM, Activate
<1>3. CASE Stop
  BY <1>3 DEF Stop
<1>4. CASE Rollback
  BY <1>4 DEF Rollback, RollbackResolved, RollbackNM, RollbackLinkSave, RollbackJoin, RemoveRoutes,
         VerifyTable, DeleteTable, RollbackSave, StopCore, RollbackDone, Pending, Cleaned, LinkGone
<1>5. CASE Recovery
  BY <1>5 DEF Recovery, RecoverLoad, RecoverInspect, RecoverSave, RecoverResolved, RecoverNM,
         RemoveRoutes, VerifyTable, DeleteTable, RecoverDone, Pending, Cleaned
<1>6. CASE Environment
  <2>1. CASE CoreDies
    BY <2>1 DEF CoreDies, HostStep, LinkGone
  <2>2. CASE CoreComesUp
    BY <2>2 DEF CoreComesUp, HostStep
  <2>3. CASE OrphanExits
    BY <2>3 DEF OrphanExits, HostStep, LinkGone
  <2>4. CASE OrphanComesUp
    BY <2>4 DEF OrphanComesUp, HostStep
  <2>5. CASE CheckpointExpires
    BY <2>5 DEF CheckpointExpires, HostStep
  <2>6. CASE ForeignTable
    BY <2>6 DEF ForeignTable, HostStep
  <2>7. CASE ForeignRoute
    BY <2>7 DEF ForeignRoute, HostStep
  <2>8. CASE Crash
    BY <2>8 DEF Crash, DaemonRestarts
  <2>9. CASE Reboot
    BY <2>9 DEF Reboot, DaemonRestarts
  <2> QED
    BY <1>6, <2>1, <2>2, <2>3, <2>4, <2>5, <2>6, <2>7, <2>8, <2>9 DEF Environment
<1>7. CASE UNCHANGED vars
  BY <1>7 DEF vars
<1> QED
  BY <1>1, <1>2, <1>3, <1>4, <1>5, <1>6, <1>7 DEF Next, Daemon

\* The block is installed before Core starts; it is deleted after the routes,
\* the link DNS and Core are gone.
LEMMA BlockPreserved == IInv /\ [Next]_vars => BlockBracketsSteering'
<1> SUFFICES ASSUME IInv, [Next]_vars PROVE BlockBracketsSteering'
  OBVIOUS
<1> USE DEF IInv, BlockBracketsSteering, CoreStopped, DirtyCovers, ExecuteBlocked, FileCovers,
        NoFileIsEmpty, RecoveryDns, RollbackOrder, RouteLoop, TypeOK, Working
<1>1. CASE Connect
  BY <1>1 DEF Connect
<1>2. CASE Execute
  <2>1. CASE SaveRecovery
    BY <2>1 DEF SaveRecovery, SaveStep
  <2>2. CASE BeforeApply
    BY <2>2 DEF BeforeApply, SaveStep
  <2>3. CASE RecordStartedLink
    BY <2>3 DEF RecordStartedLink, SaveStep
  <2>4. CASE Checkpoint
    BY <2>4 DEF Checkpoint, InspectStep
  <2>5. CASE CheckpointNM
    BY <2>5 DEF CheckpointNM
  <2>6. CASE ApplyNft
    BY <2>6 DEF ApplyNft, Installed
  <2>7. CASE StartCore
    BY <2>7 DEF StartCore
  <2>8. CASE ApplyRoutes
    BY <2>8 DEF ApplyRoutes
  <2>9. CASE ApplyResolved
    BY <2>9 DEF ApplyResolved
  <2>10. CASE ApplyNM
    BY <2>10 DEF ApplyNM
  <2>11. CASE Activate
    BY <2>11 DEF Activate
  <2> QED
    BY <1>2, <2>1, <2>2, <2>3, <2>4, <2>5, <2>6, <2>7, <2>8, <2>9, <2>10, <2>11 DEF Execute
<1>3. CASE Stop
  BY <1>3 DEF Stop
<1>4. CASE Rollback
  <2>1. CASE RollbackResolved
    BY <2>1 DEF RollbackResolved
  <2>2. CASE RollbackNM
    BY <2>2 DEF RollbackNM
  <2>3. CASE RollbackLinkSave("rbResolvedSave", "rbNM") \/ RollbackLinkSave("rbNMSave", "rbJoin")
    BY <2>3 DEF RollbackLinkSave
  <2>4. CASE RollbackJoin
    BY <2>4 DEF RollbackJoin
  <2>5. CASE RemoveRoutes("rbRoutes", "rbRoutesSave", "rbCore")
    BY <2>5 DEF RemoveRoutes, Pending, Cleaned
  <2>6. CASE VerifyTable("rbNft", "rbNftDelete", "rbNftSave", "rbRemove")
    BY <2>6 DEF VerifyTable, Pending, Cleaned
  <2>7. CASE DeleteTable("rbNftDelete", "rbNftSave")
    BY <2>7 DEF DeleteTable, Cleaned
  <2>8. CASE RollbackSave("rbRoutesSave", "rbCore") \/ RollbackSave("rbNftSave", "rbRemove")
    BY <2>8 DEF RollbackSave
  <2>9. CASE StopCore
    BY <2>9 DEF StopCore, LinkGone
  <2>10. CASE RollbackDone
    BY <2>10 DEF RollbackDone
  <2> QED
    BY <1>4, <2>1, <2>2, <2>3, <2>4, <2>5, <2>6, <2>7, <2>8, <2>9, <2>10 DEF Rollback
<1>5. CASE Recovery
  <2>1. CASE RecoverLoad
    BY <2>1 DEF RecoverLoad
  <2>2. CASE RecoverInspect
    BY <2>2 DEF RecoverInspect
  <2>3. CASE RecoverResolved
    BY <2>3 DEF RecoverResolved, RecoverSave
  <2>4. CASE RecoverNM
    BY <2>4 DEF RecoverNM
  <2>5. CASE RecoverSave("recNMSave", "nm", "recRoutes")
    BY <2>5 DEF RecoverSave
  <2>6. CASE RemoveRoutes("recRoutes", "recRoutesSave", "recNft")
    BY <2>6 DEF RemoveRoutes, Pending, Cleaned
  <2>7. CASE RecoverSave("recRoutesSave", "routes", "recNft")
    BY <2>7 DEF RecoverSave
  <2>8. CASE VerifyTable("recNft", "recNftDelete", "recNftSave", "recRemove")
    BY <2>8 DEF VerifyTable, Pending, Cleaned
  <2>9. CASE DeleteTable("recNftDelete", "recNftSave")
    BY <2>9 DEF DeleteTable, Cleaned
  <2>10. CASE RecoverSave("recNftSave", "nft", "recRemove")
    BY <2>10 DEF RecoverSave
  <2>11. CASE RecoverDone
    BY <2>11 DEF RecoverDone
  <2> QED
    BY <1>5, <2>1, <2>2, <2>3, <2>4, <2>5, <2>6, <2>7, <2>8, <2>9, <2>10, <2>11 DEF Recovery
<1>6. CASE Environment
  <2>1. CASE CoreDies
    BY <2>1 DEF CoreDies, HostStep, LinkGone
  <2>2. CASE CoreComesUp
    BY <2>2 DEF CoreComesUp, HostStep
  <2>3. CASE OrphanExits
    BY <2>3 DEF OrphanExits, HostStep, LinkGone
  <2>4. CASE OrphanComesUp
    BY <2>4 DEF OrphanComesUp, HostStep
  <2>5. CASE CheckpointExpires
    BY <2>5 DEF CheckpointExpires, HostStep
  <2>6. CASE ForeignTable
    BY <2>6 DEF ForeignTable, HostStep
  <2>7. CASE ForeignRoute
    BY <2>7 DEF ForeignRoute, HostStep
  <2>8. CASE Crash
    BY <2>8 DEF Crash, DaemonRestarts
  <2>9. CASE Reboot
    BY <2>9 DEF Reboot, DaemonRestarts
  <2> QED
    BY <1>6, <2>1, <2>2, <2>3, <2>4, <2>5, <2>6, <2>7, <2>8, <2>9 DEF Environment
<1>7. CASE UNCHANGED vars
  BY <1>7 DEF vars
<1> QED
  BY <1>1, <1>2, <1>3, <1>4, <1>5, <1>6, <1>7 DEF Next, Daemon

-----------------------------------------------------------------------------

\* A first start on an untouched host.
LEMMA InitInvariant == Init => IInv
<1> SUFFICES ASSUME Init PROVE IInv
  OBVIOUS
<1> USE FileFacts DEF Init
<1>1. TypeHost /\ TypeControl /\ TypeMemory
  BY DEF TypeHost, TypeControl, TypeMemory, RouteObjects
<1>2. TypeFile /\ TypeFlags
  BY DEF TypeFile, TypeFlags
<1>3. TypeFaults
  BY FaultAssumption DEF TypeFaults
<1>4. /\ FileCovers /\ DirtyCovers /\ RecordCovers /\ NoFileIsEmpty /\ EarlierBoot
      /\ BootOfTransaction /\ Working /\ Intent /\ RecordLoaded
  BY DEF FileCovers, DirtyCovers, RecordCovers, NoFileIsEmpty, EarlierBoot, BootOfTransaction,
         Working, Intent, RecordLoaded
<1>5. /\ LinkDns /\ RecoveryDns /\ RouteLoop /\ RollbackOrder /\ TableReleased /\ Settled
      /\ CoreStopped /\ ExecuteBlocked /\ BlockBracketsSteering
  BY DEF LinkDns, RecoveryDns, RouteLoop, RollbackOrder, TableReleased, Settled, CoreStopped,
         ExecuteBlocked, BlockBracketsSteering
<1> QED
  BY <1>1, <1>2, <1>3, <1>4, <1>5
  DEF IInv, TypeOK, TypeHost, TypeFile, TypeControl, TypeFlags, TypeMemory, TypeFaults

\* The groups together.
LEMMA TypePreserved == IInv /\ [Next]_vars => TypeOK'
  BY TypeHostPreserved, TypeFilePreserved, TypeControlPreserved, TypeFlagsPreserved,
     TypeMemoryPreserved, TypeFaultsPreserved
  DEF TypeOK, TypeHost, TypeFile, TypeControl, TypeFlags, TypeMemory, TypeFaults

\* Every conjunct is preserved by every step.
LEMMA InvariantPreserved == IInv /\ [Next]_vars => IInv'
  BY TypePreserved, FileCoversPreserved, DirtyCoversPreserved, RecordCoversPreserved,
     NoFileIsEmptyPreserved, EarlierBootPreserved, BootOfTransactionPreserved, WorkingPreserved,
     IntentPreserved, RecordLoadedPreserved, LinkDnsPreserved, RecoveryDnsPreserved,
     RouteLoopPreserved, RollbackOrderPreserved, TableReleasedPreserved, SettledPreserved,
     CoreStoppedPreserved, ExecuteBlockedPreserved, BlockPreserved
  DEF IInv

\* So the invariant holds.
LEMMA Invariant == Spec => []IInv
  BY InitInvariant, InvariantPreserved, PTL DEF Spec

\* Every variable of the transaction keeps its type, whatever fails.
THEOREM TypeCorrect == Spec => []TypeOK
<1>1. IInv => TypeOK
  BY DEF IInv
<1> QED
  BY Invariant, <1>1, PTL

\* The write-ahead record names every table, route and DNS setting of ours that
\* is on the host (beforeApply, saveRecovery, recoverRecord).
THEOREM WriteAhead == Spec => []OwnedStateIsRecorded
<1>1. IInv => OwnedStateIsRecorded
  BY DEF IInv, FileCovers, OwnedStateIsRecorded
<1> QED
  BY Invariant, <1>1, PTL

\* Routes, link DNS and a live Core exist only behind the nft block, unless
\* someone else removed it (the order of Execute and of rollback).
THEOREM SteeringIsBlocked == Spec => []BlockBracketsSteering
<1>1. IInv => BlockBracketsSteering
  BY DEF IInv
<1> QED
  BY Invariant, <1>1, PTL

\* A service that holds no transaction and needs no recovery has left nothing
\* behind (stop, recoverPending).
THEOREM IdleIsClean == Spec => []CleanWhenIdle
<1>1. IInv => CleanWhenIdle
  <2> SUFFICES ASSUME IInv, pc = "idle", transaction = "none", ~recoveryRequired
               PROVE  /\ nftTable \notin {"own", "merged", "orphan"}
                      /\ routes = {} /\ resolved = "default"
                      /\ file = NoFile /\ core = "none"
    BY DEF CleanWhenIdle
  <2>1. file.boot = "none" /\ file.pending = {} /\ file \in Files
    BY DEF IInv, TypeOK, Settled, NoFileIsEmpty
  <2>2. file = NoFile
    BY <2>1, EmptyFile
  <2> QED
    BY <2>1, <2>2 DEF IInv, TypeOK, FileCovers, TableReleased, CoreStopped
<1> QED
  BY Invariant, <1>1, PTL

-----------------------------------------------------------------------------
(* The record is neither ahead of nor behind the host.                      *)

\* A set of pending bits names the table when it names what the table brackets.
KeepsTable(pending) == "routes" \in pending \/ "resolved" \in pending => "nft" \in pending

\* So does everything that is, or will be, written to the record.
TableIsKept ==
  /\ \A f \in fileDisk \cup {file} : KeepsTable(f.pending)
  /\ KeepsTable(record) /\ KeepsTable(dirty)

\* The record of the table is cleared after those of the routes and the link.
RecoveryOrder ==
  /\ pc \in {"recNM", "recNMSave", "recRoutes", "recRoutesSave", "recNft", "recNftDelete",
             "recNftSave"} => "resolved" \notin record
  /\ pc \in {"recNft", "recNftDelete", "recNftSave"} => "routes" \notin record

\* Whose transaction the daemon works on.
Owner ==
  /\ pc \in ExecuteSteps => transaction = "fresh"
  /\ pc \in RecoverySteps => transaction \in {"none", "recoveryRequired"}

\* The participants that Execute has made dirty when it is at a step.
Stage ==
  /\ pc \in {"begin", "ckRoutes", "ckRoutesSave", "ckNft", "ckNftSave", "intendNft", "applyNft"}
       => dirty = {}
  /\ pc \in {"nftSave", "startCore", "recordLink", "intendRoutes"} => dirty = {"nft"}
  /\ pc = "applyRoutes" => dirty \in {{"nft"}, {"nft", "routes"}}
  /\ pc \in {"routesSave", "ckNM"} => dirty = {"nft", "routes"}
  /\ pc \in {"ckNMSave", "ckResolved", "ckResolvedSave", "intendResolved", "applyResolved"}
       => dirty = {"nft", "routes", "nm"}
  /\ pc \in {"resolvedSave", "intendNM", "applyNM"} => dirty = Subsystems
  /\ pc = "nmSave" => dirty = {"nft", "routes", "resolved"}
  /\ pc \in ExecuteSteps \ {"begin", "ckRoutes", "ckRoutesSave", "ckNft", "ckNftSave", "intendNft"}
       => "nft" \in record

\* Core has started, or died, from recordLink on, and the link is its own.
Started == {"recordLink", "intendRoutes", "applyRoutes", "routesSave", "ckNM", "ckNMSave",
            "ckResolved", "ckResolvedSave", "intendResolved", "applyResolved", "resolvedSave",
            "intendNM", "applyNM", "nmSave"}
CoreOfTransaction ==
  /\ pc \in Started \/ (transaction = "active" /\ pc = "idle") => core \in {"running", "dead"}
  /\ core = "running" => orphan # "running"

\* While Core lives, nothing that Execute added goes away.
Steered ==
  core = "running" =>
    /\ pc = "applyRoutes" => \A i \in 1..4 : i < cursor => ApplyOrder[i] \in routes
    /\ pc \in {"routesSave", "ckNM", "ckNMSave", "ckResolved", "ckResolvedSave", "intendResolved",
               "applyResolved", "resolvedSave", "intendNM", "applyNM", "nmSave"}
         => routes = RouteObjects
    /\ pc \in {"resolvedSave", "intendNM", "applyNM", "nmSave"} => resolved = "owned"

FInv ==
  /\ IInv /\ TableIsKept /\ RecoveryOrder /\ Owner /\ Stage /\ CoreOfTransaction /\ Steered
  /\ ActiveIsComplete

\* A set of route objects that the whole loop has added is complete.
LEMMA ApplyFacts ==
  ASSUME NEW R, R \subseteq RouteObjects, \A i \in 1..4 : ApplyOrder[i] \in R
  PROVE  R = RouteObjects
  BY 1 \in 1..4, 2 \in 1..4, 3 \in 1..4, 4 \in 1..4 DEF ApplyOrder, RouteObjects

\* The daemon executes what it prepared and recovers what it could not undo.
LEMMA OwnerPreserved == FInv /\ [Next]_vars => Owner'
<1> SUFFICES ASSUME FInv, [Next]_vars PROVE Owner'
  OBVIOUS
<1> USE DEF FInv, IInv, TypeOK, Working, Owner
<1>1. CASE Connect
  BY <1>1 DEF Connect
<1>2. CASE Execute
  BY <1>2 DEF Execute, SaveRecovery, SaveStep, BeforeApply, RecordStartedLink, Checkpoint,
         InspectStep, CheckpointNM, ApplyNft, Installed, StartCore, ApplyRoutes, ApplyResolved,
         ApplyNM, Activate
<1>3. CASE Stop
  BY <1>3 DEF Stop
<1>4. CASE Rollback
  BY <1>4 DEF Rollback, RollbackResolved, RollbackNM, RollbackLinkSave, RollbackJoin,
         RemoveRoutes, Pending, Cleaned, VerifyTable, DeleteTable, RollbackSave, StopCore,
         LinkGone, RollbackDone
<1>5. CASE Recovery
  BY <1>5 DEF Recovery, RecoverLoad, RecoverInspect, RecoverResolved, RecoverSave, RecoverNM,
         RemoveRoutes, Pending, Cleaned, VerifyTable, DeleteTable, RecoverDone
<1>6. CASE Environment
  BY <1>6 DEF Environment, CoreDies, HostStep, LinkGone, CoreComesUp, OrphanExits,
         OrphanComesUp, CheckpointExpires, ForeignTable, ForeignRoute, Crash, DaemonRestarts,
         Reboot
<1>7. CASE UNCHANGED vars
  BY <1>7 DEF vars
<1> QED
  BY <1>1, <1>2, <1>3, <1>4, <1>5, <1>6, <1>7 DEF Next, Daemon

\* Participants become dirty one after the other.
LEMMA StagePreserved == FInv /\ [Next]_vars => Stage'
<1> SUFFICES ASSUME FInv, [Next]_vars PROVE Stage'
  OBVIOUS
<1> USE DEF FInv, IInv, TypeOK, Intent, Stage
<1>1. CASE Connect
  BY <1>1 DEF Connect
<1>2. CASE Execute
  <2>1. CASE SaveRecovery
    BY <2>1 DEF SaveRecovery, SaveStep
  <2>2. CASE BeforeApply
    BY <2>2 DEF BeforeApply, SaveStep
  <2>3. CASE RecordStartedLink
    BY <2>3 DEF RecordStartedLink, SaveStep
  <2>4. CASE Checkpoint
    BY <2>4 DEF Checkpoint, InspectStep
  <2>5. CASE CheckpointNM
    BY <2>5 DEF CheckpointNM
  <2>6. CASE ApplyNft
    BY <2>6 DEF ApplyNft, Installed
  <2>7. CASE StartCore
    BY <2>7 DEF StartCore
  <2>8. CASE ApplyRoutes
    BY <2>8 DEF ApplyRoutes
  <2>9. CASE ApplyResolved
    BY <2>9 DEF ApplyResolved
  <2>10. CASE ApplyNM
    BY <2>10 DEF ApplyNM
  <2>11. CASE Activate
    BY <2>11 DEF Activate
  <2> QED
    BY <1>2, <2>1, <2>2, <2>3, <2>4, <2>5, <2>6, <2>7, <2>8, <2>9, <2>10, <2>11 DEF Execute
<1>3. CASE Stop
  BY <1>3 DEF Stop
<1>4. CASE Rollback
  BY <1>4 DEF Rollback, RollbackResolved, RollbackNM, RollbackLinkSave, RollbackJoin,
         RemoveRoutes, Pending, Cleaned, VerifyTable, DeleteTable, RollbackSave, StopCore,
         LinkGone, RollbackDone
<1>5. CASE Recovery
  BY <1>5 DEF Recovery, RecoverLoad, RecoverInspect, RecoverResolved, RecoverSave, RecoverNM,
         RemoveRoutes, Pending, Cleaned, VerifyTable, DeleteTable, RecoverDone
<1>6. CASE Environment
  BY <1>6 DEF Environment, CoreDies, HostStep, LinkGone, CoreComesUp, OrphanExits,
         OrphanComesUp, CheckpointExpires, ForeignTable, ForeignRoute, Crash, DaemonRestarts,
         Reboot
<1>7. CASE UNCHANGED vars
  BY <1>7 DEF vars
<1> QED
  BY <1>1, <1>2, <1>3, <1>4, <1>5, <1>6, <1>7 DEF Next, Daemon

\* recoverRecord clears its bits in the order of the rollback.
LEMMA RecoveryOrderPreserved == FInv /\ [Next]_vars => RecoveryOrder'
<1> SUFFICES ASSUME FInv, [Next]_vars PROVE RecoveryOrder'
  OBVIOUS
<1> USE FileFacts DEF FInv, IInv, TypeOK, RecordLoaded, RecoveryOrder
<1>1. CASE Connect
  BY <1>1 DEF Connect
<1>2. CASE Execute
  BY <1>2 DEF Execute, SaveRecovery, SaveStep, BeforeApply, RecordStartedLink, Checkpoint,
         InspectStep, CheckpointNM, ApplyNft, Installed, StartCore, ApplyRoutes, ApplyResolved,
         ApplyNM, Activate
<1>3. CASE Stop
  BY <1>3 DEF Stop
<1>4. CASE Rollback
  BY <1>4 DEF Rollback, RollbackResolved, RollbackNM, RollbackLinkSave, RollbackJoin,
         RemoveRoutes, Pending, Cleaned, VerifyTable, DeleteTable, RollbackSave, StopCore,
         LinkGone, RollbackDone
<1>5. CASE Recovery
  <2>1. CASE RecoverLoad
    BY <2>1 DEF RecoverLoad
  <2>2. CASE RecoverInspect
    BY <2>2 DEF RecoverInspect
  <2>3. CASE RecoverResolved
    BY <2>3 DEF RecoverResolved, RecoverSave
  <2>4. CASE RecoverNM
    BY <2>4 DEF RecoverNM
  <2>5. CASE RecoverSave("recNMSave", "nm", "recRoutes")
    BY <2>5 DEF RecoverSave
  <2>6. CASE RemoveRoutes("recRoutes", "recRoutesSave", "recNft")
    BY <2>6 DEF RemoveRoutes, Pending, Cleaned
  <2>7. CASE RecoverSave("recRoutesSave", "routes", "recNft")
    BY <2>7 DEF RecoverSave
  <2>8. CASE VerifyTable("recNft", "recNftDelete", "recNftSave", "recRemove")
    BY <2>8 DEF VerifyTable, Pending, Cleaned
  <2>9. CASE DeleteTable("recNftDelete", "recNftSave")
    BY <2>9 DEF DeleteTable, Cleaned
  <2>10. CASE RecoverSave("recNftSave", "nft", "recRemove")
    BY <2>10 DEF RecoverSave
  <2>11. CASE RecoverDone
    BY <2>11 DEF RecoverDone
  <2> QED
    BY <1>5, <2>1, <2>2, <2>3, <2>4, <2>5, <2>6, <2>7, <2>8, <2>9, <2>10, <2>11 DEF Recovery
<1>6. CASE Environment
  BY <1>6 DEF Environment, CoreDies, HostStep, LinkGone, CoreComesUp, OrphanExits,
         OrphanComesUp, CheckpointExpires, ForeignTable, ForeignRoute, Crash, DaemonRestarts,
         Reboot
<1>7. CASE UNCHANGED vars
  BY <1>7 DEF vars
<1> QED
  BY <1>1, <1>2, <1>3, <1>4, <1>5, <1>6, <1>7 DEF Next, Daemon

\* Nothing is written that claims routes or link DNS without the table.
LEMMA TableIsKeptPreserved == FInv /\ [Next]_vars => TableIsKept'
<1> SUFFICES ASSUME FInv, [Next]_vars PROVE TableIsKept'
  OBVIOUS
<1> USE FileFacts DEF FInv, IInv, TypeOK, RollbackOrder, RecoveryOrder, Stage, KeepsTable,
       TableIsKept
<1>1. CASE Connect
  BY <1>1 DEF Connect
<1>2. CASE Execute
  <2>1. CASE SaveRecovery
    BY <2>1 DEF SaveRecovery, SaveStep
  <2>2. CASE BeforeApply
    BY <2>2 DEF BeforeApply, SaveStep
  <2>3. CASE RecordStartedLink
    BY <2>3 DEF RecordStartedLink, SaveStep
  <2>4. CASE Checkpoint
    BY <2>4 DEF Checkpoint, InspectStep
  <2>5. CASE CheckpointNM
    BY <2>5 DEF CheckpointNM
  <2>6. CASE ApplyNft
    BY <2>6 DEF ApplyNft, Installed
  <2>7. CASE StartCore
    BY <2>7 DEF StartCore
  <2>8. CASE ApplyRoutes
    BY <2>8 DEF ApplyRoutes
  <2>9. CASE ApplyResolved
    BY <2>9 DEF ApplyResolved
  <2>10. CASE ApplyNM
    BY <2>10 DEF ApplyNM
  <2>11. CASE Activate
    BY <2>11 DEF Activate
  <2> QED
    BY <1>2, <2>1, <2>2, <2>3, <2>4, <2>5, <2>6, <2>7, <2>8, <2>9, <2>10, <2>11 DEF Execute
<1>3. CASE Stop
  BY <1>3 DEF Stop
<1>4. CASE Rollback
  <2>1. CASE RollbackResolved
    BY <2>1 DEF RollbackResolved
  <2>2. CASE RollbackNM
    BY <2>2 DEF RollbackNM
  <2>3. CASE RollbackLinkSave("rbResolvedSave", "rbNM") \/ RollbackLinkSave("rbNMSave", "rbJoin")
    BY <2>3 DEF RollbackLinkSave
  <2>4. CASE RollbackJoin
    BY <2>4 DEF RollbackJoin
  <2>5. CASE RemoveRoutes("rbRoutes", "rbRoutesSave", "rbCore")
    BY <2>5 DEF RemoveRoutes, Pending, Cleaned
  <2>6. CASE VerifyTable("rbNft", "rbNftDelete", "rbNftSave", "rbRemove")
    BY <2>6 DEF VerifyTable, Pending, Cleaned
  <2>7. CASE DeleteTable("rbNftDelete", "rbNftSave")
    BY <2>7 DEF DeleteTable, Cleaned
  <2>8. CASE RollbackSave("rbRoutesSave", "rbCore") \/ RollbackSave("rbNftSave", "rbRemove")
    BY <2>8 DEF RollbackSave
  <2>9. CASE StopCore
    BY <2>9 DEF StopCore, LinkGone
  <2>10. CASE RollbackDone
    BY <2>10 DEF RollbackDone
  <2> QED
    BY <1>4, <2>1, <2>2, <2>3, <2>4, <2>5, <2>6, <2>7, <2>8, <2>9, <2>10 DEF Rollback
<1>5. CASE Recovery
  <2>1. CASE RecoverLoad
    BY <2>1 DEF RecoverLoad
  <2>2. CASE RecoverInspect
    BY <2>2 DEF RecoverInspect
  <2>3. CASE RecoverResolved
    BY <2>3 DEF RecoverResolved, RecoverSave
  <2>4. CASE RecoverNM
    BY <2>4 DEF RecoverNM
  <2>5. CASE RecoverSave("recNMSave", "nm", "recRoutes")
    BY <2>5 DEF RecoverSave
  <2>6. CASE RemoveRoutes("recRoutes", "recRoutesSave", "recNft")
    BY <2>6 DEF RemoveRoutes, Pending, Cleaned
  <2>7. CASE RecoverSave("recRoutesSave", "routes", "recNft")
    BY <2>7 DEF RecoverSave
  <2>8. CASE VerifyTable("recNft", "recNftDelete", "recNftSave", "recRemove")
    BY <2>8 DEF VerifyTable, Pending, Cleaned
  <2>9. CASE DeleteTable("recNftDelete", "recNftSave")
    BY <2>9 DEF DeleteTable, Cleaned
  <2>10. CASE RecoverSave("recNftSave", "nft", "recRemove")
    BY <2>10 DEF RecoverSave
  <2>11. CASE RecoverDone
    BY <2>11 DEF RecoverDone
  <2> QED
    BY <1>5, <2>1, <2>2, <2>3, <2>4, <2>5, <2>6, <2>7, <2>8, <2>9, <2>10, <2>11 DEF Recovery
<1>6. CASE Environment
  <2>1. CASE CoreDies
    BY <2>1 DEF CoreDies, HostStep, LinkGone
  <2>2. CASE CoreComesUp
    BY <2>2 DEF CoreComesUp, HostStep
  <2>3. CASE OrphanExits
    BY <2>3 DEF OrphanExits, HostStep, LinkGone
  <2>4. CASE OrphanComesUp
    BY <2>4 DEF OrphanComesUp, HostStep
  <2>5. CASE CheckpointExpires
    BY <2>5 DEF CheckpointExpires, HostStep
  <2>6. CASE ForeignTable
    BY <2>6 DEF ForeignTable, HostStep
  <2>7. CASE ForeignRoute
    BY <2>7 DEF ForeignRoute, HostStep
  <2>8. CASE Crash
    BY <2>8 DEF Crash, DaemonRestarts
  <2>9. CASE Reboot
    BY <2>9 DEF Reboot, DaemonRestarts
  <2> QED
    BY <1>6, <2>1, <2>2, <2>3, <2>4, <2>5, <2>6, <2>7, <2>8, <2>9 DEF Environment
<1>7. CASE UNCHANGED vars
  BY <1>7 DEF vars
<1> QED
  BY <1>1, <1>2, <1>3, <1>4, <1>5, <1>6, <1>7 DEF Next, Daemon

\* There is one link, and its owner is known.
LEMMA CoreOfTransactionPreserved == FInv /\ [Next]_vars => CoreOfTransaction'
<1> SUFFICES ASSUME FInv, [Next]_vars PROVE CoreOfTransaction'
  OBVIOUS
<1> USE DEF FInv, IInv, TypeOK, Stage, Owner, CoreOfTransaction, Started, TunLive, CoreStopped
<1>1. CASE Connect
  BY <1>1 DEF Connect
<1>2. CASE Execute
  <2>1. CASE SaveRecovery
    BY <2>1 DEF SaveRecovery, SaveStep
  <2>2. CASE BeforeApply
    BY <2>2 DEF BeforeApply, SaveStep
  <2>3. CASE RecordStartedLink
    BY <2>3 DEF RecordStartedLink, SaveStep
  <2>4. CASE Checkpoint
    BY <2>4 DEF Checkpoint, InspectStep
  <2>5. CASE CheckpointNM
    BY <2>5 DEF CheckpointNM
  <2>6. CASE ApplyNft
    BY <2>6 DEF ApplyNft, Installed
  <2>7. CASE StartCore
    BY <2>7 DEF StartCore
  <2>8. CASE ApplyRoutes
    BY <2>8 DEF ApplyRoutes
  <2>9. CASE ApplyResolved
    BY <2>9 DEF ApplyResolved
  <2>10. CASE ApplyNM
    BY <2>10 DEF ApplyNM
  <2>11. CASE Activate
    BY <2>11 DEF Activate
  <2> QED
    BY <1>2, <2>1, <2>2, <2>3, <2>4, <2>5, <2>6, <2>7, <2>8, <2>9, <2>10, <2>11 DEF Execute
<1>3. CASE Stop
  BY <1>3 DEF Stop
<1>4. CASE Rollback
  <2>1. CASE RollbackResolved
    BY <2>1 DEF RollbackResolved
  <2>2. CASE RollbackNM
    BY <2>2 DEF RollbackNM
  <2>3. CASE RollbackLinkSave("rbResolvedSave", "rbNM") \/ RollbackLinkSave("rbNMSave", "rbJoin")
    BY <2>3 DEF RollbackLinkSave
  <2>4. CASE RollbackJoin
    BY <2>4 DEF RollbackJoin
  <2>5. CASE RemoveRoutes("rbRoutes", "rbRoutesSave", "rbCore")
    BY <2>5 DEF RemoveRoutes, Pending, Cleaned
  <2>6. CASE VerifyTable("rbNft", "rbNftDelete", "rbNftSave", "rbRemove")
    BY <2>6 DEF VerifyTable, Pending, Cleaned
  <2>7. CASE DeleteTable("rbNftDelete", "rbNftSave")
    BY <2>7 DEF DeleteTable, Cleaned
  <2>8. CASE RollbackSave("rbRoutesSave", "rbCore") \/ RollbackSave("rbNftSave", "rbRemove")
    BY <2>8 DEF RollbackSave
  <2>9. CASE StopCore
    BY <2>9 DEF StopCore, LinkGone
  <2>10. CASE RollbackDone
    BY <2>10 DEF RollbackDone
  <2> QED
    BY <1>4, <2>1, <2>2, <2>3, <2>4, <2>5, <2>6, <2>7, <2>8, <2>9, <2>10 DEF Rollback
<1>5. CASE Recovery
  <2>1. CASE RecoverLoad
    BY <2>1 DEF RecoverLoad
  <2>2. CASE RecoverInspect
    BY <2>2 DEF RecoverInspect
  <2>3. CASE RecoverResolved
    BY <2>3 DEF RecoverResolved, RecoverSave
  <2>4. CASE RecoverNM
    BY <2>4 DEF RecoverNM
  <2>5. CASE RecoverSave("recNMSave", "nm", "recRoutes")
    BY <2>5 DEF RecoverSave
  <2>6. CASE RemoveRoutes("recRoutes", "recRoutesSave", "recNft")
    BY <2>6 DEF RemoveRoutes, Pending, Cleaned
  <2>7. CASE RecoverSave("recRoutesSave", "routes", "recNft")
    BY <2>7 DEF RecoverSave
  <2>8. CASE VerifyTable("recNft", "recNftDelete", "recNftSave", "recRemove")
    BY <2>8 DEF VerifyTable, Pending, Cleaned
  <2>9. CASE DeleteTable("recNftDelete", "recNftSave")
    BY <2>9 DEF DeleteTable, Cleaned
  <2>10. CASE RecoverSave("recNftSave", "nft", "recRemove")
    BY <2>10 DEF RecoverSave
  <2>11. CASE RecoverDone
    BY <2>11 DEF RecoverDone
  <2> QED
    BY <1>5, <2>1, <2>2, <2>3, <2>4, <2>5, <2>6, <2>7, <2>8, <2>9, <2>10, <2>11 DEF Recovery
<1>6. CASE Environment
  <2>1. CASE CoreDies
    BY <2>1 DEF CoreDies, HostStep, LinkGone
  <2>2. CASE CoreComesUp
    BY <2>2 DEF CoreComesUp, HostStep
  <2>3. CASE OrphanExits
    BY <2>3 DEF OrphanExits, HostStep, LinkGone
  <2>4. CASE OrphanComesUp
    BY <2>4 DEF OrphanComesUp, HostStep
  <2>5. CASE CheckpointExpires
    BY <2>5 DEF CheckpointExpires, HostStep
  <2>6. CASE ForeignTable
    BY <2>6 DEF ForeignTable, HostStep
  <2>7. CASE ForeignRoute
    BY <2>7 DEF ForeignRoute, HostStep
  <2>8. CASE Crash
    BY <2>8 DEF Crash, DaemonRestarts
  <2>9. CASE Reboot
    BY <2>9 DEF Reboot, DaemonRestarts
  <2> QED
    BY <1>6, <2>1, <2>2, <2>3, <2>4, <2>5, <2>6, <2>7, <2>8, <2>9 DEF Environment
<1>7. CASE UNCHANGED vars
  BY <1>7 DEF vars
<1> QED
  BY <1>1, <1>2, <1>3, <1>4, <1>5, <1>6, <1>7 DEF Next, Daemon

\* What Execute adds stays while Core lives.
LEMMA SteeredPreserved == FInv /\ [Next]_vars => Steered'
<1> SUFFICES ASSUME FInv, [Next]_vars PROVE Steered'
  OBVIOUS
<1> USE OrderFacts DEF FInv, IInv, TypeOK, CoreOfTransaction, Started, TunLive, Steered
<1>1. CASE Connect
  BY <1>1 DEF Connect
<1>2. CASE Execute
  <2>1. CASE SaveRecovery
    BY <2>1 DEF SaveRecovery, SaveStep
  <2>2. CASE BeforeApply
    BY <2>2 DEF BeforeApply, SaveStep
  <2>3. CASE RecordStartedLink
    BY <2>3 DEF RecordStartedLink, SaveStep
  <2>4. CASE Checkpoint
    BY <2>4 DEF Checkpoint, InspectStep
  <2>5. CASE CheckpointNM
    BY <2>5 DEF CheckpointNM
  <2>6. CASE ApplyNft
    BY <2>6 DEF ApplyNft, Installed
  <2>7. CASE StartCore
    BY <2>7 DEF StartCore
  <2>8. CASE ApplyRoutes
    <3>1. CASE cursor = 5
      <4>1. pc' # "routesSave" \/ core' # "running" \/ routes' = RouteObjects
        BY <2>8, <3>1, ApplyFacts DEF ApplyRoutes
      <4> QED
        BY <2>8, <3>1, <4>1 DEF ApplyRoutes
    <3>2. CASE cursor \in 1..4 /\ pc' = "applyRoutes"
      <4>1. routes' = routes \cup {ApplyOrder[cursor]} /\ cursor' = cursor + 1
        BY <2>8, <3>2 DEF ApplyRoutes
      <4> QED
        BY <2>8, <3>2, <4>1 DEF ApplyRoutes
    <3>3. CASE pc' = "rbResolved"
      BY <3>3
    <3> QED
      BY <2>8, <3>1, <3>2, <3>3 DEF ApplyRoutes
  <2>9. CASE ApplyResolved
    BY <2>9 DEF ApplyResolved
  <2>10. CASE ApplyNM
    BY <2>10 DEF ApplyNM
  <2>11. CASE Activate
    BY <2>11 DEF Activate
  <2> QED
    BY <1>2, <2>1, <2>2, <2>3, <2>4, <2>5, <2>6, <2>7, <2>8, <2>9, <2>10, <2>11 DEF Execute
<1>3. CASE Stop
  BY <1>3 DEF Stop
<1>4. CASE Rollback
  <2>1. CASE RollbackResolved
    BY <2>1 DEF RollbackResolved
  <2>2. CASE RollbackNM
    BY <2>2 DEF RollbackNM
  <2>3. CASE RollbackLinkSave("rbResolvedSave", "rbNM") \/ RollbackLinkSave("rbNMSave", "rbJoin")
    BY <2>3 DEF RollbackLinkSave
  <2>4. CASE RollbackJoin
    BY <2>4 DEF RollbackJoin
  <2>5. CASE RemoveRoutes("rbRoutes", "rbRoutesSave", "rbCore")
    BY <2>5 DEF RemoveRoutes, Pending, Cleaned
  <2>6. CASE VerifyTable("rbNft", "rbNftDelete", "rbNftSave", "rbRemove")
    BY <2>6 DEF VerifyTable, Pending, Cleaned
  <2>7. CASE DeleteTable("rbNftDelete", "rbNftSave")
    BY <2>7 DEF DeleteTable, Cleaned
  <2>8. CASE RollbackSave("rbRoutesSave", "rbCore") \/ RollbackSave("rbNftSave", "rbRemove")
    BY <2>8 DEF RollbackSave
  <2>9. CASE StopCore
    BY <2>9 DEF StopCore, LinkGone
  <2>10. CASE RollbackDone
    BY <2>10 DEF RollbackDone
  <2> QED
    BY <1>4, <2>1, <2>2, <2>3, <2>4, <2>5, <2>6, <2>7, <2>8, <2>9, <2>10 DEF Rollback
<1>5. CASE Recovery
  <2>1. CASE RecoverLoad
    BY <2>1 DEF RecoverLoad
  <2>2. CASE RecoverInspect
    BY <2>2 DEF RecoverInspect
  <2>3. CASE RecoverResolved
    BY <2>3 DEF RecoverResolved, RecoverSave
  <2>4. CASE RecoverNM
    BY <2>4 DEF RecoverNM
  <2>5. CASE RecoverSave("recNMSave", "nm", "recRoutes")
    BY <2>5 DEF RecoverSave
  <2>6. CASE RemoveRoutes("recRoutes", "recRoutesSave", "recNft")
    BY <2>6 DEF RemoveRoutes, Pending, Cleaned
  <2>7. CASE RecoverSave("recRoutesSave", "routes", "recNft")
    BY <2>7 DEF RecoverSave
  <2>8. CASE VerifyTable("recNft", "recNftDelete", "recNftSave", "recRemove")
    BY <2>8 DEF VerifyTable, Pending, Cleaned
  <2>9. CASE DeleteTable("recNftDelete", "recNftSave")
    BY <2>9 DEF DeleteTable, Cleaned
  <2>10. CASE RecoverSave("recNftSave", "nft", "recRemove")
    BY <2>10 DEF RecoverSave
  <2>11. CASE RecoverDone
    BY <2>11 DEF RecoverDone
  <2> QED
    BY <1>5, <2>1, <2>2, <2>3, <2>4, <2>5, <2>6, <2>7, <2>8, <2>9, <2>10, <2>11 DEF Recovery
<1>6. CASE Environment
  <2>1. CASE CoreDies
    BY <2>1 DEF CoreDies, HostStep, LinkGone
  <2>2. CASE CoreComesUp
    BY <2>2 DEF CoreComesUp, HostStep
  <2>3. CASE OrphanExits
    BY <2>3 DEF OrphanExits, HostStep, LinkGone
  <2>4. CASE OrphanComesUp
    BY <2>4 DEF OrphanComesUp, HostStep
  <2>5. CASE CheckpointExpires
    BY <2>5 DEF CheckpointExpires, HostStep
  <2>6. CASE ForeignTable
    BY <2>6 DEF ForeignTable, HostStep
  <2>7. CASE ForeignRoute
    BY <2>7 DEF ForeignRoute, HostStep
  <2>8. CASE Crash
    BY <2>8 DEF Crash, DaemonRestarts
  <2>9. CASE Reboot
    BY <2>9 DEF Reboot, DaemonRestarts
  <2> QED
    BY <1>6, <2>1, <2>2, <2>3, <2>4, <2>5, <2>6, <2>7, <2>8, <2>9 DEF Environment
<1>7. CASE UNCHANGED vars
  BY <1>7 DEF vars
<1> QED
  BY <1>1, <1>2, <1>3, <1>4, <1>5, <1>6, <1>7 DEF Next, Daemon

\* Execute ends with everything installed and recorded.
LEMMA ActivePreserved == FInv /\ [Next]_vars => ActiveIsComplete'
<1> SUFFICES ASSUME FInv, [Next]_vars PROVE ActiveIsComplete'
  OBVIOUS
<1> USE FileFacts DEF FInv, IInv, TypeOK, Owner, Stage, CoreOfTransaction, Steered,
       ActiveIsComplete, TunLive
<1>1. CASE Connect
  BY <1>1 DEF Connect
<1>2. CASE Execute
  <2>1. CASE SaveRecovery
    BY <2>1 DEF SaveRecovery, SaveStep
  <2>2. CASE BeforeApply
    BY <2>2 DEF BeforeApply, SaveStep
  <2>3. CASE RecordStartedLink
    BY <2>3 DEF RecordStartedLink, SaveStep
  <2>4. CASE Checkpoint
    BY <2>4 DEF Checkpoint, InspectStep
  <2>5. CASE CheckpointNM
    BY <2>5 DEF CheckpointNM
  <2>6. CASE ApplyNft
    BY <2>6 DEF ApplyNft, Installed
  <2>7. CASE StartCore
    BY <2>7 DEF StartCore
  <2>8. CASE ApplyRoutes
    BY <2>8 DEF ApplyRoutes
  <2>9. CASE ApplyResolved
    BY <2>9 DEF ApplyResolved
  <2>10. CASE ApplyNM
    BY <2>10 DEF ApplyNM
  <2>11. CASE Activate
    BY <2>11 DEF Activate
  <2> QED
    BY <1>2, <2>1, <2>2, <2>3, <2>4, <2>5, <2>6, <2>7, <2>8, <2>9, <2>10, <2>11 DEF Execute
<1>3. CASE Stop
  BY <1>3 DEF Stop
<1>4. CASE Rollback
  <2>1. CASE RollbackResolved
    BY <2>1 DEF RollbackResolved
  <2>2. CASE RollbackNM
    BY <2>2 DEF RollbackNM
  <2>3. CASE RollbackLinkSave("rbResolvedSave", "rbNM") \/ RollbackLinkSave("rbNMSave", "rbJoin")
    BY <2>3 DEF RollbackLinkSave
  <2>4. CASE RollbackJoin
    BY <2>4 DEF RollbackJoin
  <2>5. CASE RemoveRoutes("rbRoutes", "rbRoutesSave", "rbCore")
    BY <2>5 DEF RemoveRoutes, Pending, Cleaned
  <2>6. CASE VerifyTable("rbNft", "rbNftDelete", "rbNftSave", "rbRemove")
    BY <2>6 DEF VerifyTable, Pending, Cleaned
  <2>7. CASE DeleteTable("rbNftDelete", "rbNftSave")
    BY <2>7 DEF DeleteTable, Cleaned
  <2>8. CASE RollbackSave("rbRoutesSave", "rbCore") \/ RollbackSave("rbNftSave", "rbRemove")
    BY <2>8 DEF RollbackSave
  <2>9. CASE StopCore
    BY <2>9 DEF StopCore, LinkGone
  <2>10. CASE RollbackDone
    BY <2>10 DEF RollbackDone
  <2> QED
    BY <1>4, <2>1, <2>2, <2>3, <2>4, <2>5, <2>6, <2>7, <2>8, <2>9, <2>10 DEF Rollback
<1>5. CASE Recovery
  <2>1. CASE RecoverLoad
    BY <2>1 DEF RecoverLoad
  <2>2. CASE RecoverInspect
    BY <2>2 DEF RecoverInspect
  <2>3. CASE RecoverResolved
    BY <2>3 DEF RecoverResolved, RecoverSave
  <2>4. CASE RecoverNM
    BY <2>4 DEF RecoverNM
  <2>5. CASE RecoverSave("recNMSave", "nm", "recRoutes")
    BY <2>5 DEF RecoverSave
  <2>6. CASE RemoveRoutes("recRoutes", "recRoutesSave", "recNft")
    BY <2>6 DEF RemoveRoutes, Pending, Cleaned
  <2>7. CASE RecoverSave("recRoutesSave", "routes", "recNft")
    BY <2>7 DEF RecoverSave
  <2>8. CASE VerifyTable("recNft", "recNftDelete", "recNftSave", "recRemove")
    BY <2>8 DEF VerifyTable, Pending, Cleaned
  <2>9. CASE DeleteTable("recNftDelete", "recNftSave")
    BY <2>9 DEF DeleteTable, Cleaned
  <2>10. CASE RecoverSave("recNftSave", "nft", "recRemove")
    BY <2>10 DEF RecoverSave
  <2>11. CASE RecoverDone
    BY <2>11 DEF RecoverDone
  <2> QED
    BY <1>5, <2>1, <2>2, <2>3, <2>4, <2>5, <2>6, <2>7, <2>8, <2>9, <2>10, <2>11 DEF Recovery
<1>6. CASE Environment
  <2>1. CASE CoreDies
    BY <2>1 DEF CoreDies, HostStep, LinkGone
  <2>2. CASE CoreComesUp
    BY <2>2 DEF CoreComesUp, HostStep
  <2>3. CASE OrphanExits
    BY <2>3 DEF OrphanExits, HostStep, LinkGone
  <2>4. CASE OrphanComesUp
    BY <2>4 DEF OrphanComesUp, HostStep
  <2>5. CASE CheckpointExpires
    BY <2>5 DEF CheckpointExpires, HostStep
  <2>6. CASE ForeignTable
    BY <2>6 DEF ForeignTable, HostStep
  <2>7. CASE ForeignRoute
    BY <2>7 DEF ForeignRoute, HostStep
  <2>8. CASE Crash
    BY <2>8 DEF Crash, DaemonRestarts
  <2>9. CASE Reboot
    BY <2>9 DEF Reboot, DaemonRestarts
  <2> QED
    BY <1>6, <2>1, <2>2, <2>3, <2>4, <2>5, <2>6, <2>7, <2>8, <2>9 DEF Environment
<1>7. CASE UNCHANGED vars
  BY <1>7 DEF vars
<1> QED
  BY <1>1, <1>2, <1>3, <1>4, <1>5, <1>6, <1>7 DEF Next, Daemon

\* The two halves of the invariant together.
LEMMA FaithfulInvariant == Spec => []FInv
<1>1. Init => FInv
  <2> SUFFICES ASSUME Init PROVE FInv
    OBVIOUS
  <2>1. IInv
    BY InitInvariant
  <2> QED
    BY <2>1, FileFacts DEF Init, FInv, TableIsKept, KeepsTable, RecoveryOrder, Owner, Stage,
      CoreOfTransaction, Started, Steered, ActiveIsComplete
<1>2. FInv /\ [Next]_vars => FInv'
  <2>1. FInv /\ [Next]_vars => IInv'
    BY InvariantPreserved DEF FInv
  <2> QED
    BY <2>1, OwnerPreserved, StagePreserved, RecoveryOrderPreserved, TableIsKeptPreserved,
       CoreOfTransactionPreserved, SteeredPreserved, ActivePreserved DEF FInv
<1> QED
  BY <1>1, <1>2, PTL DEF Spec

\* What may be on disk after a power loss never claims routes or link DNS without
\* the table, and a connection that the service calls active is installed and
\* recorded completely (Execute, saveRecovery, recoverRecord).
THEOREM RecordFaithful == Spec => []RecordIsFaithful
<1>1. FInv => RecordIsFaithful
  BY DEF FInv, RecordIsFaithful, TableIsKept, KeepsTable, RecordKeepsTableLast
<1> QED
  BY FaithfulInvariant, <1>1, PTL
=============================================================================

---------------------- MODULE WindowsRuntimeHost_proofs ----------------------
(***************************************************************************)
(* Proofs about WindowsRuntimeHost for any number of faults, under the     *)
(* assumption that a write reported as failed did not replace the journal. *)
(***************************************************************************)
EXTENDS WindowsRuntimeHost, TLAPS

\* Stages in which the Core or the adapter may hold something of the session.
Active == {"core_started", "network_applied", "verified", "committed",
           "rolling_back"}

\* The snapshot on disk is the user's network.
SnapshotIsUsers ==
  disk.stage \in Active \cup {"snapshotted", "recovered"} => disk.snapshot = "user"

\* What the session holds is on disk.
ActiveIsOnDisk ==
  network # "user" \/ core = "running" => disk.stage \in Active \cup {"invalid"}

\* The running host knows what is on disk.
MemoryIsDisk ==
  up => /\ journal.stage = disk.stage
        /\ disk.stage # "clean" => journal.snapshot = disk.snapshot

\* The stage each step of a connect and of a rollback finds.
StepStage ==
  /\ pc = "recordCore" => disk.stage = "snapshotted"
  /\ pc \in {"startCore", "recordNetwork"} => disk.stage = "core_started"
  /\ pc \in {"verify", "proveDpi", "recordVerified"} =>
       disk.stage = "network_applied"
  /\ pc = "recordCommitted" => disk.stage = "verified"
  /\ pc \in {"activate", "finish"} => disk.stage = "committed"
  /\ pc = "rollStop" /\ ~begin_error => disk.stage \in {"clean", "rolling_back"}
  /\ pc \in {"rollRestore", "rollComplete"} =>
       disk.stage \in {"clean", "rolling_back"}
  /\ pc = "rollClean" => disk.stage = "recovered"
  /\ pc = "explicitOff" /\ initialized => disk.stage = "clean"

\* What has stopped by each step.
StepStopped ==
  /\ pc \in {"rollRestore", "rollComplete", "rollClean"} =>
       core = "stopped" /\ ~winws
  /\ pc = "rollComplete" => network = "user"
  /\ pc = "explicitOff" => core = "stopped"
  /\ pc \in ConnectSteps \ {"prepare", "begin", "recordCore", "startCore"} =>
       core = "running"

\* The phases a handler can be in.
StepPhase ==
  /\ pc \in (ConnectSteps \ {"finish"}) \cup {"restage", "explicitOff"} =>
       phase \notin {"running", "recoveryRequired"}
  /\ pc \in ConnectSteps \cup RollbackSteps => initialized
  /\ pc = "finish" => phase = "running" /\ core_egress_validated
  /\ replacing /\ pc \in ConnectSteps => ~requires_bound_connect
  /\ pc = "idle" => ~replacing

\* Between sessions.
RestIsClean ==
  /\ up /\ initialized /\ phase \notin {"running", "recoveryRequired"}
        /\ pc \in {"idle", "prepare", "begin", "restage", "explicitOff"} =>
       disk.stage = "clean" /\ ~winws
  /\ up /\ ~initialized =>
       phase = "artifactReady" /\ core = "stopped" /\ ~winws

\* A session.
RunningIsCommitted ==
  /\ up /\ phase = "running" /\ pc = "idle" =>
       disk.stage = "committed" /\ core = "running"
  /\ up /\ core_egress_validated => phase = "running"
  /\ ~up => pc = "idle" /\ core = "stopped" /\ ~winws

\* The guard's state is a fact about the filters.
GuardIsTrue ==
  /\ guard = "off" => wfp = "off"
  /\ replacing => wfp = "armed"

IInv ==
  /\ TypeOK /\ SnapshotIsUsers /\ ActiveIsOnDisk /\ MemoryIsDisk
  /\ StepStage /\ StepStopped /\ StepPhase
  /\ RestIsClean /\ RunningIsCommitted /\ GuardIsTrue

\* TypeOK in parts small enough for the provers.
JournalTypes == disk \in Journals /\ journal \in Journals

ValueTypes ==
  /\ network \in {"user", "vpn"}
  /\ wfp \in {"off", "armed"}
  /\ guard \in {"off", "armed", "incomplete"}
  /\ core \in {"stopped", "running"}
  /\ phase \in {"artifactReady", "initialized", "configStaged", "running",
                "recoveryRequired"}

HostFlagTypes ==
  /\ winws \in BOOLEAN /\ up \in BOOLEAN /\ initialized \in BOOLEAN
  /\ begin_error \in BOOLEAN /\ replacing \in BOOLEAN

ProfileFlagTypes ==
  /\ profile_staged \in BOOLEAN /\ requires_bound_connect \in BOOLEAN
  /\ local_dpi_requested \in BOOLEAN /\ local_dpi_preparation \in BOOLEAN
  /\ core_egress_validated \in BOOLEAN

StepTypes == pc \in Steps /\ after \in Continuations

FaultTypes == faults \in 0..MaxFaults

USE DEF durableVars, childVars, profileVars, stateVars, callVars

\* What a caller of a rollback is left with.
LEMMA SettledFacts ==
  ASSUME NEW ok \in BOOLEAN, NEW staged \in BOOLEAN, TypeOK, Settled(ok, staged)
  PROVE  /\ pc' \in {"exit", "explicitOff", "restage", "idle"}
         /\ ~ok => pc' \in {"exit", "idle"} /\ phase' = "recoveryRequired"
         /\ ok => phase' \in {"configStaged", "initialized"}
         /\ core_egress_validated' = FALSE
         /\ profile_staged' \in BOOLEAN
         /\ replacing' \in BOOLEAN
         /\ replacing' => replacing
         /\ pc' = "idle" => ~replacing'
         /\ UNCHANGED <<up, initialized, requires_bound_connect,
                        local_dpi_requested, guard, after, begin_error>>
<1>1. CASE replacing
  BY <1>1 DEF Settled, TypeOK
<1>2. CASE ~replacing
  BY <1>2 DEF Settled, TypeOK
<1> QED BY <1>1, <1>2

\* A rollback that fails after having touched nothing on disk ends in
\* recovery_required, where everything still to be undone is on record.
LEMMA RollbackFails ==
  ASSUME MaxFaults \in Nat, IInv, up, pc \in RollbackSteps,
         NEW staged \in BOOLEAN, Settled(FALSE, staged),
         UNCHANGED <<disk, journal, wfp>>,
         core' \in {core, "stopped"}, network' \in {"user", "vpn"},
         network' # "user" => disk.stage \in Active \cup {"invalid"},
         winws' \in BOOLEAN, local_dpi_preparation' \in BOOLEAN,
         faults' \in 0..MaxFaults
  PROVE  IInv'
<1>1. /\ pc' \in {"exit", "idle"} /\ phase' = "recoveryRequired"
      /\ core_egress_validated' = FALSE
      /\ profile_staged' \in BOOLEAN /\ replacing' \in BOOLEAN
      /\ replacing' => replacing
      /\ pc' = "idle" => ~replacing'
      /\ UNCHANGED <<up, initialized, requires_bound_connect,
                     local_dpi_requested, guard, after, begin_error>>
  BY SettledFacts DEF IInv
<1>2. initialized
  BY DEF IInv, StepPhase
<1>3. TypeOK'
  BY <1>1 DEF IInv, TypeOK, Steps, ConnectSteps, RollbackSteps
<1>4. SnapshotIsUsers' /\ ActiveIsOnDisk' /\ MemoryIsDisk'
  BY <1>1 DEF IInv, TypeOK, SnapshotIsUsers, ActiveIsOnDisk, MemoryIsDisk
<1>5. StepStage' /\ StepStopped' /\ StepPhase'
  BY <1>1 DEF StepStage, StepStopped, StepPhase, ConnectSteps, RollbackSteps
<1>6. RestIsClean' /\ RunningIsCommitted' /\ GuardIsTrue'
  BY <1>1, <1>2 DEF IInv, RestIsClean, RunningIsCommitted, GuardIsTrue
<1> QED BY <1>3, <1>4, <1>5, <1>6 DEF IInv

\* A rollback that ends with a clean journal and nothing left of the session.
LEMMA RollbackEnds ==
  ASSUME MaxFaults \in Nat, IInv, up, pc \in RollbackSteps,
         Settled(TRUE, profile_staged),
         disk' \in Journals, journal' \in Journals,
         disk'.stage = "clean", journal'.stage = "clean",
         network = "user", core = "stopped", ~winws,
         UNCHANGED <<network, wfp, core, winws, local_dpi_preparation, faults>>
  PROVE  IInv'
<1>1. /\ pc' \in {"exit", "explicitOff", "restage", "idle"}
      /\ phase' \in {"configStaged", "initialized"}
      /\ core_egress_validated' = FALSE
      /\ profile_staged' \in BOOLEAN /\ replacing' \in BOOLEAN
      /\ replacing' => replacing
      /\ pc' = "idle" => ~replacing'
      /\ UNCHANGED <<up, initialized, requires_bound_connect,
                     local_dpi_requested, guard, after, begin_error>>
  BY SettledFacts DEF IInv, TypeOK
<1>2. initialized
  BY DEF IInv, StepPhase
<1>3. TypeOK'
  <2>1. StepTypes' /\ FaultTypes'
    BY <1>1 DEF IInv, TypeOK, StepTypes, FaultTypes, Steps
  <2>2. JournalTypes' /\ ValueTypes'
    BY <1>1 DEF IInv, TypeOK, JournalTypes, ValueTypes
  <2>3. HostFlagTypes' /\ ProfileFlagTypes'
    BY <1>1 DEF IInv, TypeOK, HostFlagTypes, ProfileFlagTypes
  <2> QED BY <2>1, <2>2, <2>3 DEF TypeOK, JournalTypes, ValueTypes,
         HostFlagTypes, ProfileFlagTypes, StepTypes, FaultTypes
<1>4. SnapshotIsUsers' /\ ActiveIsOnDisk' /\ MemoryIsDisk'
  BY <1>1 DEF IInv, TypeOK, SnapshotIsUsers, ActiveIsOnDisk, MemoryIsDisk, Active
<1>5. StepStage' /\ StepStopped' /\ StepPhase'
  BY <1>1, <1>2 DEF StepStage, StepStopped, StepPhase, ConnectSteps, RollbackSteps
<1>6. RestIsClean' /\ RunningIsCommitted' /\ GuardIsTrue'
  BY <1>1, <1>2 DEF IInv, RestIsClean, RunningIsCommitted, GuardIsTrue
<1> QED BY <1>3, <1>4, <1>5, <1>6 DEF IInv

\* core_->Stop() and the DPI clean-up go on to the restore, or report failure.
LEMMA StopRuntimeKeeps ==
  ASSUME MaxFaults \in Nat, IInv, StopRuntime PROVE IInv'
<1>1. /\ up /\ pc = "rollStop" /\ pc \in RollbackSteps
      /\ UNCHANGED <<disk, journal, wfp>>
  BY DEF StopRuntime, RollbackSteps
<1>2. /\ core' \in {core, "stopped"} /\ network' \in {network, "user"}
      /\ winws' \in BOOLEAN /\ local_dpi_preparation' \in BOOLEAN
  BY DEF IInv, TypeOK, StopRuntime
<1>3. faults' \in 0..MaxFaults
  <2>1. UNCHANGED faults \/ Fault
    BY DEF StopRuntime
  <2> QED BY <2>1 DEF IInv, TypeOK, Fault
<1>4. /\ network' \in {"user", "vpn"}
      /\ network' # "user" => disk.stage \in Active \cup {"invalid"}
  BY <1>2 DEF IInv, TypeOK, ActiveIsOnDisk
<1>5. ASSUME NEW staged \in BOOLEAN, Settled(FALSE, staged) PROVE IInv'
  BY <1>1, <1>2, <1>3, <1>4, <1>5, RollbackFails
<1>6. ASSUME NEW rewritten \in BOOLEAN, ~begin_error, core' = "stopped",
             winws' = FALSE, pc' = "rollRestore",
             profile_staged' = (profile_staged /\ rewritten),
             UNCHANGED <<up, guard, stateVars, requires_bound_connect,
                         local_dpi_requested, callVars>>
      PROVE  IInv'
  <2>1. TypeOK'
    BY <1>1, <1>2, <1>3, <1>4, <1>6
    DEF IInv, TypeOK, Steps, RollbackSteps
  <2>2. SnapshotIsUsers' /\ ActiveIsOnDisk' /\ MemoryIsDisk'
    BY <1>1, <1>4, <1>6
    DEF IInv, SnapshotIsUsers, ActiveIsOnDisk, MemoryIsDisk
  <2>3. StepStage' /\ StepStopped' /\ StepPhase'
    BY <1>1, <1>6
    DEF IInv, StepStage, StepStopped, StepPhase, ConnectSteps, RollbackSteps
  <2>4. RestIsClean' /\ RunningIsCommitted' /\ GuardIsTrue'
    BY <1>1, <1>6
    DEF IInv, StepPhase, RestIsClean, RunningIsCommitted, GuardIsTrue
  <2> QED BY <2>1, <2>2, <2>3, <2>4 DEF IInv
<1>7. \/ \E staged \in BOOLEAN : Settled(FALSE, staged)
      \/ \E rewritten \in BOOLEAN :
           /\ ~begin_error /\ core' = "stopped" /\ winws' = FALSE
           /\ pc' = "rollRestore"
           /\ profile_staged' = (profile_staged /\ rewritten)
           /\ UNCHANGED <<up, guard, stateVars, requires_bound_connect,
                          local_dpi_requested, callVars>>
  <2>1. profile_staged \in BOOLEAN
    BY DEF IInv, TypeOK
  <2>2. ASSUME NEW rewritten \in BOOLEAN
        PROVE  (profile_staged /\ rewritten) \in BOOLEAN
    OBVIOUS
  <2> QED BY <2>1, <2>2 DEF StopRuntime
<1> QED BY <1>5, <1>6, <1>7

\* RestoreNetworkState either puts the user's network back or reports failure.
LEMMA RestoreNetworkStateKeeps ==
  ASSUME MaxFaults \in Nat, IInv, RestoreNetworkState PROVE IInv'
<1>1. /\ up /\ pc = "rollRestore" /\ pc \in RollbackSteps
      /\ UNCHANGED <<disk, wfp, journal, core, winws, local_dpi_preparation>>
      /\ disk.stage \in {"clean", "rolling_back"}
      /\ journal.stage = disk.stage
      /\ core = "stopped" /\ ~winws
  BY DEF IInv, StepStage, StepStopped, MemoryIsDisk, RestoreNetworkState,
         RollbackSteps
<1>2. CASE /\ network' = IF journal.stage = "clean" THEN network ELSE journal.snapshot
           /\ pc' = "rollComplete"
           /\ UNCHANGED <<up, guard, stateVars, profileVars, callVars, faults>>
  <2>1. network' = "user"
    BY <1>1, <1>2 DEF IInv, MemoryIsDisk, SnapshotIsUsers, ActiveIsOnDisk, Active
  <2>2. TypeOK'
    BY <1>1, <1>2, <2>1 DEF IInv, TypeOK, Steps, RollbackSteps
  <2>3. SnapshotIsUsers' /\ ActiveIsOnDisk' /\ MemoryIsDisk'
    BY <1>1, <1>2, <2>1
    DEF IInv, SnapshotIsUsers, ActiveIsOnDisk, MemoryIsDisk
  <2>4. StepStage' /\ StepStopped' /\ StepPhase'
    BY <1>1, <1>2, <2>1
    DEF IInv, StepStage, StepStopped, StepPhase, ConnectSteps, RollbackSteps
  <2>5. RestIsClean' /\ RunningIsCommitted' /\ GuardIsTrue'
    BY <1>1, <1>2
    DEF IInv, StepPhase, RestIsClean, RunningIsCommitted, GuardIsTrue
  <2> QED BY <2>2, <2>3, <2>4, <2>5 DEF IInv
<1>3. CASE /\ journal.stage # "clean"
           /\ Fault
           /\ network' \in {"user", "vpn"}
           /\ Settled(FALSE, profile_staged)
  <2>1. faults' \in 0..MaxFaults
    BY <1>3 DEF IInv, TypeOK, Fault
  <2>2. /\ core' \in {core, "stopped"} /\ winws' \in BOOLEAN
        /\ local_dpi_preparation' \in BOOLEAN /\ profile_staged \in BOOLEAN
        /\ disk.stage \in Active \cup {"invalid"}
    BY <1>1, <1>3 DEF IInv, TypeOK, Active
  <2> QED BY <1>1, <1>3, <2>1, <2>2, RollbackFails
<1> QED BY <1>2, <1>3 DEF RestoreNetworkState

\* CompleteRollback's first write, or its return on a clean journal.
LEMMA CompleteRollbackKeeps ==
  ASSUME MaxFaults \in Nat, IInv, CompleteRollback PROVE IInv'
<1>1. /\ up /\ pc = "rollComplete" /\ pc \in RollbackSteps
      /\ UNCHANGED <<network, wfp, core, winws, local_dpi_preparation>>
      /\ journal.stage = disk.stage
      /\ network = "user" /\ core = "stopped" /\ ~winws
      /\ disk \in Journals /\ journal \in Journals
  BY DEF IInv, TypeOK, StepStopped, MemoryIsDisk, CompleteRollback, RollbackSteps
<1>2. CASE /\ journal.stage = "clean"
           /\ Settled(TRUE, profile_staged)
           /\ UNCHANGED <<disk, journal, faults>>
  BY <1>1, <1>2, RollbackEnds
<1>3. CASE /\ journal.stage = "rolling_back"
           /\ Written(AtStage("recovered"))
           /\ pc' = "rollClean"
           /\ UNCHANGED <<up, guard, stateVars, profileVars, callVars>>
  <2>1. /\ disk' = journal' /\ journal' \in Journals
        /\ journal'.stage = "recovered" /\ journal'.snapshot = disk.snapshot
        /\ UNCHANGED faults
    BY <1>1, <1>3
    DEF IInv, MemoryIsDisk, Written, AtStage, Journals, Stages
  <2>2. TypeOK'
    BY <1>1, <1>3, <2>1 DEF IInv, TypeOK, Steps, RollbackSteps
  <2>3. SnapshotIsUsers' /\ ActiveIsOnDisk' /\ MemoryIsDisk'
    BY <1>1, <1>3, <2>1
    DEF IInv, SnapshotIsUsers, ActiveIsOnDisk, MemoryIsDisk, Active
  <2>4. StepStage' /\ StepStopped' /\ StepPhase'
    BY <1>1, <1>3, <2>1
    DEF IInv, StepStage, StepStopped, StepPhase, ConnectSteps, RollbackSteps
  <2>5. RestIsClean' /\ RunningIsCommitted' /\ GuardIsTrue'
    BY <1>1, <1>3
    DEF IInv, StepPhase, RestIsClean, RunningIsCommitted, GuardIsTrue
  <2> QED BY <2>2, <2>3, <2>4, <2>5 DEF IInv
<1>4. CASE /\ WriteFailed
           /\ Settled(FALSE, profile_staged)
  <2>1. UNCHANGED <<disk, journal>> /\ faults' \in 0..MaxFaults
    BY <1>4 DEF IInv, TypeOK, WriteFailed, Fault
  <2>2. /\ core' \in {core, "stopped"} /\ winws' \in BOOLEAN
        /\ local_dpi_preparation' \in BOOLEAN /\ profile_staged \in BOOLEAN
        /\ network' = "user"
    BY <1>1 DEF IInv, TypeOK
  <2> QED BY <1>1, <1>4, <2>1, <2>2, RollbackFails
<1> QED BY <1>2, <1>3, <1>4 DEF CompleteRollback

\* CompleteRollback's second write.
LEMMA FinishRecoveryKeeps ==
  ASSUME MaxFaults \in Nat, IInv, FinishRecovery PROVE IInv'
<1>1. /\ up /\ pc = "rollClean" /\ pc \in RollbackSteps
      /\ UNCHANGED <<network, wfp, core, winws, local_dpi_preparation>>
      /\ network = "user" /\ core = "stopped" /\ ~winws
  BY DEF IInv, TypeOK, StepStage, StepStopped, ActiveIsOnDisk, Active,
         FinishRecovery, RollbackSteps
<1>2. CASE Written(CleanJournal) /\ Settled(TRUE, profile_staged)
  <2>1. /\ disk' = CleanJournal /\ journal' = CleanJournal /\ UNCHANGED faults
    BY <1>2 DEF Written
  <2>2. CleanJournal \in Journals /\ CleanJournal.stage = "clean"
    BY DEF CleanJournal, Journals, Stages
  <2> QED BY <1>1, <1>2, <2>1, <2>2, RollbackEnds
<1>3. CASE WriteFailed /\ Settled(FALSE, profile_staged)
  <2>1. UNCHANGED <<disk, journal>> /\ faults' \in 0..MaxFaults
    BY <1>3 DEF IInv, TypeOK, WriteFailed, Fault
  <2>2. /\ core' \in {core, "stopped"} /\ winws' \in BOOLEAN
        /\ local_dpi_preparation' \in BOOLEAN /\ profile_staged \in BOOLEAN
        /\ network' = "user"
    BY <1>1 DEF IInv, TypeOK
  <2> QED BY <1>1, <1>3, <2>1, <2>2, RollbackFails
<1> QED BY <1>2, <1>3 DEF FinishRecovery

\* BeginRollback leaves what is to be undone on record, or says that it failed.
LEMMA BeginRollbackKeeps ==
  ASSUME MaxFaults \in Nat, IInv, BeginRollback PROVE IInv'
<1>1. TypeOK'
  <2>1. JournalTypes'
    BY DEF IInv, TypeOK, JournalTypes, BeginRollback, Written, WriteFailed,
           Fault, AtStage, CleanJournal, Journals, Stages
  <2>2. ValueTypes'
    BY DEF IInv, TypeOK, ValueTypes, BeginRollback, Written, WriteFailed,
           Fault, AtStage, CleanJournal
  <2>3. HostFlagTypes'
    BY DEF IInv, TypeOK, HostFlagTypes, BeginRollback, Written, WriteFailed,
           Fault, AtStage, CleanJournal
  <2>4. ProfileFlagTypes'
    BY DEF IInv, TypeOK, ProfileFlagTypes, BeginRollback, Written,
           WriteFailed, Fault, AtStage, CleanJournal
  <2>5. StepTypes'
    BY DEF IInv, TypeOK, StepTypes, BeginRollback, Written, WriteFailed,
           Fault, AtStage, CleanJournal, Steps, ConnectSteps, RollbackSteps,
           Continuations
  <2>6. FaultTypes'
    BY DEF IInv, TypeOK, FaultTypes, BeginRollback, Written, WriteFailed,
           Fault, AtStage, CleanJournal
  <2> QED BY <2>1, <2>2, <2>3, <2>4, <2>5, <2>6 DEF TypeOK, JournalTypes,
         ValueTypes, HostFlagTypes, ProfileFlagTypes, StepTypes, FaultTypes
<1>2. SnapshotIsUsers' /\ ActiveIsOnDisk' /\ MemoryIsDisk'
  BY DEF IInv, TypeOK, SnapshotIsUsers, ActiveIsOnDisk, MemoryIsDisk, Active,
         BeginRollback, Written, WriteFailed, Fault, AtStage, CleanJournal,
         Journals, Stages
<1>3. StepStage' /\ StepStopped' /\ StepPhase'
  <2>1. StepStage'
    <3>1. up /\ journal.stage = disk.stage /\ pc' = "rollStop"
      BY DEF IInv, MemoryIsDisk, BeginRollback
    <3>2. ~begin_error' => disk'.stage \in {"clean", "rolling_back"}
      <4>1. CASE journal.stage \in {"clean", "rolling_back", "invalid"}
        BY <3>1, <4>1 DEF BeginRollback
      <4>2. CASE journal.stage = "recovered"
        BY <3>1, <4>2 DEF BeginRollback, Written, WriteFailed, CleanJournal
      <4>3. CASE journal.stage \notin {"clean", "rolling_back", "invalid", "recovered"}
        BY <3>1, <4>3
        DEF IInv, TypeOK, BeginRollback, Written, WriteFailed, AtStage, Journals
      <4> QED BY <4>1, <4>2, <4>3
    <3> QED BY <3>1, <3>2 DEF StepStage
  <2>2. StepStopped'
    BY DEF IInv, TypeOK, SnapshotIsUsers, ActiveIsOnDisk, MemoryIsDisk,
           StepStage, StepStopped, StepPhase, RestIsClean, RunningIsCommitted,
           GuardIsTrue, Active, BeginRollback, Written, WriteFailed, Fault,
           AtStage, CleanJournal, Journals, Stages, ConnectSteps,
           RollbackSteps
  <2>3. StepPhase'
    BY DEF IInv, TypeOK, SnapshotIsUsers, ActiveIsOnDisk, MemoryIsDisk,
           StepStage, StepStopped, StepPhase, RestIsClean, RunningIsCommitted,
           GuardIsTrue, Active, BeginRollback, Written, WriteFailed, Fault,
           AtStage, CleanJournal, Journals, Stages, ConnectSteps,
           RollbackSteps
  <2> QED BY <2>1, <2>2, <2>3
<1>4. RestIsClean' /\ RunningIsCommitted' /\ GuardIsTrue'
  BY DEF IInv, StepPhase, RestIsClean, RunningIsCommitted, GuardIsTrue,
         BeginRollback, Written, WriteFailed, Fault, AtStage, CleanJournal,
         RollbackSteps
<1> QED BY <1>1, <1>2, <1>3, <1>4 DEF IInv

\* The preparation of a connect touches nothing but the guard.
LEMMA PrepareKeeps ==
  ASSUME MaxFaults \in Nat, IInv, Prepare PROVE IInv'
<1>1. TypeOK'
  <2>1. JournalTypes'
    BY DEF IInv, TypeOK, JournalTypes, Prepare, Return, GuardStarted,
           GuardStartFailed, Fault, IsArmed, Journals, Stages
  <2>2. ValueTypes'
    BY DEF IInv, TypeOK, ValueTypes, Prepare, Return, GuardStarted,
           GuardStartFailed, Fault, IsArmed
  <2>3. HostFlagTypes'
    BY DEF IInv, TypeOK, HostFlagTypes, Prepare, Return, GuardStarted,
           GuardStartFailed, Fault, IsArmed
  <2>4. ProfileFlagTypes'
    BY DEF IInv, TypeOK, ProfileFlagTypes, Prepare, Return, GuardStarted,
           GuardStartFailed, Fault, IsArmed
  <2>5. StepTypes'
    BY DEF IInv, TypeOK, StepTypes, Prepare, Return, GuardStarted,
           GuardStartFailed, Fault, IsArmed, Steps, ConnectSteps,
           RollbackSteps, Continuations
  <2>6. FaultTypes'
    BY DEF IInv, TypeOK, FaultTypes, Prepare, Return, GuardStarted,
           GuardStartFailed, Fault, IsArmed
  <2> QED BY <2>1, <2>2, <2>3, <2>4, <2>5, <2>6 DEF TypeOK, JournalTypes,
         ValueTypes, HostFlagTypes, ProfileFlagTypes, StepTypes, FaultTypes
<1>2. SnapshotIsUsers' /\ ActiveIsOnDisk' /\ MemoryIsDisk'
  BY DEF IInv, SnapshotIsUsers, ActiveIsOnDisk, MemoryIsDisk, Prepare, Return,
         GuardStarted, GuardStartFailed, Fault, IsArmed
<1>3. StepStage' /\ StepStopped' /\ StepPhase'
  BY DEF IInv, StepStage, StepStopped, StepPhase, Prepare, Return,
         GuardStarted, GuardStartFailed, Fault, IsArmed, ConnectSteps,
         RollbackSteps
<1>4. RestIsClean' /\ RunningIsCommitted' /\ GuardIsTrue'
  BY DEF IInv, StepPhase, RestIsClean, RunningIsCommitted, GuardIsTrue,
         Prepare, Return, GuardStarted, GuardStartFailed, Fault, IsArmed,
         ConnectSteps
<1> QED BY <1>1, <1>2, <1>3, <1>4 DEF IInv

\* DurableRuntimeRecovery::Begin captures the adapter while it holds the user's
\* settings, because the journal is clean.
LEMMA BeginKeeps ==
  ASSUME MaxFaults \in Nat, IInv, Begin PROVE IInv'
<1>1. TypeOK'
  <2>1. JournalTypes'
    BY DEF IInv, TypeOK, JournalTypes, Begin, Written, Fault, Return,
           Journals, Stages
  <2>2. ValueTypes'
    BY DEF IInv, TypeOK, ValueTypes, Begin, Written, Fault, Return
  <2>3. HostFlagTypes'
    BY DEF IInv, TypeOK, HostFlagTypes, Begin, Written, Fault, Return
  <2>4. ProfileFlagTypes'
    BY DEF IInv, TypeOK, ProfileFlagTypes, Begin, Written, Fault, Return
  <2>5. StepTypes'
    BY DEF IInv, TypeOK, StepTypes, Begin, Written, Fault, Return, Steps,
           ConnectSteps, RollbackSteps, Continuations
  <2>6. FaultTypes'
    BY DEF IInv, TypeOK, FaultTypes, Begin, Written, Fault, Return
  <2> QED BY <2>1, <2>2, <2>3, <2>4, <2>5, <2>6 DEF TypeOK, JournalTypes,
         ValueTypes, HostFlagTypes, ProfileFlagTypes, StepTypes, FaultTypes
<1>2. SnapshotIsUsers' /\ ActiveIsOnDisk' /\ MemoryIsDisk'
  BY DEF IInv, TypeOK, SnapshotIsUsers, ActiveIsOnDisk, MemoryIsDisk, Active,
         Begin, Written, Fault, Return, Journals
<1>3. StepStage' /\ StepStopped' /\ StepPhase'
  BY DEF IInv, StepStage, StepStopped, StepPhase, Begin, Written, Fault,
         Return, ConnectSteps, RollbackSteps
<1>4. RestIsClean' /\ RunningIsCommitted' /\ GuardIsTrue'
  BY DEF IInv, StepPhase, RestIsClean, RunningIsCommitted, GuardIsTrue, Begin,
         Written, Fault, Return, ConnectSteps
<1> QED BY <1>1, <1>2, <1>3, <1>4 DEF IInv

\* An interrupted connect goes to the rollback with the journal it has.
LEMMA InterruptedKeeps ==
  ASSUME MaxFaults \in Nat, IInv, Interrupted PROVE IInv'
  BY DEF IInv, TypeOK, SnapshotIsUsers, ActiveIsOnDisk, MemoryIsDisk,
         StepStage, StepStopped, StepPhase, RestIsClean, RunningIsCommitted,
         GuardIsTrue, Active, Interrupted, RollBack, Journals, Stages, Steps,
         ConnectSteps, RollbackSteps, Continuations

\* core_started is on disk before the Core starts.
LEMMA RecordCoreStartedKeeps ==
  ASSUME MaxFaults \in Nat, IInv, RecordCoreStarted PROVE IInv'
  BY DEF IInv, TypeOK, SnapshotIsUsers, ActiveIsOnDisk, MemoryIsDisk,
         StepStage, StepStopped, StepPhase, RestIsClean, RunningIsCommitted,
         GuardIsTrue, Active, RecordCoreStarted, RecordStage, Written,
         WriteFailed, Fault, AtStage, RollBack, Journals, Stages, Steps,
         ConnectSteps, RollbackSteps, Continuations

\* The Core starts, or half starts, only with core_started on disk.
LEMMA StartCoreKeeps ==
  ASSUME MaxFaults \in Nat, IInv, StartCore PROVE IInv'
  BY DEF IInv, TypeOK, SnapshotIsUsers, ActiveIsOnDisk, MemoryIsDisk,
         StepStage, StepStopped, StepPhase, RestIsClean, RunningIsCommitted,
         GuardIsTrue, Active, StartCore, RollBack, Journals, Stages, Steps,
         ConnectSteps, RollbackSteps, Continuations

\* network_applied keeps the snapshot.
LEMMA RecordNetworkAppliedKeeps ==
  ASSUME MaxFaults \in Nat, IInv, RecordNetworkApplied PROVE IInv'
  BY DEF IInv, TypeOK, SnapshotIsUsers, ActiveIsOnDisk, MemoryIsDisk,
         StepStage, StepStopped, StepPhase, RestIsClean, RunningIsCommitted,
         GuardIsTrue, Active, RecordNetworkApplied, RecordStage, Written,
         WriteFailed, Fault, AtStage, RollBack, Journals, Stages, Steps,
         ConnectSteps, RollbackSteps, Continuations

\* The egress check changes nothing.
LEMMA VerifyKeeps ==
  ASSUME MaxFaults \in Nat, IInv, Verify PROVE IInv'
  BY DEF IInv, TypeOK, SnapshotIsUsers, ActiveIsOnDisk, MemoryIsDisk,
         StepStage, StepStopped, StepPhase, RestIsClean, RunningIsCommitted,
         GuardIsTrue, Active, Verify, RollBack, Journals, Stages, Steps,
         ConnectSteps, RollbackSteps, Continuations

\* The DPI proof changes only the DPI child.
LEMMA ProveDpiKeeps ==
  ASSUME MaxFaults \in Nat, IInv, ProveDpi PROVE IInv'
  BY DEF IInv, TypeOK, SnapshotIsUsers, ActiveIsOnDisk, MemoryIsDisk,
         StepStage, StepStopped, StepPhase, RestIsClean, RunningIsCommitted,
         GuardIsTrue, Active, ProveDpi, RollBack, Journals, Stages, Steps,
         ConnectSteps, RollbackSteps, Continuations

\* verified keeps the snapshot.
LEMMA RecordVerifiedKeeps ==
  ASSUME MaxFaults \in Nat, IInv, RecordVerified PROVE IInv'
  BY DEF IInv, TypeOK, SnapshotIsUsers, ActiveIsOnDisk, MemoryIsDisk,
         StepStage, StepStopped, StepPhase, RestIsClean, RunningIsCommitted,
         GuardIsTrue, Active, RecordVerified, RecordStage, Written,
         WriteFailed, Fault, AtStage, RollBack, Journals, Stages, Steps,
         ConnectSteps, RollbackSteps, Continuations

\* committed keeps the snapshot.
LEMMA RecordCommittedKeeps ==
  ASSUME MaxFaults \in Nat, IInv, RecordCommitted PROVE IInv'
  BY DEF IInv, TypeOK, SnapshotIsUsers, ActiveIsOnDisk, MemoryIsDisk,
         StepStage, StepStopped, StepPhase, RestIsClean, RunningIsCommitted,
         GuardIsTrue, Active, RecordCommitted, RecordStage, Written,
         WriteFailed, Fault, AtStage, RollBack, Journals, Stages, Steps,
         ConnectSteps, RollbackSteps, Continuations

\* A session is published only when it is committed.
LEMMA ActivateKeeps ==
  ASSUME MaxFaults \in Nat, IInv, Activate PROVE IInv'
<1>1. TypeOK'
  <2>1. JournalTypes'
    BY DEF IInv, TypeOK, JournalTypes, Activate, Return, IsArmed, Journals,
           Stages
  <2>2. ValueTypes'
    BY DEF IInv, TypeOK, ValueTypes, Activate, Return, IsArmed
  <2>3. HostFlagTypes'
    BY DEF IInv, TypeOK, HostFlagTypes, Activate, Return, IsArmed
  <2>4. ProfileFlagTypes'
    BY DEF IInv, TypeOK, ProfileFlagTypes, Activate, Return, IsArmed
  <2>5. StepTypes'
    BY DEF IInv, TypeOK, StepTypes, Activate, Return, IsArmed, Steps,
           ConnectSteps, RollbackSteps, Continuations
  <2>6. FaultTypes'
    BY DEF IInv, TypeOK, FaultTypes, Activate, Return, IsArmed
  <2> QED BY <2>1, <2>2, <2>3, <2>4, <2>5, <2>6 DEF TypeOK, JournalTypes,
         ValueTypes, HostFlagTypes, ProfileFlagTypes, StepTypes, FaultTypes
<1>2. SnapshotIsUsers' /\ ActiveIsOnDisk' /\ MemoryIsDisk'
  BY DEF IInv, SnapshotIsUsers, ActiveIsOnDisk, MemoryIsDisk, Activate,
         Return, IsArmed
<1>3. StepStage' /\ StepStopped' /\ StepPhase'
  BY DEF IInv, StepStage, StepStopped, StepPhase, Activate, Return, IsArmed,
         ConnectSteps, RollbackSteps
<1>4. RestIsClean' /\ RunningIsCommitted' /\ GuardIsTrue'
  BY DEF IInv, StepStage, StepStopped, RestIsClean, RunningIsCommitted,
         GuardIsTrue, Activate, Return, IsArmed, ConnectSteps
<1> QED BY <1>1, <1>2, <1>3, <1>4 DEF IInv

\* The guard is released behind a session, or its readiness is withdrawn.
LEMMA FinishKeeps ==
  ASSUME MaxFaults \in Nat, IInv, Finish PROVE IInv'
<1>1. TypeOK'
  <2>1. JournalTypes'
    BY DEF IInv, TypeOK, JournalTypes, Finish, Return, GuardRemoved,
           GuardRemoveFailed, Fault, Journals, Stages
  <2>2. ValueTypes'
    BY DEF IInv, TypeOK, ValueTypes, Finish, Return, GuardRemoved,
           GuardRemoveFailed, Fault
  <2>3. HostFlagTypes'
    BY DEF IInv, TypeOK, HostFlagTypes, Finish, Return, GuardRemoved,
           GuardRemoveFailed, Fault
  <2>4. ProfileFlagTypes'
    BY DEF IInv, TypeOK, ProfileFlagTypes, Finish, Return, GuardRemoved,
           GuardRemoveFailed, Fault
  <2>5. StepTypes'
    BY DEF IInv, TypeOK, StepTypes, Finish, Return, GuardRemoved,
           GuardRemoveFailed, Fault, Steps, ConnectSteps, RollbackSteps,
           Continuations
  <2>6. FaultTypes'
    BY DEF IInv, TypeOK, FaultTypes, Finish, Return, GuardRemoved,
           GuardRemoveFailed, Fault
  <2> QED BY <2>1, <2>2, <2>3, <2>4, <2>5, <2>6 DEF TypeOK, JournalTypes,
         ValueTypes, HostFlagTypes, ProfileFlagTypes, StepTypes, FaultTypes
<1>2. SnapshotIsUsers' /\ ActiveIsOnDisk' /\ MemoryIsDisk'
  BY DEF IInv, SnapshotIsUsers, ActiveIsOnDisk, MemoryIsDisk, Finish, Return,
         GuardRemoved, GuardRemoveFailed, Fault
<1>3. StepStage' /\ StepStopped' /\ StepPhase'
  BY DEF IInv, StepStage, StepStopped, StepPhase, Finish, Return,
         GuardRemoved, GuardRemoveFailed, Fault, ConnectSteps, RollbackSteps
<1>4. RestIsClean' /\ RunningIsCommitted' /\ GuardIsTrue'
  BY DEF IInv, StepStage, StepStopped, StepPhase, RestIsClean,
         RunningIsCommitted, GuardIsTrue, Finish, Return, GuardRemoved,
         GuardRemoveFailed, Fault, ConnectSteps
<1> QED BY <1>1, <1>2, <1>3, <1>4 DEF IInv

\* A replacement that stages its profile has the old session undone.
LEMMA RestageKeeps ==
  ASSUME MaxFaults \in Nat, IInv, Restage PROVE IInv'
<1>1. TypeOK'
  <2>1. JournalTypes'
    BY DEF IInv, TypeOK, JournalTypes, Restage, Return, Journals, Stages
  <2>2. ValueTypes'
    BY DEF IInv, TypeOK, ValueTypes, Restage, Return
  <2>3. HostFlagTypes'
    BY DEF IInv, TypeOK, HostFlagTypes, Restage, Return
  <2>4. ProfileFlagTypes'
    BY DEF IInv, TypeOK, ProfileFlagTypes, Restage, Return
  <2>5. StepTypes'
    BY DEF IInv, TypeOK, StepTypes, Restage, Return, Steps, ConnectSteps,
           RollbackSteps, Continuations
  <2>6. FaultTypes'
    BY DEF IInv, TypeOK, FaultTypes, Restage, Return
  <2> QED BY <2>1, <2>2, <2>3, <2>4, <2>5, <2>6 DEF TypeOK, JournalTypes,
         ValueTypes, HostFlagTypes, ProfileFlagTypes, StepTypes, FaultTypes
<1>2. SnapshotIsUsers' /\ ActiveIsOnDisk' /\ MemoryIsDisk'
  BY DEF IInv, SnapshotIsUsers, ActiveIsOnDisk, MemoryIsDisk, Restage, Return
<1>3. StepStage' /\ StepStopped' /\ StepPhase'
  BY DEF IInv, StepStage, StepStopped, StepPhase, Restage, Return,
         ConnectSteps, RollbackSteps
<1>4. RestIsClean' /\ RunningIsCommitted' /\ GuardIsTrue'
  BY DEF IInv, StepPhase, RestIsClean, RunningIsCommitted, GuardIsTrue,
         Restage, Return
<1> QED BY <1>1, <1>2, <1>3, <1>4 DEF IInv

\* A replacement after a restart recovers first.
LEMMA RestageInitializeKeeps ==
  ASSUME MaxFaults \in Nat, IInv, RestageInitialize PROVE IInv'
  BY DEF IInv, TypeOK, SnapshotIsUsers, ActiveIsOnDisk, MemoryIsDisk,
         StepStage, StepStopped, StepPhase, RestIsClean, RunningIsCommitted,
         GuardIsTrue, Active, RestageInitialize, InitializeHost, RollBack,
         Journals, Stages, Steps, ConnectSteps, RollbackSteps, Continuations

\* A cancelled replacement rolls its own session back.
LEMMA CancelReplacementKeeps ==
  ASSUME MaxFaults \in Nat, IInv, CancelReplacement PROVE IInv'
  BY DEF IInv, TypeOK, SnapshotIsUsers, ActiveIsOnDisk, MemoryIsDisk,
         StepStage, StepStopped, StepPhase, RestIsClean, RunningIsCommitted,
         GuardIsTrue, Active, CancelReplacement, Journals, Stages, Steps,
         ConnectSteps, RollbackSteps, Continuations

\* The guard's removal, confirmed or not.
LEMMA ExplicitOffKeeps ==
  ASSUME MaxFaults \in Nat, IInv, ExplicitOff PROVE IInv'
<1>1. TypeOK'
  <2>1. JournalTypes'
    BY DEF IInv, TypeOK, JournalTypes, ExplicitOff, Return, GuardRemoved,
           GuardRemoveFailed, Fault, Journals, Stages
  <2>2. ValueTypes'
    BY DEF IInv, TypeOK, ValueTypes, ExplicitOff, Return, GuardRemoved,
           GuardRemoveFailed, Fault
  <2>3. HostFlagTypes'
    BY DEF IInv, TypeOK, HostFlagTypes, ExplicitOff, Return, GuardRemoved,
           GuardRemoveFailed, Fault
  <2>4. ProfileFlagTypes'
    BY DEF IInv, TypeOK, ProfileFlagTypes, ExplicitOff, Return, GuardRemoved,
           GuardRemoveFailed, Fault
  <2>5. StepTypes'
    BY DEF IInv, TypeOK, StepTypes, ExplicitOff, Return, GuardRemoved,
           GuardRemoveFailed, Fault, Steps, ConnectSteps, RollbackSteps,
           Continuations
  <2>6. FaultTypes'
    BY DEF IInv, TypeOK, FaultTypes, ExplicitOff, Return, GuardRemoved,
           GuardRemoveFailed, Fault
  <2> QED BY <2>1, <2>2, <2>3, <2>4, <2>5, <2>6 DEF TypeOK, JournalTypes,
         ValueTypes, HostFlagTypes, ProfileFlagTypes, StepTypes, FaultTypes
<1>2. SnapshotIsUsers' /\ ActiveIsOnDisk' /\ MemoryIsDisk'
  BY DEF IInv, SnapshotIsUsers, ActiveIsOnDisk, MemoryIsDisk, ExplicitOff,
         Return, GuardRemoved, GuardRemoveFailed, Fault
<1>3. StepStage' /\ StepStopped' /\ StepPhase'
  BY DEF IInv, StepStage, StepStopped, StepPhase, ExplicitOff, Return,
         GuardRemoved, GuardRemoveFailed, Fault, ConnectSteps, RollbackSteps
<1>4. RestIsClean' /\ RunningIsCommitted' /\ GuardIsTrue'
  BY DEF IInv, StepPhase, RestIsClean, RunningIsCommitted, GuardIsTrue,
         ExplicitOff, Return, GuardRemoved, GuardRemoveFailed, Fault
<1> QED BY <1>1, <1>2, <1>3, <1>4 DEF IInv

\* Initialize recovers unless the journal is clean.
LEMMA InitializeKeeps ==
  ASSUME MaxFaults \in Nat, IInv, Initialize PROVE IInv'
  BY DEF IInv, TypeOK, SnapshotIsUsers, ActiveIsOnDisk, MemoryIsDisk,
         StepStage, StepStopped, StepPhase, RestIsClean, RunningIsCommitted,
         GuardIsTrue, Active, Initialize, Idle, InitializeHost, RollBack,
         Journals, Stages, Steps, ConnectSteps, RollbackSteps, Continuations

\* Staging touches nothing outside the host's memory and its own directory.
LEMMA StageProfileKeeps ==
  ASSUME MaxFaults \in Nat, IInv, StageProfile PROVE IInv'
  BY DEF IInv, TypeOK, SnapshotIsUsers, ActiveIsOnDisk, MemoryIsDisk,
         StepStage, StepStopped, StepPhase, RestIsClean, RunningIsCommitted,
         GuardIsTrue, Active, StageProfile, Idle, Journals, Stages, Steps,
         ConnectSteps, RollbackSteps, Continuations

\* Nor does invalidating, which also stops the DPI child.
LEMMA InvalidateProfileKeeps ==
  ASSUME MaxFaults \in Nat, IInv, InvalidateProfile PROVE IInv'
<1>1. TypeOK'
  <2>1. JournalTypes'
    BY DEF IInv, TypeOK, JournalTypes, InvalidateProfile, Idle, Journals,
           Stages
  <2>2. ValueTypes'
    BY DEF IInv, TypeOK, ValueTypes, InvalidateProfile, Idle
  <2>3. HostFlagTypes'
    BY DEF IInv, TypeOK, HostFlagTypes, InvalidateProfile, Idle
  <2>4. ProfileFlagTypes'
    BY DEF IInv, TypeOK, ProfileFlagTypes, InvalidateProfile, Idle
  <2>5. StepTypes'
    BY DEF IInv, TypeOK, StepTypes, InvalidateProfile, Idle, Steps,
           ConnectSteps, RollbackSteps, Continuations
  <2>6. FaultTypes'
    BY DEF IInv, TypeOK, FaultTypes, InvalidateProfile, Idle
  <2> QED BY <2>1, <2>2, <2>3, <2>4, <2>5, <2>6 DEF TypeOK, JournalTypes,
         ValueTypes, HostFlagTypes, ProfileFlagTypes, StepTypes, FaultTypes
<1>2. SnapshotIsUsers' /\ ActiveIsOnDisk' /\ MemoryIsDisk'
  BY DEF IInv, SnapshotIsUsers, ActiveIsOnDisk, MemoryIsDisk,
         InvalidateProfile, Idle
<1>3. StepStage' /\ StepStopped' /\ StepPhase'
  BY DEF IInv, StepStage, StepStopped, StepPhase, InvalidateProfile, Idle,
         ConnectSteps, RollbackSteps
<1>4. RestIsClean' /\ RunningIsCommitted' /\ GuardIsTrue'
  BY DEF IInv, RestIsClean, RunningIsCommitted, GuardIsTrue,
         InvalidateProfile, Idle
<1> QED BY <1>1, <1>2, <1>3, <1>4 DEF IInv

\* A connect begins from a clean journal.
LEMMA ConnectKeeps ==
  ASSUME MaxFaults \in Nat, IInv, Connect PROVE IInv'
<1>1. TypeOK'
  <2>1. JournalTypes'
    BY DEF IInv, TypeOK, JournalTypes, Connect, Idle, Journals, Stages
  <2>2. ValueTypes'
    BY DEF IInv, TypeOK, ValueTypes, Connect, Idle
  <2>3. HostFlagTypes'
    BY DEF IInv, TypeOK, HostFlagTypes, Connect, Idle
  <2>4. ProfileFlagTypes'
    BY DEF IInv, TypeOK, ProfileFlagTypes, Connect, Idle
  <2>5. StepTypes'
    BY DEF IInv, TypeOK, StepTypes, Connect, Idle, Steps, ConnectSteps,
           RollbackSteps, Continuations
  <2>6. FaultTypes'
    BY DEF IInv, TypeOK, FaultTypes, Connect, Idle
  <2> QED BY <2>1, <2>2, <2>3, <2>4, <2>5, <2>6 DEF TypeOK, JournalTypes,
         ValueTypes, HostFlagTypes, ProfileFlagTypes, StepTypes, FaultTypes
<1>2. SnapshotIsUsers' /\ ActiveIsOnDisk' /\ MemoryIsDisk'
  BY DEF IInv, SnapshotIsUsers, ActiveIsOnDisk, MemoryIsDisk, Connect, Idle
<1>3. StepStage' /\ StepStopped' /\ StepPhase'
  BY DEF IInv, StepStage, StepStopped, StepPhase, Connect, Idle, ConnectSteps,
         RollbackSteps
<1>4. RestIsClean' /\ RunningIsCommitted' /\ GuardIsTrue'
  BY DEF IInv, RestIsClean, RunningIsCommitted, GuardIsTrue, Connect, Idle
<1> QED BY <1>1, <1>2, <1>3, <1>4 DEF IInv

\* A replacement begins with the filters in place.
LEMMA ReplaceManagedProfileKeeps ==
  ASSUME MaxFaults \in Nat, IInv, ReplaceManagedProfile PROVE IInv'
<1>1. TypeOK'
  <2>1. JournalTypes'
    BY DEF IInv, TypeOK, JournalTypes, ReplaceManagedProfile, Idle, Undoable,
           IsArmed, RollBack, GuardStarted, GuardStartFailed, Fault, Journals,
           Stages
  <2>2. ValueTypes'
    BY DEF IInv, TypeOK, ValueTypes, ReplaceManagedProfile, Idle, Undoable,
           IsArmed, RollBack, GuardStarted, GuardStartFailed, Fault
  <2>3. HostFlagTypes'
    BY DEF IInv, TypeOK, HostFlagTypes, ReplaceManagedProfile, Idle, Undoable,
           IsArmed, RollBack, GuardStarted, GuardStartFailed, Fault
  <2>4. ProfileFlagTypes'
    BY DEF IInv, TypeOK, ProfileFlagTypes, ReplaceManagedProfile, Idle,
           Undoable, IsArmed, RollBack, GuardStarted, GuardStartFailed, Fault
  <2>5. StepTypes'
    BY DEF IInv, TypeOK, StepTypes, ReplaceManagedProfile, Idle, Undoable,
           IsArmed, RollBack, GuardStarted, GuardStartFailed, Fault, Steps,
           ConnectSteps, RollbackSteps, Continuations
  <2>6. FaultTypes'
    BY DEF IInv, TypeOK, FaultTypes, ReplaceManagedProfile, Idle, Undoable,
           IsArmed, RollBack, GuardStarted, GuardStartFailed, Fault
  <2> QED BY <2>1, <2>2, <2>3, <2>4, <2>5, <2>6 DEF TypeOK, JournalTypes,
         ValueTypes, HostFlagTypes, ProfileFlagTypes, StepTypes, FaultTypes
<1>2. SnapshotIsUsers' /\ ActiveIsOnDisk' /\ MemoryIsDisk'
  BY DEF IInv, SnapshotIsUsers, ActiveIsOnDisk, MemoryIsDisk,
         ReplaceManagedProfile, Idle, Undoable, IsArmed, RollBack,
         GuardStarted, GuardStartFailed, Fault
<1>3. StepStage' /\ StepStopped' /\ StepPhase'
  BY DEF IInv, StepStage, StepStopped, StepPhase, RestIsClean,
         ReplaceManagedProfile, Idle, Undoable, IsArmed, RollBack,
         GuardStarted, GuardStartFailed, Fault, ConnectSteps, RollbackSteps
<1>4. RestIsClean' /\ RunningIsCommitted' /\ GuardIsTrue'
  BY DEF IInv, RestIsClean, RunningIsCommitted, GuardIsTrue,
         ReplaceManagedProfile, Idle, Undoable, IsArmed, RollBack,
         GuardStarted, GuardStartFailed, Fault
<1> QED BY <1>1, <1>2, <1>3, <1>4 DEF IInv

\* A disconnect begins a rollback or goes on to the guard.
LEMMA DisconnectKeeps ==
  ASSUME MaxFaults \in Nat, IInv, Disconnect PROVE IInv'
  BY DEF IInv, TypeOK, SnapshotIsUsers, ActiveIsOnDisk, MemoryIsDisk,
         StepStage, StepStopped, StepPhase, RestIsClean, RunningIsCommitted,
         GuardIsTrue, Active, Disconnect, Idle, Undoable, RollBack, Journals,
         Stages, Steps, ConnectSteps, RollbackSteps, Continuations

\* The session is ended behind the guard.
LEMMA CancelProtectedHandoffKeeps ==
  ASSUME MaxFaults \in Nat, IInv, CancelProtectedHandoff PROVE IInv'
  BY DEF IInv, TypeOK, SnapshotIsUsers, ActiveIsOnDisk, MemoryIsDisk,
         StepStage, StepStopped, StepPhase, RestIsClean, RunningIsCommitted,
         GuardIsTrue, Active, CancelProtectedHandoff, Idle, RollBack,
         GuardStarted, GuardStartFailed, Fault, Journals, Stages, Steps,
         ConnectSteps, RollbackSteps, Continuations

\* Maintenance changes only the DPI child.
LEMMA MaintainWindowsLocalDpiKeeps ==
  ASSUME MaxFaults \in Nat, IInv, MaintainWindowsLocalDpi PROVE IInv'
  BY DEF IInv, TypeOK, SnapshotIsUsers, ActiveIsOnDisk, MemoryIsDisk,
         StepStage, StepStopped, StepPhase, RestIsClean, RunningIsCommitted,
         GuardIsTrue, Active, MaintainWindowsLocalDpi, Idle, Journals, Stages,
         Steps, ConnectSteps, RollbackSteps, Continuations

\* The staged profile of a running session is given up.
LEMMA RetireStagedProfileKeeps ==
  ASSUME MaxFaults \in Nat, IInv, RetireStagedProfile PROVE IInv'
<1>1. TypeOK'
  <2>1. JournalTypes'
    BY DEF IInv, TypeOK, JournalTypes, RetireStagedProfile, Idle, Journals,
           Stages
  <2>2. ValueTypes'
    BY DEF IInv, TypeOK, ValueTypes, RetireStagedProfile, Idle
  <2>3. HostFlagTypes'
    BY DEF IInv, TypeOK, HostFlagTypes, RetireStagedProfile, Idle
  <2>4. ProfileFlagTypes'
    BY DEF IInv, TypeOK, ProfileFlagTypes, RetireStagedProfile, Idle
  <2>5. StepTypes'
    BY DEF IInv, TypeOK, StepTypes, RetireStagedProfile, Idle, Steps,
           ConnectSteps, RollbackSteps, Continuations
  <2>6. FaultTypes'
    BY DEF IInv, TypeOK, FaultTypes, RetireStagedProfile, Idle
  <2> QED BY <2>1, <2>2, <2>3, <2>4, <2>5, <2>6 DEF TypeOK, JournalTypes,
         ValueTypes, HostFlagTypes, ProfileFlagTypes, StepTypes, FaultTypes
<1>2. SnapshotIsUsers' /\ ActiveIsOnDisk' /\ MemoryIsDisk'
  BY DEF IInv, SnapshotIsUsers, ActiveIsOnDisk, MemoryIsDisk,
         RetireStagedProfile, Idle
<1>3. StepStage' /\ StepStopped' /\ StepPhase'
  BY DEF IInv, StepStage, StepStopped, StepPhase, RetireStagedProfile, Idle,
         ConnectSteps, RollbackSteps
<1>4. RestIsClean' /\ RunningIsCommitted' /\ GuardIsTrue'
  BY DEF IInv, RestIsClean, RunningIsCommitted, GuardIsTrue,
         RetireStagedProfile, Idle
<1> QED BY <1>1, <1>2, <1>3, <1>4 DEF IInv

\* Rechecks, promotions and revocations change readiness in a session only.
LEMMA ChangeReadinessKeeps ==
  ASSUME MaxFaults \in Nat, IInv, ChangeReadiness PROVE IInv'
<1>1. TypeOK'
  <2>1. JournalTypes'
    BY DEF IInv, TypeOK, JournalTypes, ChangeReadiness, Idle, RecheckEgress,
           PromoteTransportLease, RevokeTransportLease, IsArmed, Journals,
           Stages
  <2>2. ValueTypes'
    BY DEF IInv, TypeOK, ValueTypes, ChangeReadiness, Idle, RecheckEgress,
           PromoteTransportLease, RevokeTransportLease, IsArmed
  <2>3. HostFlagTypes'
    BY DEF IInv, TypeOK, HostFlagTypes, ChangeReadiness, Idle, RecheckEgress,
           PromoteTransportLease, RevokeTransportLease, IsArmed
  <2>4. ProfileFlagTypes'
    BY DEF IInv, TypeOK, ProfileFlagTypes, ChangeReadiness, Idle,
           RecheckEgress, PromoteTransportLease, RevokeTransportLease, IsArmed
  <2>5. StepTypes'
    BY DEF IInv, TypeOK, StepTypes, ChangeReadiness, Idle, RecheckEgress,
           PromoteTransportLease, RevokeTransportLease, IsArmed, Steps,
           ConnectSteps, RollbackSteps, Continuations
  <2>6. FaultTypes'
    BY DEF IInv, TypeOK, FaultTypes, ChangeReadiness, Idle, RecheckEgress,
           PromoteTransportLease, RevokeTransportLease, IsArmed
  <2> QED BY <2>1, <2>2, <2>3, <2>4, <2>5, <2>6 DEF TypeOK, JournalTypes,
         ValueTypes, HostFlagTypes, ProfileFlagTypes, StepTypes, FaultTypes
<1>2. SnapshotIsUsers' /\ ActiveIsOnDisk' /\ MemoryIsDisk'
  BY DEF IInv, SnapshotIsUsers, ActiveIsOnDisk, MemoryIsDisk, ChangeReadiness,
         Idle, RecheckEgress, PromoteTransportLease, RevokeTransportLease,
         IsArmed
<1>3. StepStage' /\ StepStopped' /\ StepPhase'
  BY DEF IInv, StepStage, StepStopped, StepPhase, ChangeReadiness, Idle,
         RecheckEgress, PromoteTransportLease, RevokeTransportLease, IsArmed,
         ConnectSteps, RollbackSteps
<1>4. RestIsClean' /\ RunningIsCommitted' /\ GuardIsTrue'
  BY DEF IInv, RestIsClean, RunningIsCommitted, GuardIsTrue, ChangeReadiness,
         Idle, RecheckEgress, PromoteTransportLease, RevokeTransportLease,
         IsArmed
<1> QED BY <1>1, <1>2, <1>3, <1>4 DEF IInv

\* Shutdown begins the rollback of a session.
LEMMA ShutdownKeeps ==
  ASSUME MaxFaults \in Nat, IInv, Shutdown PROVE IInv'
<1>1. TypeOK'
  <2>1. JournalTypes'
    BY DEF IInv, TypeOK, JournalTypes, Shutdown, Idle, Undoable, RollBack,
           Journals, Stages
  <2>2. ValueTypes'
    BY DEF IInv, TypeOK, ValueTypes, Shutdown, Idle, Undoable, RollBack
  <2>3. HostFlagTypes'
    BY DEF IInv, TypeOK, HostFlagTypes, Shutdown, Idle, Undoable, RollBack
  <2>4. ProfileFlagTypes'
    BY DEF IInv, TypeOK, ProfileFlagTypes, Shutdown, Idle, Undoable, RollBack
  <2>5. StepTypes'
    BY DEF IInv, TypeOK, StepTypes, Shutdown, Idle, Undoable, RollBack, Steps,
           ConnectSteps, RollbackSteps, Continuations
  <2>6. FaultTypes'
    BY DEF IInv, TypeOK, FaultTypes, Shutdown, Idle, Undoable, RollBack
  <2> QED BY <2>1, <2>2, <2>3, <2>4, <2>5, <2>6 DEF TypeOK, JournalTypes,
         ValueTypes, HostFlagTypes, ProfileFlagTypes, StepTypes, FaultTypes
<1>2. SnapshotIsUsers' /\ ActiveIsOnDisk' /\ MemoryIsDisk'
  BY DEF IInv, SnapshotIsUsers, ActiveIsOnDisk, MemoryIsDisk, Shutdown, Idle,
         Undoable, RollBack
<1>3. StepStage' /\ StepStopped' /\ StepPhase'
  BY DEF IInv, StepStage, StepStopped, StepPhase, Shutdown, Idle, Undoable,
         RollBack, ConnectSteps, RollbackSteps
<1>4. RestIsClean' /\ RunningIsCommitted' /\ GuardIsTrue'
  <2>1. RestIsClean'
    <3>1. winws' => winws
      BY DEF IInv, TypeOK, Shutdown
    <3>2. /\ up' /\ pc' \in {"rollBegin", "exit"}
          /\ UNCHANGED <<initialized, phase, core>>
      BY DEF Idle, RollBack, Shutdown
    <3> QED BY <3>1, <3>2 DEF IInv, RestIsClean, Shutdown, Idle
  <2>2. RunningIsCommitted'
    BY DEF IInv, TypeOK, SnapshotIsUsers, ActiveIsOnDisk, MemoryIsDisk,
           StepStage, StepStopped, StepPhase, RestIsClean, RunningIsCommitted,
           GuardIsTrue, Active, Shutdown, Idle, Undoable, RollBack, Journals,
           Stages, ConnectSteps, RollbackSteps
  <2>3. GuardIsTrue'
    BY DEF IInv, TypeOK, SnapshotIsUsers, ActiveIsOnDisk, MemoryIsDisk,
           StepStage, StepStopped, StepPhase, RestIsClean, RunningIsCommitted,
           GuardIsTrue, Active, Shutdown, Idle, Undoable, RollBack, Journals,
           Stages, ConnectSteps, RollbackSteps
  <2> QED BY <2>1, <2>2, <2>3
<1> QED BY <1>1, <1>2, <1>3, <1>4 DEF IInv

\* The process ends after Shutdown, whatever Shutdown could undo.
LEMMA ExitKeeps ==
  ASSUME MaxFaults \in Nat, IInv, Exit PROVE IInv'
<1>1. TypeOK'
  <2>1. JournalTypes'
    BY DEF IInv, TypeOK, JournalTypes, Exit, ProcessEnds, Journals, Stages
  <2>2. ValueTypes'
    BY DEF IInv, TypeOK, ValueTypes, Exit, ProcessEnds
  <2>3. HostFlagTypes'
    BY DEF IInv, TypeOK, HostFlagTypes, Exit, ProcessEnds
  <2>4. ProfileFlagTypes'
    BY DEF IInv, TypeOK, ProfileFlagTypes, Exit, ProcessEnds
  <2>5. StepTypes'
    BY DEF IInv, TypeOK, StepTypes, Exit, ProcessEnds, Steps, ConnectSteps,
           RollbackSteps, Continuations
  <2>6. FaultTypes'
    BY DEF IInv, TypeOK, FaultTypes, Exit, ProcessEnds
  <2> QED BY <2>1, <2>2, <2>3, <2>4, <2>5, <2>6 DEF TypeOK, JournalTypes,
         ValueTypes, HostFlagTypes, ProfileFlagTypes, StepTypes, FaultTypes
<1>2. SnapshotIsUsers' /\ ActiveIsOnDisk' /\ MemoryIsDisk'
  BY DEF IInv, SnapshotIsUsers, ActiveIsOnDisk, MemoryIsDisk, Exit,
         ProcessEnds
<1>3. StepStage' /\ StepStopped' /\ StepPhase'
  BY DEF IInv, StepStage, StepStopped, StepPhase, Exit, ProcessEnds,
         ConnectSteps, RollbackSteps
<1>4. RestIsClean' /\ RunningIsCommitted' /\ GuardIsTrue'
  BY DEF IInv, RestIsClean, RunningIsCommitted, GuardIsTrue, Exit, ProcessEnds
<1> QED BY <1>1, <1>2, <1>3, <1>4 DEF IInv

\* The process ends anywhere.
LEMMA CrashKeeps ==
  ASSUME MaxFaults \in Nat, IInv, Crash PROVE IInv'
<1>1. TypeOK'
  <2>1. JournalTypes'
    BY DEF IInv, TypeOK, JournalTypes, Crash, ProcessEnds, Fault, Journals,
           Stages
  <2>2. ValueTypes'
    BY DEF IInv, TypeOK, ValueTypes, Crash, ProcessEnds, Fault
  <2>3. HostFlagTypes'
    BY DEF IInv, TypeOK, HostFlagTypes, Crash, ProcessEnds, Fault
  <2>4. ProfileFlagTypes'
    BY DEF IInv, TypeOK, ProfileFlagTypes, Crash, ProcessEnds, Fault
  <2>5. StepTypes'
    BY DEF IInv, TypeOK, StepTypes, Crash, ProcessEnds, Fault, Steps,
           ConnectSteps, RollbackSteps, Continuations
  <2>6. FaultTypes'
    BY DEF IInv, TypeOK, FaultTypes, Crash, ProcessEnds, Fault
  <2> QED BY <2>1, <2>2, <2>3, <2>4, <2>5, <2>6 DEF TypeOK, JournalTypes,
         ValueTypes, HostFlagTypes, ProfileFlagTypes, StepTypes, FaultTypes
<1>2. SnapshotIsUsers' /\ ActiveIsOnDisk' /\ MemoryIsDisk'
  BY DEF IInv, SnapshotIsUsers, ActiveIsOnDisk, MemoryIsDisk, Crash,
         ProcessEnds, Fault
<1>3. StepStage' /\ StepStopped' /\ StepPhase'
  BY DEF IInv, StepStage, StepStopped, StepPhase, Crash, ProcessEnds, Fault,
         ConnectSteps, RollbackSteps
<1>4. RestIsClean' /\ RunningIsCommitted' /\ GuardIsTrue'
  BY DEF IInv, RestIsClean, RunningIsCommitted, GuardIsTrue, Crash,
         ProcessEnds, Fault
<1> QED BY <1>1, <1>2, <1>3, <1>4 DEF IInv

\* A new host reads the journal and adopts the filters it finds.
LEMMA RestartKeeps ==
  ASSUME MaxFaults \in Nat, IInv, Restart PROVE IInv'
<1>1. TypeOK'
  <2>1. JournalTypes'
    BY DEF IInv, TypeOK, JournalTypes, Restart, RollBack, Fault, Journals,
           Stages
  <2>2. ValueTypes'
    BY DEF IInv, TypeOK, ValueTypes, Restart, RollBack, Fault
  <2>3. HostFlagTypes'
    BY DEF IInv, TypeOK, HostFlagTypes, Restart, RollBack, Fault
  <2>4. ProfileFlagTypes'
    BY DEF IInv, TypeOK, ProfileFlagTypes, Restart, RollBack, Fault
  <2>5. StepTypes'
    BY DEF IInv, TypeOK, StepTypes, Restart, RollBack, Fault, Steps,
           ConnectSteps, RollbackSteps, Continuations
  <2>6. FaultTypes'
    BY DEF IInv, TypeOK, FaultTypes, Restart, RollBack, Fault
  <2> QED BY <2>1, <2>2, <2>3, <2>4, <2>5, <2>6 DEF TypeOK, JournalTypes,
         ValueTypes, HostFlagTypes, ProfileFlagTypes, StepTypes, FaultTypes
<1>2. SnapshotIsUsers' /\ ActiveIsOnDisk' /\ MemoryIsDisk'
  BY DEF IInv, SnapshotIsUsers, ActiveIsOnDisk, MemoryIsDisk, Restart,
         RollBack, Fault
<1>3. StepStage' /\ StepStopped' /\ StepPhase'
  BY DEF IInv, StepStage, StepStopped, StepPhase, RunningIsCommitted, Restart,
         RollBack, Fault, ConnectSteps, RollbackSteps
<1>4. RestIsClean' /\ RunningIsCommitted' /\ GuardIsTrue'
  BY DEF IInv, RestIsClean, RunningIsCommitted, GuardIsTrue, Restart,
         RollBack, Fault
<1> QED BY <1>1, <1>2, <1>3, <1>4 DEF IInv

\* The repair command runs with no service.
LEMMA ClearTransitionGuardExplicitlyKeeps ==
  ASSUME MaxFaults \in Nat, IInv, ClearTransitionGuardExplicitly PROVE IInv'
  BY DEF IInv, TypeOK, SnapshotIsUsers, ActiveIsOnDisk, MemoryIsDisk,
         StepStage, StepStopped, StepPhase, RestIsClean, RunningIsCommitted,
         GuardIsTrue, Active, ClearTransitionGuardExplicitly, Journals,
         Stages, Steps, ConnectSteps, RollbackSteps, Continuations

\* A journal that becomes unreadable is not taken for a clean one.
LEMMA DamageJournalKeeps ==
  ASSUME MaxFaults \in Nat, IInv, DamageJournal PROVE IInv'
  BY DEF IInv, TypeOK, SnapshotIsUsers, ActiveIsOnDisk, MemoryIsDisk,
         StepStage, StepStopped, StepPhase, RestIsClean, RunningIsCommitted,
         GuardIsTrue, Active, DamageJournal, Fault, Journals, Stages, Steps,
         ConnectSteps, RollbackSteps, Continuations

\* The service has never run.
LEMMA InitKeeps == ASSUME MaxFaults \in Nat, Init PROVE IInv
<1>1. TypeOK
  <2>1. JournalTypes
    BY DEF Init, CleanJournal, JournalTypes, Journals, Stages
  <2>2. ValueTypes /\ HostFlagTypes /\ ProfileFlagTypes
    BY DEF Init, ValueTypes, HostFlagTypes, ProfileFlagTypes
  <2>3. StepTypes /\ FaultTypes
    BY DEF Init, StepTypes, FaultTypes, Steps, Continuations
  <2> QED BY <2>1, <2>2, <2>3 DEF TypeOK, JournalTypes, ValueTypes,
         HostFlagTypes, ProfileFlagTypes, StepTypes, FaultTypes
<1>2. SnapshotIsUsers /\ ActiveIsOnDisk /\ MemoryIsDisk
  BY DEF Init, CleanJournal, SnapshotIsUsers, ActiveIsOnDisk, MemoryIsDisk, Active
<1>3. StepStage /\ StepStopped /\ StepPhase
  BY DEF Init, StepStage, StepStopped, StepPhase, ConnectSteps, RollbackSteps
<1>4. RestIsClean /\ RunningIsCommitted /\ GuardIsTrue
  BY DEF Init, RestIsClean, RunningIsCommitted, GuardIsTrue
<1> QED BY <1>1, <1>2, <1>3, <1>4 DEF IInv

\* Every step of the host, its clients and the machine keeps IInv.
LEMMA NextKeeps ==
  ASSUME MaxFaults \in Nat, IInv, [Next]_vars PROVE IInv'
<1>1. CASE RollbackStep
  BY <1>1, BeginRollbackKeeps, StopRuntimeKeeps, RestoreNetworkStateKeeps,
     CompleteRollbackKeeps, FinishRecoveryKeeps DEF RollbackStep
<1>2. CASE ConnectStep
  BY <1>2, PrepareKeeps, BeginKeeps, InterruptedKeeps, RecordCoreStartedKeeps,
     StartCoreKeeps, RecordNetworkAppliedKeeps, VerifyKeeps, ProveDpiKeeps,
     RecordVerifiedKeeps, RecordCommittedKeeps, ActivateKeeps, FinishKeeps
  DEF ConnectStep
<1>3. CASE ReplaceStep \/ ExplicitOff
  BY <1>3, RestageKeeps, RestageInitializeKeeps, CancelReplacementKeeps,
     ExplicitOffKeeps DEF ReplaceStep
<1>4. CASE Request
  BY <1>4, InitializeKeeps, StageProfileKeeps, InvalidateProfileKeeps,
     ConnectKeeps, ReplaceManagedProfileKeeps, DisconnectKeeps,
     CancelProtectedHandoffKeeps, MaintainWindowsLocalDpiKeeps,
     RetireStagedProfileKeeps, ChangeReadinessKeeps, ShutdownKeeps DEF Request
<1>5. CASE Machine
  BY <1>5, ExitKeeps, CrashKeeps, RestartKeeps,
     ClearTransitionGuardExplicitlyKeeps, DamageJournalKeeps DEF Machine
<1>6. CASE UNCHANGED vars
  BY <1>6 DEF vars, IInv, TypeOK, SnapshotIsUsers, ActiveIsOnDisk, MemoryIsDisk,
     StepStage, StepStopped, StepPhase, RestIsClean, RunningIsCommitted,
     GuardIsTrue
<1> QED BY <1>1, <1>2, <1>3, <1>4, <1>5, <1>6 DEF Next

\* IInv holds throughout, for any number of faults and crashes, if a journal
\* write that reports failure has left the file alone.
THEOREM Invariance == Spec => []IInv
<1>1. MaxFaults \in Nat
  BY MaxFaultsAssumption
<1>2. Init => IInv
  BY <1>1, InitKeeps
<1>3. IInv /\ [Next]_vars => IInv'
  BY <1>1, NextKeeps
<1> QED BY <1>2, <1>3, PTL DEF Spec

\* Every variable of the host keeps its type.
THEOREM TypeCorrect == Spec => []TypeOK
<1>1. IInv => TypeOK
  BY DEF IInv
<1> QED BY <1>1, Invariance, PTL

\* NetworkIsRecoverable: what Begin and Record wrote before the Core started is
\* enough for the next process to undo whatever this one leaves behind.
THEOREM Recoverable == Spec => []NetworkIsRecoverable
<1>1. IInv => NetworkIsRecoverable
  BY DEF IInv, NetworkIsRecoverable, SnapshotIsUsers, ActiveIsOnDisk, Active
<1> QED BY <1>1, Invariance, PTL

\* IdleIsRestored: no path through RollbackRuntime, a failed connect or a failed
\* write shows an idle phase with something of the session left.
THEOREM Restored == Spec => []IdleIsRestored
<1>1. IInv => IdleIsRestored
  <2>1. SUFFICES ASSUME IInv, Idle, initialized,
                        phase \notin {"running", "recoveryRequired"}
                 PROVE  /\ journal.stage = "clean"
                        /\ network = "user" /\ core = "stopped" /\ ~winws
    BY DEF IdleIsRestored
  <2>2. disk.stage = "clean" /\ ~winws
    BY <2>1 DEF IInv, RestIsClean, Idle
  <2> QED BY <2>1, <2>2 DEF IInv, TypeOK, ActiveIsOnDisk, MemoryIsDisk, Active, Idle
<1> QED BY <1>1, Invariance, PTL

\* HandoverIsGuarded: from Guard::Start in ReplaceManagedProfile until Finish the
\* filters are in place, whatever the host believes about them.
THEOREM Guarded == Spec => []HandoverIsGuarded
<1>1. IInv => HandoverIsGuarded
  BY DEF IInv, GuardIsTrue, HandoverIsGuarded
<1> QED BY <1>1, Invariance, PTL

\* ReadinessIsReal: the snapshot's readiness is that of a committed session.
THEOREM Ready == Spec => []ReadinessIsReal
<1>1. IInv => ReadinessIsReal
  <2>1. SUFFICES ASSUME IInv, Idle, core_egress_validated, ~IsArmed
                 PROVE  /\ phase = "running" /\ core = "running" /\ wfp = "off"
                        /\ journal.stage = "committed" /\ disk = journal
    BY DEF ReadinessIsReal
  <2>2. /\ phase = "running" /\ core = "running" /\ wfp = "off"
        /\ disk.stage = "committed"
    BY <2>1 DEF IInv, RunningIsCommitted, GuardIsTrue, Idle, IsArmed
  <2>3. journal.stage = disk.stage /\ journal.snapshot = disk.snapshot
    BY <2>1, <2>2 DEF IInv, MemoryIsDisk, Idle
  <2>4. disk = journal
    BY <2>1, <2>3 DEF IInv, TypeOK, Journals
  <2> QED BY <2>2, <2>3, <2>4
<1> QED BY <1>1, Invariance, PTL

\* The filters go only from armed to off in the steps that may take them away.
LEMMA ReleaseStep ==
  ASSUME MaxFaults \in Nat, IInv, Next, up, wfp = "armed", wfp' = "off"
  PROVE  Finish \/ ExplicitOff
<1>1. ~RollbackStep
  BY DEF RollbackStep, BeginRollback, StopRuntime, RestoreNetworkState,
         CompleteRollback, FinishRecovery
<1>2. ASSUME ConnectStep PROVE Finish
  BY <1>2 DEF ConnectStep, Prepare, GuardStarted, GuardStartFailed, Begin,
         Interrupted, RecordCoreStarted, RecordNetworkApplied, RecordVerified,
         RecordCommitted, RecordStage, StartCore, Verify, ProveDpi, Activate
<1>3. ~ReplaceStep
  BY DEF ReplaceStep, Restage, RestageInitialize, InitializeHost,
         CancelReplacement
<1>4. ~Request
  BY DEF Request, Initialize, InitializeHost, StageProfile, InvalidateProfile,
         Connect, ReplaceManagedProfile, GuardStarted, GuardStartFailed,
         Disconnect, CancelProtectedHandoff, MaintainWindowsLocalDpi,
         RetireStagedProfile, ChangeReadiness, Shutdown
<1>5. ~Machine
  BY DEF Machine, Exit, Crash, ProcessEnds, Restart,
         ClearTransitionGuardExplicitly, DamageJournal
<1> QED BY <1>1, <1>2, <1>3, <1>4, <1>5 DEF Next

\* GuardReleasedOnlyWhenSafe: Finish and ExplicitOff are reached only with a
\* verified session or with everything restored.
THEOREM Released == Spec => GuardReleasedOnlyWhenSafe
<1>1. ASSUME IInv, [Next]_vars, wfp = "armed", wfp' = "off"
      PROVE  \/ ~up
             \/ pc = "finish" /\ phase = "running" /\ core_egress_validated
                              /\ core = "running"
             \/ pc = "explicitOff" /\ core = "stopped"
                                   /\ (initialized => network = "user")
  <2>1. SUFFICES ASSUME up PROVE
             \/ pc = "finish" /\ phase = "running" /\ core_egress_validated
                              /\ core = "running"
             \/ pc = "explicitOff" /\ core = "stopped"
                                   /\ (initialized => network = "user")
    OBVIOUS
  <2>2. Next
    BY <1>1 DEF vars
  <2>3. CASE Finish
    BY <1>1, <2>3 DEF Finish, IInv, StepPhase, StepStopped, ConnectSteps
  <2>4. CASE ExplicitOff
    BY <1>1, <2>4 DEF ExplicitOff, IInv, TypeOK, StepStage, StepStopped,
       ActiveIsOnDisk, Active
  <2> QED BY <1>1, <2>1, <2>2, <2>3, <2>4, ReleaseStep, MaxFaultsAssumption
<1>2. IInv /\ [Next]_vars =>
        [wfp = "armed" /\ wfp' = "off" =>
           \/ ~up
           \/ pc = "finish" /\ phase = "running" /\ core_egress_validated
                            /\ core = "running"
           \/ pc = "explicitOff" /\ core = "stopped"
                                 /\ (initialized => network = "user")]_vars
  BY <1>1
<1> QED BY <1>2, Invariance, PTL DEF Spec, GuardReleasedOnlyWhenSafe

\* UnreadableIsPreserved: with stage invalid in memory BeginRollback and Begin
\* refuse, so nothing writes and nothing starts.
THEOREM Preserved == Spec => UnreadableIsPreserved
<1>1. ASSUME IInv, [Next]_vars, disk.stage = "invalid"
      PROVE  disk' = disk /\ ~(core = "stopped" /\ core' = "running")
  <2>1. up => journal.stage = "invalid"
    BY <1>1 DEF IInv, MemoryIsDisk
  <2>2. CASE RollbackStep
    BY <1>1, <2>1, <2>2 DEF IInv, StepStage, RollbackStep, BeginRollback,
       StopRuntime, RestoreNetworkState, CompleteRollback, FinishRecovery
  <2>3. CASE ConnectStep
    BY <1>1, <2>1, <2>3 DEF IInv, StepStage, ConnectStep, Prepare, Begin,
       Interrupted, RecordCoreStarted, RecordNetworkApplied, RecordVerified,
       RecordCommitted, RecordStage, StartCore, Verify, ProveDpi, Activate, Finish
  <2>4. CASE ReplaceStep \/ ExplicitOff
    BY <2>4 DEF ReplaceStep, Restage, RestageInitialize, InitializeHost,
       CancelReplacement, ExplicitOff
  <2>5. CASE Request
    BY <2>5 DEF Request, Initialize, InitializeHost, StageProfile,
       InvalidateProfile, Connect, ReplaceManagedProfile, Disconnect,
       CancelProtectedHandoff, MaintainWindowsLocalDpi, RetireStagedProfile,
       ChangeReadiness, Shutdown
  <2>6. CASE Machine
    BY <1>1, <2>6 DEF Machine, Exit, Crash, ProcessEnds, Restart,
       ClearTransitionGuardExplicitly, DamageJournal
  <2>7. CASE UNCHANGED vars
    BY <2>7 DEF vars
  <2> QED BY <1>1, <2>2, <2>3, <2>4, <2>5, <2>6, <2>7 DEF Next
<1>2. IInv /\ [Next]_vars =>
        [disk.stage = "invalid" =>
           disk' = disk /\ ~(core = "stopped" /\ core' = "running")]_vars
  BY <1>1
<1> QED BY <1>2, Invariance, PTL DEF Spec, UnreadableIsPreserved

=============================================================================

------------------------- MODULE WindowsRuntimeHost -------------------------
(***************************************************************************)
(* The runtime host of the Windows service with its recovery journal and   *)
(* its WFP transition guard:                                               *)
(*   service/service_runtime.cpp          (RuntimeHost)                    *)
(*   service/service_recovery.cpp         (DurableRuntimeRecovery)         *)
(*   service/service_transition_guard.cpp (Guard)                          *)
(*                                                                         *)
(* One thread at a time is inside the host (RuntimeDispatcher's            *)
(* execution_lock_), so a handler runs to its end before the next begins.  *)
(* What can come between its steps is the end of the process, a call that  *)
(* fails with or without having taken effect, and the cancellation the     *)
(* handler itself polls.  A handler is therefore cut at every call that    *)
(* changes something the process does not own: the journal file, the       *)
(* POKROV adapter's network settings, the persistent filters, the Core,    *)
(* the DPI child.                                                          *)
(***************************************************************************)
EXTENDS Naturals

CONSTANT MaxFaults  \* calls that may fail, crashes and damaged journals

ASSUME MaxFaultsAssumption == MaxFaults \in Nat

VARIABLES
  disk,           \* recovery-journal.v1: its stage and network snapshot
  network,        \* settings of the POKROV adapter: the user's, or the VPN's
  wfp,            \* the persistent block filters of the transition guard
  core,           \* the Core, inside the service process
  winws,          \* the DPI child, killed with the service by its Job
  up,             \* the service process runs
  journal,        \* stage_ and network_snapshot_; stage "invalid" is invalid_
  guard,          \* Guard::state_
  initialized, phase, profile_staged, requires_bound_connect,
  local_dpi_requested,
  local_dpi_preparation,    \* it is set
  core_egress_validated,
  pc,             \* the next step of the handler that holds execution_lock_
  after,          \* what the caller of the rollback does next
  begin_error,    \* BeginRollback returned an error
  replacing,      \* the handler is ReplaceManagedProfile, past Guard::Start
  faults

durableVars == <<disk, network, wfp>>
childVars == <<core, winws>>
profileVars == <<profile_staged, requires_bound_connect, local_dpi_requested>>
stateVars == <<initialized, phase, core_egress_validated>>
callVars == <<after, begin_error, replacing>>
vars == <<durableVars, childVars, up, journal, guard, stateVars, profileVars,
          local_dpi_preparation, pc, callVars, faults>>

Stages == {"clean", "snapshotted", "core_started", "network_applied",
           "verified", "committed", "rolling_back", "recovered", "invalid"}
Journals == [stage : Stages, snapshot : {"none", "user", "vpn"}]
CleanJournal == [stage |-> "clean", snapshot |-> "none"]

ConnectSteps == {"prepare", "begin", "recordCore", "startCore", "recordNetwork",
                 "verify", "proveDpi", "recordVerified", "recordCommitted",
                 "activate", "finish"}
RollbackSteps == {"rollBegin", "rollStop", "rollRestore", "rollComplete",
                  "rollClean"}
Steps == ConnectSteps \cup RollbackSteps \cup {"idle", "restage", "explicitOff", "exit"}

\* abort: ConnectImpl; settle: RecoverPendingRuntime and Disconnect(false);
\* unstage: Disconnect(false) of a caller that then drops the staged profile.
Continuations == {"abort", "settle", "unstage", "explicit", "shutdown"}

TypeOK ==
  /\ disk \in Journals /\ journal \in Journals
  /\ network \in {"user", "vpn"}
  /\ wfp \in {"off", "armed"}
  /\ guard \in {"off", "armed", "incomplete"}
  /\ core \in {"stopped", "running"}
  /\ phase \in {"artifactReady", "initialized", "configStaged", "running",
                "recoveryRequired"}
  /\ winws \in BOOLEAN /\ up \in BOOLEAN /\ initialized \in BOOLEAN
  /\ profile_staged \in BOOLEAN /\ requires_bound_connect \in BOOLEAN
  /\ local_dpi_requested \in BOOLEAN /\ local_dpi_preparation \in BOOLEAN
  /\ core_egress_validated \in BOOLEAN
  /\ begin_error \in BOOLEAN /\ replacing \in BOOLEAN
  /\ pc \in Steps /\ after \in Continuations
  /\ faults \in 0..MaxFaults

-----------------------------------------------------------------------------
(* Calls that fail.                                                        *)

Fault == faults < MaxFaults /\ faults' = faults + 1

\* DurableRuntimeRecovery::Write succeeded.
Written(entry) ==
  /\ journal' = entry /\ disk' = entry
  /\ UNCHANGED faults

\* Write failed: memory and the file keep the stage they had.
WriteFailed == Fault /\ UNCHANGED <<disk, journal>>

AtStage(stage) == [journal EXCEPT !.stage = stage]

\* Faulty: a guard that counts as armed is not read again.
GuardStartedCached ==
  /\ IF guard # "off" THEN UNCHANGED <<guard, wfp>>
                      ELSE guard' = "armed" /\ wfp' = "armed"
  /\ UNCHANGED faults

\* Guard::Start: the filters are read, installed in one transaction if they
\* are not there, and read again.
GuardStarted ==
  /\ guard' = "armed" /\ wfp' = "armed"
  /\ UNCHANGED faults

GuardStartFailed ==
  /\ Fault
  /\ guard' = "incomplete" /\ wfp' \in {wfp, "armed"}

\* Guard::ExplicitOff, and Finish which calls it.
GuardRemoved ==
  /\ guard' = "off" /\ wfp' = "off"
  /\ UNCHANGED faults

\* Faulty: a removal that was not confirmed is taken for done.
GuardRemoveFailedOff ==
  /\ Fault
  /\ guard' = "off" /\ wfp' \in {wfp, "off"}

GuardRemoveFailed ==
  /\ Fault
  /\ guard' = "incomplete" /\ wfp' \in {wfp, "off"}

\* Guard::IsArmed: what is not known to be off counts as armed.
IsArmed == guard # "off"

Idle == up /\ pc = "idle"

\* Disconnect has a session or an unfinished rollback to undo.
Undoable == initialized /\ phase \in {"running", "recoveryRequired"}

RollBack(continuation) ==
  /\ pc' = "rollBegin"
  /\ after' = continuation
  /\ UNCHANGED begin_error

Return == pc' = "idle" /\ replacing' = FALSE /\ UNCHANGED <<after, begin_error>>

-----------------------------------------------------------------------------
(* RollbackRuntime and RecoverPendingRuntime.                              *)

\* Faulty: a journal that cannot be read is started afresh.
BeginRollbackResets ==
  /\ up /\ pc = "rollBegin"
  /\ winws' \in {winws, FALSE}
  /\ \/ /\ journal.stage \in {"clean", "rolling_back"}
        /\ UNCHANGED <<journal, disk, faults>>
     \/ /\ journal.stage \in {"recovered", "invalid"}
        /\ Written(CleanJournal)
     \/ /\ journal.stage \notin {"clean", "rolling_back", "invalid", "recovered"}
        /\ Written(AtStage("rolling_back"))
  /\ begin_error' = FALSE
  /\ pc' = "rollStop"
  /\ UNCHANGED <<network, wfp, core, up, guard, stateVars, profileVars,
                 local_dpi_preparation, after, replacing>>

\* Faulty: a journal at recovered is sent through Record(rolling_back), which is
\* not a forward transition.
BeginRollbackBackward ==
  /\ up /\ pc = "rollBegin"
  /\ winws' \in {winws, FALSE}
  /\ \/ /\ journal.stage \in {"clean", "rolling_back", "invalid", "recovered"}
        /\ begin_error' = (journal.stage \in {"invalid", "recovered"})
        /\ UNCHANGED <<journal, disk, faults>>
     \/ /\ journal.stage \notin {"clean", "rolling_back", "invalid", "recovered"}
        /\ \/ Written(AtStage("rolling_back")) /\ begin_error' = FALSE
           \/ WriteFailed /\ begin_error' = TRUE
  /\ pc' = "rollStop"
  /\ UNCHANGED <<network, wfp, core, up, guard, stateVars, profileVars,
                 local_dpi_preparation, after, replacing>>

\* The DPI executor is stopped, its answer is ignored, and BeginRollback
\* records rolling_back unless the journal is past it.
BeginRollback ==
  /\ up /\ pc = "rollBegin"
  /\ winws' \in {winws, FALSE}
  /\ \/ /\ journal.stage \in {"clean", "rolling_back", "invalid"}
        /\ begin_error' = (journal.stage = "invalid")
        /\ UNCHANGED <<journal, disk, faults>>
     \/ /\ journal.stage = "recovered"
        /\ \/ Written(CleanJournal) /\ begin_error' = FALSE
           \/ WriteFailed /\ begin_error' = TRUE
     \/ /\ journal.stage \notin {"clean", "rolling_back", "invalid", "recovered"}
        /\ \/ Written(AtStage("rolling_back")) /\ begin_error' = FALSE
           \/ WriteFailed /\ begin_error' = TRUE
  /\ pc' = "rollStop"
  /\ UNCHANGED <<network, wfp, core, up, guard, stateVars, profileVars,
                 local_dpi_preparation, after, replacing>>

\* Faulty: a failed rollback leaves the phase of a successful one.
SettledRegardless(ok, staged) ==
  /\ phase' = IF after = "abort" \/ staged THEN "configStaged" ELSE "initialized"
  /\ core_egress_validated' = FALSE
  /\ profile_staged' = (staged /\ ~(ok /\ after = "unstage"))
  /\ pc' = IF after = "shutdown" THEN "exit"
           ELSE IF ok /\ after = "explicit" THEN "explicitOff"
           ELSE IF ok /\ after = "settle" /\ replacing THEN "restage"
           ELSE "idle"
  /\ replacing' = (replacing /\ pc' # "idle")
  /\ UNCHANGED <<up, initialized, requires_bound_connect, local_dpi_requested,
                 guard, after, begin_error>>

\* How the caller goes on after a rollback that succeeded or failed.  A
\* replacement goes on to stage its profile.
Settled(ok, staged) ==
  LET rest == IF staged THEN "configStaged" ELSE "initialized" IN
  /\ phase' = IF ~ok THEN "recoveryRequired"
              ELSE IF after = "abort" THEN "configStaged" ELSE rest
  /\ core_egress_validated' = FALSE
  /\ profile_staged' = (staged /\ ~(ok /\ after = "unstage"))
  /\ pc' = IF after = "shutdown" THEN "exit"
           ELSE IF ok /\ after = "explicit" THEN "explicitOff"
           ELSE IF ok /\ after = "settle" /\ replacing THEN "restage"
           ELSE "idle"
  /\ replacing' = (replacing /\ pc' # "idle")
  /\ UNCHANGED <<up, initialized, requires_bound_connect, local_dpi_requested,
                 guard, after, begin_error>>

\* core_->Stop() and ClearWindowsLocalDpiAfterCoreStopped, which writes the
\* staged profile back: if that fails the profile is no longer staged.  An
\* error of BeginRollback is returned only now.
StopRuntime ==
  /\ up /\ pc = "rollStop"
  /\ UNCHANGED <<disk, journal, wfp>>
  /\ \/ /\ core' = "stopped" /\ winws' = FALSE
        /\ network' \in {network, "user"}
        /\ local_dpi_preparation' = FALSE
        /\ \E rewritten \in BOOLEAN :
             /\ IF rewritten \/ ~profile_staged THEN UNCHANGED faults ELSE Fault
             /\ IF begin_error
                THEN Settled(FALSE, profile_staged /\ rewritten)
                ELSE /\ pc' = "rollRestore"
                     /\ profile_staged' = (profile_staged /\ rewritten)
                     /\ UNCHANGED <<up, guard, stateVars, requires_bound_connect,
                                    local_dpi_requested, callVars>>
     \/ /\ Fault
        /\ \/ core' = "stopped" /\ network' \in {network, "user"}  \* DPI child kept
           \/ UNCHANGED <<core, network>>                    \* Core not stopped
        /\ UNCHANGED <<winws, local_dpi_preparation>>
        /\ Settled(FALSE, profile_staged)

\* Faulty: an adapter that could not be restored does not stop the rollback.
RestoreBestEffort ==
  /\ up /\ pc = "rollRestore"
  /\ \/ /\ network' = IF journal.stage = "clean" THEN network ELSE journal.snapshot
        /\ UNCHANGED faults
     \/ Fault /\ network' \in {"user", "vpn"}
  /\ pc' = "rollComplete"
  /\ UNCHANGED <<disk, wfp, journal, childVars, local_dpi_preparation, up, guard,
                 stateVars, profileVars, callVars>>

\* RestoreNetworkState.
RestoreNetworkState ==
  /\ up /\ pc = "rollRestore"
  /\ \/ /\ network' = IF journal.stage = "clean" THEN network ELSE journal.snapshot
        /\ pc' = "rollComplete"
        /\ UNCHANGED <<up, guard, stateVars, profileVars, callVars, faults>>
     \/ /\ journal.stage # "clean"
        /\ Fault
        /\ network' \in {"user", "vpn"}
        /\ Settled(FALSE, profile_staged)
  /\ UNCHANGED <<disk, wfp, journal, childVars, local_dpi_preparation>>

\* CompleteRollback: recovered, then clean with no snapshot.
CompleteRollback ==
  /\ up /\ pc = "rollComplete"
  /\ \/ /\ journal.stage = "clean"
        /\ Settled(TRUE, profile_staged)
        /\ UNCHANGED <<disk, journal, faults>>
     \/ /\ journal.stage = "rolling_back"
        /\ Written(AtStage("recovered"))
        /\ pc' = "rollClean"
        /\ UNCHANGED <<up, guard, stateVars, profileVars, callVars>>
     \/ /\ journal.stage = "rolling_back"
        /\ WriteFailed
        /\ Settled(FALSE, profile_staged)
  /\ UNCHANGED <<network, wfp, childVars, local_dpi_preparation>>

FinishRecovery ==
  /\ up /\ pc = "rollClean"
  /\ \/ Written(CleanJournal) /\ Settled(TRUE, profile_staged)
     \/ WriteFailed /\ Settled(FALSE, profile_staged)
  /\ UNCHANGED <<network, wfp, childVars, local_dpi_preparation>>

-----------------------------------------------------------------------------
(* ConnectImpl.                                                            *)

\* Connect and ConnectWithIdentity: a staged profile, no session, no
\* unfinished recovery.
Connect ==
  /\ Idle /\ initialized /\ profile_staged
  /\ phase \notin {"running", "recoveryRequired"}
  /\ pc' = "prepare"
  /\ UNCHANGED <<durableVars, childVars, up, journal, guard, stateVars,
                 profileVars, local_dpi_preparation, callVars, faults>>

\* Up to recovery_->Begin(): the profile is written and, if it asks for local
\* DPI and the Core can prepare it, the guard is started unless it counts as
\* armed already.
Prepare ==
  /\ up /\ pc = "prepare"
  /\ \/ /\ local_dpi_preparation' = FALSE       \* no DPI in this session
        /\ pc' = "begin"
        /\ UNCHANGED <<wfp, guard, callVars, faults>>
     \/ /\ local_dpi_preparation' = FALSE       \* cancelled, or a write failed
        /\ Return
        /\ UNCHANGED <<wfp, guard, faults>>
     \/ /\ local_dpi_requested
        /\ IF IsArmed THEN UNCHANGED <<wfp, guard, faults>> ELSE GuardStarted
        /\ local_dpi_preparation' = TRUE
        /\ \/ pc' = "begin" /\ UNCHANGED callVars
           \/ Return                            \* the prepared profile's write
     \/ /\ local_dpi_requested /\ ~IsArmed
        /\ GuardStartFailed
        /\ local_dpi_preparation' = FALSE
        /\ Return
  /\ UNCHANGED <<disk, network, childVars, up, journal, stateVars, profileVars>>

\* recovery_->Begin(): capture the adapter's settings, record snapshotted.
\* The snapshot taken stays in memory when the write fails.
Begin ==
  LET entry == [stage |-> "snapshotted", snapshot |-> network] IN
  /\ up /\ pc = "begin"
  /\ \/ /\ journal.stage = "clean"
        /\ Written(entry)
        /\ pc' = "recordCore" /\ UNCHANGED callVars
     \/ /\ journal.stage = "clean"
        /\ Fault
        /\ UNCHANGED disk
        /\ journal' \in {journal, [journal EXCEPT !.snapshot = network]}
        /\ Return
     \/ /\ journal.stage # "clean"
        /\ Return
        /\ UNCHANGED <<disk, journal, faults>>
  /\ UNCHANGED <<network, wfp, childVars, up, guard, stateVars, profileVars,
                 local_dpi_preparation>>

\* The interruption(true) checks: cancelled, past the deadline, or another Core
\* module than the one the caller named.
Interrupted ==
  /\ up
  /\ pc \in {"recordCore", "startCore", "recordNetwork", "verify",
             "recordCommitted", "activate"}
  /\ RollBack("abort")
  /\ UNCHANGED <<durableVars, childVars, up, journal, guard, stateVars,
                 profileVars, local_dpi_preparation, replacing, faults>>

\* recovery_->Record(stage) in ConnectImpl.
RecordStage(step, stage, next) ==
  /\ up /\ pc = step
  /\ \/ Written(AtStage(stage)) /\ pc' = next /\ UNCHANGED callVars
     \/ WriteFailed /\ RollBack("abort") /\ UNCHANGED replacing
  /\ UNCHANGED <<network, wfp, childVars, up, guard, stateVars, profileVars,
                 local_dpi_preparation>>

RecordCoreStarted == RecordStage("recordCore", "core_started", "startCore")

\* core_->Start, which also brings the adapter, its routes and its DNS up.
StartCore ==
  /\ up /\ pc = "startCore"
  /\ \/ /\ core' = "running" /\ network' = "vpn"
        /\ pc' = "recordNetwork" /\ UNCHANGED callVars
     \/ /\ core' \in {core, "running"} /\ network' \in {network, "vpn"}
        /\ RollBack("abort") /\ UNCHANGED replacing
  /\ UNCHANGED <<disk, wfp, winws, up, journal, guard, stateVars, profileVars,
                 local_dpi_preparation, faults>>

RecordNetworkApplied == RecordStage("recordNetwork", "network_applied", "verify")

\* VerifyEgress, not asked of a profile that requires a bound connect.
Verify ==
  /\ up /\ pc = "verify"
  /\ \/ /\ pc' = IF local_dpi_preparation THEN "proveDpi" ELSE "recordVerified"
        /\ UNCHANGED callVars
     \/ ~requires_bound_connect /\ RollBack("abort") /\ UNCHANGED replacing
  /\ UNCHANGED <<durableVars, childVars, up, journal, guard, stateVars,
                 profileVars, local_dpi_preparation, faults>>

\* The DPI child is started and proved.  Without a proof it is withdrawn and the
\* session goes on; a failed withdrawal or an expired catalog ends it.
ProveDpi ==
  /\ up /\ pc = "proveDpi"
  /\ winws' \in BOOLEAN
  /\ \/ pc' = "recordVerified" /\ UNCHANGED callVars
     \/ RollBack("abort") /\ UNCHANGED replacing
  /\ UNCHANGED <<durableVars, core, up, journal, guard, stateVars, profileVars,
                 local_dpi_preparation, faults>>

RecordVerified == RecordStage("recordVerified", "verified", "recordCommitted")

RecordCommitted == RecordStage("recordCommitted", "committed", "activate")

\* Faulty: the guard is released for a session whose egress nobody verified.
ActivateUnverified ==
  /\ up /\ pc = "activate"
  /\ phase' = "running"
  /\ core_egress_validated' = ~requires_bound_connect
  /\ IF replacing \/ IsArmed THEN pc' = "finish" /\ UNCHANGED callVars ELSE Return
  /\ UNCHANGED <<durableVars, childVars, up, journal, guard, initialized,
                 profileVars, local_dpi_preparation, faults>>

\* The session is published.  A connect releases a guard it finds armed once
\* egress is verified; a replacement always goes on to release it.
Activate ==
  /\ up /\ pc = "activate"
  /\ phase' = "running"
  /\ core_egress_validated' = ~requires_bound_connect
  /\ IF replacing \/ (core_egress_validated' /\ IsArmed)
     THEN pc' = "finish" /\ UNCHANGED callVars
     ELSE Return
  /\ UNCHANGED <<durableVars, childVars, up, journal, guard, initialized,
                 profileVars, local_dpi_preparation, faults>>

\* transition_guard_->Finish().
Finish ==
  /\ up /\ pc = "finish"
  /\ \/ GuardRemoved /\ UNCHANGED core_egress_validated
     \/ GuardRemoveFailed /\ core_egress_validated' = FALSE
  /\ Return
  /\ UNCHANGED <<disk, network, childVars, up, journal, initialized, phase,
                 profileVars, local_dpi_preparation>>

-----------------------------------------------------------------------------
(* The other handlers.                                                     *)

\* Initialize, alone, at startup, or first thing in StageProfile.  The caller
\* of a handler that stages is left in replacing.
InitializeHost ==
  /\ up /\ ~initialized
  /\ initialized' = TRUE
  /\ phase' = "initialized"
  /\ UNCHANGED <<durableVars, childVars, up, journal, guard, profileVars,
                 core_egress_validated, local_dpi_preparation, replacing>>

Initialize ==
  /\ Idle
  /\ InitializeHost
  /\ IF journal.stage = "clean" THEN UNCHANGED <<pc, after, begin_error>>
                                ELSE RollBack("settle")
  /\ UNCHANGED faults

\* StageProfile and StageBoundProfile after Initialize.
StageProfile ==
  /\ Idle /\ initialized /\ phase \notin {"running", "recoveryRequired"}
  /\ requires_bound_connect' \in BOOLEAN
  /\ local_dpi_requested' \in BOOLEAN
  /\ profile_staged' = TRUE
  /\ phase' = "configStaged"
  /\ UNCHANGED <<durableVars, childVars, up, journal, guard, initialized,
                 core_egress_validated, local_dpi_preparation, pc, callVars,
                 faults>>

InvalidateProfile ==
  /\ Idle /\ phase \notin {"running", "recoveryRequired"}
  /\ winws' = FALSE
  /\ local_dpi_preparation' = FALSE
  /\ profile_staged' = FALSE /\ requires_bound_connect' = FALSE
  /\ local_dpi_requested' = FALSE
  /\ phase' = IF initialized THEN "initialized" ELSE "artifactReady"
  /\ UNCHANGED <<durableVars, core, up, journal, guard, initialized,
                 core_egress_validated, pc, callVars, faults>>

\* ReplaceManagedProfile: start the guard, then Disconnect(false).
ReplaceManagedProfile ==
  /\ Idle /\ ~requires_bound_connect
  /\ phase = "running" \/ IsArmed
  /\ \/ /\ GuardStarted
        /\ replacing' = TRUE
        /\ IF Undoable THEN RollBack("settle")
           ELSE pc' = "restage" /\ UNCHANGED <<after, begin_error>>
     \/ GuardStartFailed /\ UNCHANGED <<pc, callVars>>
  /\ UNCHANGED <<disk, network, childVars, up, journal, stateVars, profileVars,
                 local_dpi_preparation>>

\* The middle of a replacement: interrupted, refused, or staged.
Restage ==
  /\ up /\ pc = "restage"
  /\ \/ Return /\ UNCHANGED <<phase, profileVars>>
     \/ /\ initialized
        /\ profile_staged' = TRUE /\ requires_bound_connect' = FALSE
        /\ local_dpi_requested' \in BOOLEAN
        /\ phase' = "configStaged"
        /\ pc' = "prepare" /\ UNCHANGED callVars
  /\ UNCHANGED <<durableVars, childVars, up, journal, guard, initialized,
                 core_egress_validated, local_dpi_preparation, faults>>

\* A replacement after a service restart initializes the host first.
RestageInitialize ==
  /\ pc = "restage"
  /\ InitializeHost
  /\ IF journal.stage = "clean" THEN UNCHANGED <<pc, after, begin_error>>
                                ELSE RollBack("settle")
  /\ UNCHANGED faults

\* A replacement cancelled between its commit and Finish.
CancelReplacement ==
  /\ up /\ pc = "finish" /\ replacing
  /\ pc' = "rollBegin" /\ after' = "settle" /\ replacing' = FALSE
  /\ UNCHANGED <<durableVars, childVars, up, journal, guard, stateVars,
                 profileVars, local_dpi_preparation, begin_error, faults>>

\* Disconnect(true): the client's disconnect, an owner that died, a lease that
\* ended, a promotion or a revocation that failed.
Disconnect ==
  /\ Idle
  /\ IF Undoable THEN RollBack("explicit")
     ELSE pc' = "explicitOff" /\ UNCHANGED <<after, begin_error>>
  /\ UNCHANGED <<durableVars, childVars, up, journal, guard, stateVars,
                 profileVars, local_dpi_preparation, replacing, faults>>

ExplicitOff ==
  /\ up /\ pc = "explicitOff"
  /\ GuardRemoved \/ GuardRemoveFailed
  /\ Return
  /\ UNCHANGED <<disk, network, childVars, up, journal, stateVars, profileVars,
                 local_dpi_preparation>>

\* CancelProtectedHandoff: the guard first, then Disconnect(false).  Its callers
\* are a cancellation that came after the commit, a revoked or expired catalog,
\* after which the profile is not staged any more, and a DPI child that could
\* not be withdrawn.
CancelProtectedHandoff ==
  /\ Idle /\ phase = "running"
  /\ \/ /\ GuardStarted
        /\ \/ RollBack("settle")
           \/ local_dpi_preparation /\ RollBack("unstage")
     \/ GuardStartFailed /\ UNCHANGED <<pc, after, begin_error>>
  /\ UNCHANGED <<disk, network, childVars, up, journal, stateVars, profileVars,
                 local_dpi_preparation, replacing>>

\* MaintainWindowsLocalDpi short of ending the session: the child is stopped
\* or replaced.
MaintainWindowsLocalDpi ==
  /\ Idle /\ phase = "running" /\ local_dpi_preparation
  /\ winws' \in BOOLEAN
  /\ UNCHANGED <<durableVars, core, up, journal, guard, stateVars, profileVars,
                 local_dpi_preparation, pc, callVars, faults>>

\* The Smart Access and routing catalog commands that make the staged bytes
\* unusable for a later connect while the session goes on.
RetireStagedProfile ==
  /\ Idle /\ phase = "running"
  /\ profile_staged' = FALSE
  /\ UNCHANGED <<durableVars, childVars, up, journal, guard, stateVars,
                 requires_bound_connect, local_dpi_requested,
                 local_dpi_preparation, pc, callVars, faults>>

\* RecheckEgress, PromoteTransportLease and RevokeTransportLease.
RecheckEgress ==
  /\ Idle /\ phase = "running" /\ ~requires_bound_connect /\ ~IsArmed
  /\ core_egress_validated' \in BOOLEAN

PromoteTransportLease ==
  /\ Idle /\ initialized /\ phase = "running" /\ requires_bound_connect
  /\ core_egress_validated' = TRUE

RevokeTransportLease ==
  /\ Idle /\ initialized /\ phase = "running" /\ requires_bound_connect
  /\ core_egress_validated' = FALSE

ChangeReadiness ==
  /\ RecheckEgress \/ PromoteTransportLease \/ RevokeTransportLease
  /\ UNCHANGED <<durableVars, childVars, up, journal, guard, initialized, phase,
                 profileVars, local_dpi_preparation, pc, callVars, faults>>

\* Shutdown, after the last client.
Shutdown ==
  /\ Idle
  /\ winws' \in {winws, FALSE}
  /\ IF Undoable THEN RollBack("shutdown")
     ELSE pc' = "exit" /\ UNCHANGED <<after, begin_error>>
  /\ UNCHANGED <<durableVars, core, up, journal, guard, stateVars, profileVars,
                 local_dpi_preparation, replacing, faults>>

-----------------------------------------------------------------------------
(* The machine.                                                            *)

\* The process ends.  The Core and the DPI child end with it and the adapter may
\* go or stay; the journal and the filters stay.
ProcessEnds ==
  /\ up' = FALSE
  /\ core' = "stopped" /\ winws' = FALSE
  /\ network' \in {network, "user"}
  /\ pc' = "idle" /\ replacing' = FALSE
  /\ UNCHANGED <<disk, wfp, journal, guard, stateVars, profileVars,
                 local_dpi_preparation, after, begin_error>>

Exit == up /\ pc = "exit" /\ ProcessEnds /\ UNCHANGED faults

\* The process or the machine fails.
Crash == up /\ Fault /\ ProcessEnds

\* RunPipeServer: a new host loads the journal, adopts the filters it finds and,
\* if the journal is not clean, initializes and recovers before it serves.
Restart ==
  /\ ~up
  /\ up' = TRUE
  /\ journal' = disk
  /\ profile_staged' = FALSE /\ requires_bound_connect' = FALSE
  /\ local_dpi_requested' = FALSE /\ local_dpi_preparation' = FALSE
  /\ core_egress_validated' = FALSE
  /\ \E failed \in BOOLEAN :
       /\ IF failed THEN Fault /\ guard' \in {wfp, "incomplete"}
                    ELSE guard' = wfp /\ UNCHANGED faults
       /\ \/ /\ disk.stage # "clean"
             /\ initialized' = TRUE /\ phase' = "initialized"
             /\ RollBack("settle")
          \/ /\ disk.stage = "clean" \/ failed    \* core_->Initialize failed
             /\ initialized' = FALSE /\ phase' = "artifactReady"
             /\ UNCHANGED <<pc, after, begin_error>>
  /\ UNCHANGED <<durableVars, childVars, replacing>>

\* pokrov_service.exe --clear-transition-guard, once the service has stopped.
ClearTransitionGuardExplicitly ==
  /\ ~up
  /\ wfp' = "off"
  /\ UNCHANGED <<disk, network, childVars, up, journal, guard, stateVars,
                 profileVars, local_dpi_preparation, pc, callVars, faults>>

\* The journal is damaged, or written by a version this one cannot read.
DamageJournal ==
  /\ ~up /\ Fault
  /\ disk.stage # "invalid"
  /\ disk' = [disk EXCEPT !.stage = "invalid"]
  /\ UNCHANGED <<network, wfp, childVars, up, journal, guard, stateVars,
                 profileVars, local_dpi_preparation, pc, callVars>>

Init ==
  /\ disk = CleanJournal /\ journal = CleanJournal
  /\ network = "user" /\ wfp = "off" /\ guard = "off"
  /\ core = "stopped" /\ winws = FALSE /\ up = FALSE
  /\ initialized = FALSE /\ phase = "artifactReady"
  /\ profile_staged = FALSE /\ requires_bound_connect = FALSE
  /\ local_dpi_requested = FALSE /\ local_dpi_preparation = FALSE
  /\ core_egress_validated = FALSE
  /\ pc = "idle" /\ after = "settle" /\ begin_error = FALSE /\ replacing = FALSE
  /\ faults = 0

RollbackStep ==
  \/ BeginRollback \/ StopRuntime \/ RestoreNetworkState
  \/ CompleteRollback \/ FinishRecovery

ConnectStep ==
  \/ Prepare \/ Begin \/ Interrupted \/ RecordCoreStarted \/ StartCore
  \/ RecordNetworkApplied \/ Verify \/ ProveDpi \/ RecordVerified
  \/ RecordCommitted \/ Activate \/ Finish

ReplaceStep == Restage \/ RestageInitialize \/ CancelReplacement

Request ==
  \/ Initialize \/ StageProfile \/ InvalidateProfile \/ Connect
  \/ ReplaceManagedProfile \/ Disconnect \/ CancelProtectedHandoff
  \/ MaintainWindowsLocalDpi \/ RetireStagedProfile \/ ChangeReadiness
  \/ Shutdown

Machine == Exit \/ Crash \/ Restart \/ ClearTransitionGuardExplicitly \/ DamageJournal

Next == RollbackStep \/ ConnectStep \/ ReplaceStep \/ ExplicitOff \/ Request
        \/ Machine

Spec == Init /\ [][Next]_vars

HandlerStep == RollbackStep \/ ConnectStep \/ ReplaceStep \/ ExplicitOff \/ Exit

\* A handler that has begun goes on, the service manager starts the service, a
\* client initializes it and, shown recovery_required, asks to disconnect again.
\* Other clients may get in between, so the requests need strong fairness.
FairSpec ==
  /\ Spec
  /\ WF_vars(HandlerStep)
  /\ WF_vars(Restart)
  /\ SF_vars(Initialize)
  /\ SF_vars(phase = "recoveryRequired" /\ Disconnect)

-----------------------------------------------------------------------------
(* Properties.                                                             *)

\* Whenever the adapter does not hold the user's settings, or the Core runs, the
\* journal on disk says so and holds the user's settings, so that the next
\* service process can put them back: a crash between any two steps, and any
\* write that fails with or without reaching the disk, loses nothing.
NetworkIsRecoverable ==
  network # "user" \/ core = "running" =>
    \/ disk.stage = "invalid"
    \/ /\ disk.stage \in {"core_started", "network_applied", "verified",
                          "committed", "rolling_back"}
       /\ disk.snapshot = "user"

\* A host that shows neither a session nor recovery_required has nothing left of
\* the last session: clean journal, the user's network, no Core, no DPI child.
IdleIsRestored ==
  Idle /\ initialized /\ phase \notin {"running", "recoveryRequired"} =>
    /\ journal.stage = "clean"
    /\ network = "user" /\ core = "stopped" /\ ~winws

\* While a replacement is under way, from the moment the old session is touched
\* until the new one is verified and committed, the block filters are in place.
HandoverIsGuarded == replacing => wfp = "armed"

\* The readiness the snapshot reports (validated and not guarded) is that of a
\* committed session with a running Core and no filter left in its way.
ReadinessIsReal ==
  Idle /\ core_egress_validated /\ ~IsArmed =>
    /\ phase = "running" /\ core = "running" /\ wfp = "off"
    /\ journal.stage = "committed" /\ disk = journal

\* The filters are only ever removed for a session whose egress was verified,
\* by an explicit disconnect that has restored the network, or by the repair
\* command with the service stopped.
GuardReleasedOnlyWhenSafe ==
  [][wfp = "armed" /\ wfp' = "off" =>
       \/ ~up
       \/ pc = "finish" /\ phase = "running" /\ core_egress_validated
                        /\ core = "running"
       \/ pc = "explicitOff" /\ core = "stopped"
                             /\ (initialized => network = "user")]_vars

\* A journal the service cannot read is kept as it is and no Core is started
\* over it.
UnreadableIsPreserved ==
  [][disk.stage = "invalid" => disk' = disk /\ ~(core = "stopped" /\ core' = "running")]_vars

\* The filters block while the DPI child is proved: "The transition guard remains
\* armed through DPI proof and admission" (ConnectImpl).
DpiProofIsGuarded == pc = "proveDpi" => wfp = "armed"

\* Once calls stop failing, a host in recovery_required ends with a clean journal
\* and the user's network, whatever step the recovery failed at before and even
\* if the service stops or crashes in between; unless the journal is unreadable.
RecoveryEnds ==
  up /\ phase = "recoveryRequired" ~>
    \/ disk.stage = "clean" /\ network = "user" /\ core = "stopped"
    \/ disk.stage = "invalid"

=============================================================================

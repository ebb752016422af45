------------------------- MODULE LinuxProfileStore -------------------------
(***************************************************************************)
(* The profile store of the Linux daemon and the service handlers that     *)
(* stage, invalidate and start a profile:                                  *)
(*   internal/profile/store.go and, of internal/service/service_linux.go,  *)
(*   stageProfile, the invalidate_profile case of Handle and the admission *)
(*   half of connect.                                                      *)
(*                                                                         *)
(* A profile that was staged "bound" may only be started by a connect that *)
(* names its digest.  On disk this is a marker file beside the profile.    *)
(* The two files are two directory entries, and a directory entry is       *)
(* durable only after the directory is synced.  Each entry is therefore    *)
(* modelled by what the running system sees and by the set of values it    *)
(* may have after a power loss.                                            *)
(***************************************************************************)
CONSTANTS
  Profiles,       \* profile payloads, identified by their digest
  NoProfile,      \* active-profile.json does not exist
  NoDigest        \* the empty stagedProfileDigest

\* stage_bound_profile and stage_profile
Modes == {"bound", "open"}

\* A staged payload remembers, for the properties only, how it was staged.
Staged == [id : Profiles, mode : Modes]

ASSUME ProfileAssumption == NoProfile \notin Staged /\ NoDigest \notin Profiles

VARIABLES
  profile,        \* active-profile.json as the running system sees it
  marker,         \* active-profile.bound-only: "present" or "absent"
  profileDisk,    \* values active-profile.json may have after a power loss
  markerDisk,     \* values of marker possible after a power loss
  pc,             \* the step of the request that holds service.mu
  request,        \* the profile being staged
  stagedProfileDigest,
  boundStageCurrent,
  session         \* what the Core child was started with

diskVars == <<profile, marker, profileDisk, markerDisk>>
serviceVars == <<stagedProfileDigest, boundStageCurrent>>
vars == <<diskVars, pc, request, serviceVars, session>>

Contents == Staged \cup {NoProfile}
Sessions == [by : {"none", "legacy", "bound"}, content : Contents]

NoSession == [by |-> "none", content |-> NoProfile]

\* service.transaction # nil.  recoveryRequired, which also refuses a stage, an
\* invalidation and a bound connect, only removes behaviours here.
Live == session.by # "none"

Steps == {"idle", "mark", "syncMark", "write", "syncWrite", "unmark",
          "invalidate", "syncInvalidate", "invalidateUnmark"}

TypeOK ==
  /\ profileDisk \subseteq Contents
  /\ markerDisk \subseteq {"present", "absent"}
  /\ profile \in profileDisk
  /\ marker \in markerDisk
  /\ pc \in Steps
  /\ request \in Staged
  /\ stagedProfileDigest \in Profiles \cup {NoDigest}
  /\ boundStageCurrent \in BOOLEAN
  /\ session \in Sessions

Init ==
  /\ profile = NoProfile /\ profileDisk = {NoProfile}
  /\ marker = "absent" /\ markerDisk = {"absent"}
  /\ pc = "idle"
  /\ request \in Staged
  /\ stagedProfileDigest = NoDigest
  /\ boundStageCurrent = FALSE
  /\ session = NoSession

(***************************************************************************)
(* Directory operations.                                                   *)
(***************************************************************************)

\* os.Rename onto, or os.Remove of, active-profile.json: seen at once,
\* durable at some later time.
PutProfile(value) ==
  /\ profile' = value
  /\ profileDisk' = profileDisk \cup {value}
  /\ UNCHANGED <<marker, markerDisk>>

PutMarker(value) ==
  /\ marker' = value
  /\ markerDisk' = markerDisk \cup {value}
  /\ UNCHANGED <<profile, profileDisk>>

\* syncDirectory: every entry of the directory is now durable.
SyncDirectory ==
  /\ profileDisk' = {profile}
  /\ markerDisk' = {marker}
  /\ UNCHANGED <<profile, marker>>

(***************************************************************************)
(* stage_profile and stage_bound_profile.  service.mu is held from Stage   *)
(* to StageDone or StageError, so no other request runs in between.        *)
(***************************************************************************)

\* stageProfile: refused while a transaction exists; StageBound begins with
\* the marker, Stage with the profile.
Stage(p, mode) ==
  /\ pc = "idle"
  /\ ~Live
  /\ request' = [id |-> p, mode |-> mode]
  /\ pc' = IF mode = "bound" THEN "mark" ELSE "write"
  /\ UNCHANGED <<diskVars, serviceVars, session>>

\* stageProfile, the error branch: storage may have replaced the profile
\* before it failed.
StageError ==
  /\ boundStageCurrent' = FALSE
  /\ pc' = "idle"
  /\ UNCHANGED stagedProfileDigest

\* stageProfile, the success branch.
StageDone ==
  /\ stagedProfileDigest' = request.id
  /\ boundStageCurrent' = (request.mode = "bound")
  /\ pc' = "idle"

\* The bound marker is created, written, synced and renamed into place.
WriteMarker ==
  /\ pc = "mark"
  /\ \/ PutMarker("present") /\ pc' = "syncMark" /\ UNCHANGED serviceVars
     \/ UNCHANGED diskVars /\ StageError
  /\ UNCHANGED <<request, session>>

\* Faulty: the directory is not synced after the marker is renamed.
PersistMarkerUnsynced ==
  /\ pc = "syncMark"
  /\ pc' = "write"
  /\ UNCHANGED <<diskVars, serviceVars, request, session>>

\* The marker must be durable before the bound profile can replace the old.
PersistMarker ==
  /\ pc = "syncMark"
  /\ \/ SyncDirectory /\ pc' = "write" /\ UNCHANGED serviceVars
     \/ UNCHANGED diskVars /\ StageError
  /\ UNCHANGED <<request, session>>

\* The profile is written to a temporary file, synced and renamed.  A bound
\* stage is then complete; an unbound one still has to drop the marker, after
\* a sync when there is one.
WriteProfile ==
  /\ pc = "write"
  /\ \/ /\ PutProfile(request)
        /\ \/ request.mode = "bound" /\ StageDone
           \/ /\ request.mode = "open"
              /\ pc' = IF marker = "present" THEN "syncWrite" ELSE "unmark"
              /\ UNCHANGED serviceVars
     \/ UNCHANGED diskVars /\ StageError
  /\ UNCHANGED <<request, session>>

PersistProfile ==
  /\ pc = "syncWrite"
  /\ \/ SyncDirectory /\ pc' = "unmark" /\ UNCHANGED serviceVars
     \/ UNCHANGED diskVars /\ StageError
  /\ UNCHANGED <<request, session>>

\* os.Remove of the marker; ErrNotExist is success.
ClearMarker ==
  /\ pc = "unmark"
  /\ \/ PutMarker("absent") /\ StageDone
     \/ UNCHANGED diskVars /\ StageError
  /\ UNCHANGED <<request, session>>

(***************************************************************************)
(* invalidate_profile.                                                     *)
(***************************************************************************)

Invalidate ==
  /\ pc = "idle"
  /\ ~Live
  /\ pc' = "invalidate"
  /\ UNCHANGED <<diskVars, request, serviceVars, session>>

\* The handler's error branch returns without touching the service's state.
InvalidateError ==
  /\ pc' = "idle"
  /\ UNCHANGED serviceVars

\* Remove the profile when it exists.
InvalidateProfile ==
  /\ pc = "invalidate"
  /\ \/ /\ PutProfile(NoProfile)
        /\ pc' = IF marker = "present" THEN "syncInvalidate" ELSE "invalidateUnmark"
        /\ UNCHANGED serviceVars
     \/ UNCHANGED diskVars /\ InvalidateError
  /\ UNCHANGED <<request, session>>

\* Faulty: the marker may go before the profile's removal is durable.
PersistInvalidationUnsynced ==
  /\ pc = "syncInvalidate"
  /\ pc' = "invalidateUnmark"
  /\ UNCHANGED <<diskVars, serviceVars, request, session>>

PersistInvalidation ==
  /\ pc = "syncInvalidate"
  /\ \/ SyncDirectory /\ pc' = "invalidateUnmark" /\ UNCHANGED serviceVars
     \/ UNCHANGED diskVars /\ InvalidateError
  /\ UNCHANGED <<request, session>>

InvalidateMarker ==
  /\ pc = "invalidateUnmark"
  /\ \/ /\ PutMarker("absent")
        /\ stagedProfileDigest' = NoDigest
        /\ boundStageCurrent' = FALSE
        /\ pc' = "idle"
     \/ UNCHANGED diskVars /\ InvalidateError
  /\ UNCHANGED <<request, session>>

(***************************************************************************)
(* connect and connect_with_identity, as far as the profile is concerned.  *)
(***************************************************************************)

\* expected = nil: refused while the marker exists.
LegacyConnect ==
  /\ pc = "idle"
  /\ ~Live
  /\ marker = "absent"
  /\ profile # NoProfile
  /\ session' = [by |-> "legacy", content |-> profile]
  /\ UNCHANGED <<diskVars, pc, request, serviceVars>>

\* connect_with_identity for digest d: the digest must be the one this
\* process staged bound, and the prepared Core must report it.
BoundConnect(d) ==
  /\ pc = "idle"
  /\ ~Live
  /\ boundStageCurrent /\ marker = "present" /\ stagedProfileDigest = d
  /\ profile # NoProfile
  /\ profile.id = d
  /\ session' = [by |-> "bound", content |-> profile]
  /\ UNCHANGED <<diskVars, pc, request, serviceVars>>

Disconnect ==
  /\ pc = "idle"
  /\ Live
  /\ session' = NoSession
  /\ UNCHANGED <<diskVars, pc, request, serviceVars>>

(***************************************************************************)
(* Failures.                                                               *)
(***************************************************************************)

\* A new daemon process: the fields of Service are zero.
Restart ==
  /\ pc' = "idle"
  /\ stagedProfileDigest' = NoDigest
  /\ boundStageCurrent' = FALSE
  /\ session' = NoSession
  /\ UNCHANGED request

\* The daemon dies between two steps; the kernel keeps the directory.
DaemonCrash ==
  /\ UNCHANGED diskVars
  /\ Restart

\* Power is lost: each entry comes back with any value not yet superseded
\* by a sync.
PowerLoss ==
  /\ profile' \in profileDisk
  /\ marker' \in markerDisk
  /\ profileDisk' = {profile'}
  /\ markerDisk' = {marker'}
  /\ Restart

Next ==
  \/ \E p \in Profiles, mode \in Modes : Stage(p, mode)
  \/ WriteMarker \/ PersistMarker \/ WriteProfile \/ PersistProfile \/ ClearMarker
  \/ Invalidate \/ InvalidateProfile \/ PersistInvalidation \/ InvalidateMarker
  \/ LegacyConnect \/ Disconnect
  \/ \E d \in Profiles : BoundConnect(d)
  \/ DaemonCrash \/ PowerLoss

Spec == Init /\ [][Next]_vars

(***************************************************************************)
(* Properties.                                                             *)
(***************************************************************************)

\* Whatever a crash or a power loss leaves of store.stage and
\* store.Invalidate, a payload that was staged bound is never on disk without
\* its marker: no value the profile entry may come back with is bound while
\* the marker entry may come back absent.
BoundNeverUnmarked ==
  \A value \in profileDisk :
    (value # NoProfile /\ value.mode = "bound") => markerDisk = {"present"}

\* A legacy connect never starts a payload that was staged bound, across any
\* sequence of stages, failures, restarts and power losses.
LegacyNeverRunsBound ==
  session.by = "legacy" => session.content.mode = "open"

\* Between requests the in-memory claim boundStageCurrent agrees with the
\* disk: the marker is there, and the profile is the staged one or, after an
\* invalidation that failed half way, is gone.
StageClaimMatchesDisk ==
  (pc = "idle" /\ boundStageCurrent) =>
     /\ marker = "present"
     /\ profile \in {NoProfile, [id |-> stagedProfileDigest, mode |-> "bound"]}

\* What the daemon starts and what it claims to have staged is what was staged,
\* in the mode it was staged in: see the two above.
StagedIsKept == LegacyNeverRunsBound /\ StageClaimMatchesDisk

=============================================================================

--------------------- MODULE LinuxProfileStore_proofs ---------------------
(***************************************************************************)
(* The invariants of LinuxProfileStore hold for every set of payloads.     *)
(*                                                                         *)
(* BoundNeverUnmarked is not inductive: what keeps a bound payload marked  *)
(* is what each step of stage and Invalidate has established for the next  *)
(* one.  StepInv says so, and IInv is the inductive invariant.             *)
(***************************************************************************)
EXTENDS LinuxProfileStore, TLAPS

IsBound(value) == value # NoProfile /\ value.mode = "bound"

\* What the steps before pc have established.
StepInv ==
  /\ pc \in {"mark", "syncMark"} => request.mode = "bound"
  /\ pc = "syncMark" => marker = "present"
  /\ (pc = "write" /\ request.mode = "bound") => markerDisk = {"present"}
  /\ pc \in {"syncWrite", "unmark"} => request.mode = "open" /\ profile = request
  /\ pc = "syncInvalidate" => profile = NoProfile
  /\ pc \in {"unmark", "invalidateUnmark"} => \A value \in profileDisk : ~IsBound(value)

\* The claim boundStageCurrent survives the steps of an invalidation.
ClaimInv ==
  (pc \in {"idle", "invalidate", "syncInvalidate", "invalidateUnmark"} /\ boundStageCurrent) =>
     /\ marker = "present"
     /\ profile \in {NoProfile, [id |-> stagedProfileDigest, mode |-> "bound"]}

SessionInv == session.by = "legacy" => session.content # NoProfile /\ session.content.mode = "open"

IInv == TypeOK /\ BoundNeverUnmarked /\ StepInv /\ ClaimInv /\ SessionInv

\* What the provers need to know of a staged payload.
LEMMA StagedFacts ==
  /\ NoProfile \notin Staged
  /\ \A s \in Staged : s.mode \in Modes /\ s.id \in Profiles
BY ProfileAssumption DEF Staged

\* A staged payload is determined by its digest and the way it was staged.
LEMMA StagedRecord == \A s \in Staged : s = [id |-> s.id, mode |-> s.mode]
BY DEF Staged

\* The initial state satisfies the inductive invariant.
LEMMA InitIInv == Init => IInv
<1> SUFFICES ASSUME Init PROVE IInv
  OBVIOUS
<1> USE StagedFacts DEF Init, NoSession, Contents, Modes, Steps
<1>1. TypeOK
  BY DEF TypeOK, Sessions
<1>2. BoundNeverUnmarked
  BY DEF BoundNeverUnmarked
<1>3. StepInv /\ ClaimInv /\ SessionInv
  BY DEF StepInv, ClaimInv, SessionInv, IsBound
<1> QED
  BY <1>1, <1>2, <1>3 DEF IInv

\* Every step keeps the types.
LEMMA NextTypeOK == IInv /\ Next => TypeOK'
<1> SUFFICES ASSUME IInv, Next PROVE TypeOK'
  OBVIOUS
<1> USE StagedFacts DEF IInv, TypeOK, Contents, Modes, Live, Steps, IsBound,
      diskVars, serviceVars
<1>1. ASSUME NEW p \in Profiles, NEW mode \in Modes, Stage(p, mode) PROVE TypeOK'
  BY <1>1 DEF Stage, Staged
<1>2. CASE WriteMarker
  BY <1>2 DEF WriteMarker, PutMarker, StageError
<1>3. CASE PersistMarker
  BY <1>3 DEF PersistMarker, SyncDirectory, StageError
<1>4. CASE WriteProfile
  BY <1>4 DEF WriteProfile, PutProfile, StageDone, StageError
<1>5. CASE PersistProfile
  BY <1>5 DEF PersistProfile, SyncDirectory, StageError
<1>6. CASE ClearMarker
  BY <1>6 DEF ClearMarker, PutMarker, StageDone, StageError
<1>7. CASE Invalidate
  BY <1>7 DEF Invalidate
<1>8. CASE InvalidateProfile
  BY <1>8 DEF InvalidateProfile, PutProfile, InvalidateError
<1>9. CASE PersistInvalidation
  BY <1>9 DEF PersistInvalidation, SyncDirectory, InvalidateError
<1>10. CASE InvalidateMarker
  BY <1>10 DEF InvalidateMarker, PutMarker, InvalidateError
<1>11. CASE LegacyConnect
  BY <1>11 DEF LegacyConnect, Sessions
<1>12. CASE Disconnect
  BY <1>12 DEF Disconnect, NoSession, Sessions
<1>13. CASE DaemonCrash
  BY <1>13 DEF DaemonCrash, Restart, NoSession, Sessions
<1>14. CASE PowerLoss
  BY <1>14 DEF PowerLoss, Restart, NoSession, Sessions
<1>15. ASSUME NEW d \in Profiles, BoundConnect(d) PROVE TypeOK'
  BY <1>15 DEF BoundConnect, Sessions
<1> QED
  BY <1>1, <1>2, <1>3, <1>4, <1>5, <1>6, <1>7, <1>8,
     <1>9, <1>10, <1>11, <1>12, <1>13, <1>14, <1>15 DEF Next

\* Every step keeps the marker of a bound payload: the steps that write a bound
\* profile or drop the marker rely on what StepInv says of the steps before.
LEMMA NextBoundNeverUnmarked == IInv /\ Next => BoundNeverUnmarked'
<1> SUFFICES ASSUME IInv, Next PROVE BoundNeverUnmarked'
  OBVIOUS
<1> USE StagedFacts DEF IInv, TypeOK, BoundNeverUnmarked, StepInv, Contents, Modes, Live, Steps, IsBound,
      diskVars, serviceVars
<1>1. ASSUME NEW p \in Profiles, NEW mode \in Modes, Stage(p, mode) PROVE BoundNeverUnmarked'
  BY <1>1 DEF Stage, Staged
<1>2. CASE WriteMarker
  BY <1>2 DEF WriteMarker, PutMarker, StageError
<1>3. CASE PersistMarker
  BY <1>3 DEF PersistMarker, SyncDirectory, StageError
<1>4. CASE WriteProfile
  BY <1>4 DEF WriteProfile, PutProfile, StageDone, StageError
<1>5. CASE PersistProfile
  BY <1>5 DEF PersistProfile, SyncDirectory, StageError
<1>6. CASE ClearMarker
  BY <1>6 DEF ClearMarker, PutMarker, StageDone, StageError
<1>7. CASE Invalidate
  BY <1>7 DEF Invalidate
<1>8. CASE InvalidateProfile
  BY <1>8 DEF InvalidateProfile, PutProfile, InvalidateError
<1>9. CASE PersistInvalidation
  BY <1>9 DEF PersistInvalidation, SyncDirectory, InvalidateError
<1>10. CASE InvalidateMarker
  BY <1>10 DEF InvalidateMarker, PutMarker, InvalidateError
<1>11. CASE LegacyConnect
  BY <1>11 DEF LegacyConnect
<1>12. CASE Disconnect
  BY <1>12 DEF Disconnect
<1>13. CASE DaemonCrash
  BY <1>13 DEF DaemonCrash, Restart
<1>14. CASE PowerLoss
  BY <1>14 DEF PowerLoss, Restart
<1>15. ASSUME NEW d \in Profiles, BoundConnect(d) PROVE BoundNeverUnmarked'
  BY <1>15 DEF BoundConnect
<1> QED
  BY <1>1, <1>2, <1>3, <1>4, <1>5, <1>6, <1>7, <1>8,
     <1>9, <1>10, <1>11, <1>12, <1>13, <1>14, <1>15 DEF Next

\* Every step establishes what the next one relies on.
LEMMA NextStepInv == IInv /\ Next => StepInv'
<1> SUFFICES ASSUME IInv, Next PROVE StepInv'
  OBVIOUS
<1> USE StagedFacts DEF IInv, TypeOK, BoundNeverUnmarked, StepInv, Contents, Modes, Live, Steps, IsBound,
      diskVars, serviceVars
<1>1. ASSUME NEW p \in Profiles, NEW mode \in Modes, Stage(p, mode) PROVE StepInv'
  BY <1>1 DEF Stage, Staged
<1>2. CASE WriteMarker
  BY <1>2 DEF WriteMarker, PutMarker, StageError
<1>3. CASE PersistMarker
  BY <1>3 DEF PersistMarker, SyncDirectory, StageError
<1>4. CASE WriteProfile
  BY <1>4 DEF WriteProfile, PutProfile, StageDone, StageError
<1>5. CASE PersistProfile
  BY <1>5 DEF PersistProfile, SyncDirectory, StageError
<1>6. CASE ClearMarker
  BY <1>6 DEF ClearMarker, PutMarker, StageDone, StageError
<1>7. CASE Invalidate
  BY <1>7 DEF Invalidate
<1>8. CASE InvalidateProfile
  BY <1>8 DEF InvalidateProfile, PutProfile, InvalidateError
<1>9. CASE PersistInvalidation
  BY <1>9 DEF PersistInvalidation, SyncDirectory, InvalidateError
<1>10. CASE InvalidateMarker
  BY <1>10 DEF InvalidateMarker, PutMarker, InvalidateError
<1>11. CASE LegacyConnect
  BY <1>11 DEF LegacyConnect
<1>12. CASE Disconnect
  BY <1>12 DEF Disconnect
<1>13. CASE DaemonCrash
  BY <1>13 DEF DaemonCrash, Restart
<1>14. CASE PowerLoss
  BY <1>14 DEF PowerLoss, Restart
<1>15. ASSUME NEW d \in Profiles, BoundConnect(d) PROVE StepInv'
  BY <1>15 DEF BoundConnect
<1> QED
  BY <1>1, <1>2, <1>3, <1>4, <1>5, <1>6, <1>7, <1>8,
     <1>9, <1>10, <1>11, <1>12, <1>13, <1>14, <1>15 DEF Next

\* Every step keeps the service's claim about the disk.
LEMMA NextClaimInv == IInv /\ Next => ClaimInv'
<1> SUFFICES ASSUME IInv, Next PROVE ClaimInv'
  OBVIOUS
<1> USE StagedFacts DEF IInv, TypeOK, ClaimInv, StepInv, Contents, Modes, Live, Steps, IsBound,
      diskVars, serviceVars
<1>1. ASSUME NEW p \in Profiles, NEW mode \in Modes, Stage(p, mode) PROVE ClaimInv'
  BY <1>1 DEF Stage, Staged
<1>2. CASE WriteMarker
  BY <1>2 DEF WriteMarker, PutMarker, StageError
<1>3. CASE PersistMarker
  BY <1>3 DEF PersistMarker, SyncDirectory, StageError
<1>4. CASE WriteProfile
  <2>1. CASE PutProfile(request) /\ request.mode = "bound" /\ StageDone
    BY <1>4, <2>1, StagedRecord DEF WriteProfile, PutProfile, StageDone
  <2>2. CASE StageError \/ pc' \in {"syncWrite", "unmark"}
    BY <1>4, <2>2 DEF WriteProfile, StageError
  <2> QED
    BY <1>4, <2>1, <2>2 DEF WriteProfile
<1>5. CASE PersistProfile
  BY <1>5 DEF PersistProfile, SyncDirectory, StageError
<1>6. CASE ClearMarker
  BY <1>6 DEF ClearMarker, PutMarker, StageDone, StageError
<1>7. CASE Invalidate
  BY <1>7 DEF Invalidate
<1>8. CASE InvalidateProfile
  BY <1>8 DEF InvalidateProfile, PutProfile, InvalidateError
<1>9. CASE PersistInvalidation
  BY <1>9 DEF PersistInvalidation, SyncDirectory, InvalidateError
<1>10. CASE InvalidateMarker
  BY <1>10 DEF InvalidateMarker, PutMarker, InvalidateError
<1>11. CASE LegacyConnect
  BY <1>11 DEF LegacyConnect
<1>12. CASE Disconnect
  BY <1>12 DEF Disconnect
<1>13. CASE DaemonCrash
  BY <1>13 DEF DaemonCrash, Restart
<1>14. CASE PowerLoss
  BY <1>14 DEF PowerLoss, Restart
<1>15. ASSUME NEW d \in Profiles, BoundConnect(d) PROVE ClaimInv'
  BY <1>15 DEF BoundConnect
<1> QED
  BY <1>1, <1>2, <1>3, <1>4, <1>5, <1>6, <1>7, <1>8,
     <1>9, <1>10, <1>11, <1>12, <1>13, <1>14, <1>15 DEF Next

\* A legacy session is only started from an open payload.
LEMMA NextSessionInv == IInv /\ Next => SessionInv'
<1> SUFFICES ASSUME IInv, Next PROVE SessionInv'
  OBVIOUS
<1> USE StagedFacts DEF IInv, TypeOK, SessionInv, BoundNeverUnmarked, Contents, Modes, Live, Steps, IsBound,
      diskVars, serviceVars
<1>1. ASSUME NEW p \in Profiles, NEW mode \in Modes, Stage(p, mode) PROVE SessionInv'
  BY <1>1 DEF Stage, Staged
<1>2. CASE WriteMarker
  BY <1>2 DEF WriteMarker, PutMarker, StageError
<1>3. CASE PersistMarker
  BY <1>3 DEF PersistMarker, SyncDirectory, StageError
<1>4. CASE WriteProfile
  BY <1>4 DEF WriteProfile, PutProfile, StageDone, StageError
<1>5. CASE PersistProfile
  BY <1>5 DEF PersistProfile, SyncDirectory, StageError
<1>6. CASE ClearMarker
  BY <1>6 DEF ClearMarker, PutMarker, StageDone, StageError
<1>7. CASE Invalidate
  BY <1>7 DEF Invalidate
<1>8. CASE InvalidateProfile
  BY <1>8 DEF InvalidateProfile, PutProfile, InvalidateError
<1>9. CASE PersistInvalidation
  BY <1>9 DEF PersistInvalidation, SyncDirectory, InvalidateError
<1>10. CASE InvalidateMarker
  BY <1>10 DEF InvalidateMarker, PutMarker, InvalidateError
<1>11. CASE LegacyConnect
  BY <1>11 DEF LegacyConnect, Sessions
<1>12. CASE Disconnect
  BY <1>12 DEF Disconnect, NoSession, Sessions
<1>13. CASE DaemonCrash
  BY <1>13 DEF DaemonCrash, Restart, NoSession, Sessions
<1>14. CASE PowerLoss
  BY <1>14 DEF PowerLoss, Restart, NoSession, Sessions
<1>15. ASSUME NEW d \in Profiles, BoundConnect(d) PROVE SessionInv'
  BY <1>15 DEF BoundConnect, Sessions
<1> QED
  BY <1>1, <1>2, <1>3, <1>4, <1>5, <1>6, <1>7, <1>8,
     <1>9, <1>10, <1>11, <1>12, <1>13, <1>14, <1>15 DEF Next

\* Types, the marker of a bound payload, the service's claim and the content
\* of a legacy session, for every set of payloads (store.stage, Invalidate).
THEOREM StoreSafety == Spec => [](TypeOK /\ BoundNeverUnmarked /\ StageClaimMatchesDisk /\ LegacyNeverRunsBound)
<1>1. IInv => TypeOK /\ BoundNeverUnmarked /\ StageClaimMatchesDisk /\ LegacyNeverRunsBound
  BY DEF IInv, ClaimInv, StageClaimMatchesDisk, SessionInv, LegacyNeverRunsBound
<1>2. IInv /\ [Next]_vars => IInv'
  <2>1. IInv /\ Next => IInv'
    BY NextTypeOK, NextBoundNeverUnmarked, NextStepInv, NextClaimInv, NextSessionInv DEF IInv
  <2>2. IInv /\ UNCHANGED vars => IInv'
    BY DEF IInv, TypeOK, BoundNeverUnmarked, StepInv, ClaimInv, SessionInv, IsBound, vars,
       diskVars, serviceVars
  <2> QED
    BY <2>1, <2>2
<1> QED
  BY <1>1, <1>2, InitIInv, PTL DEF Spec

\* What the daemon starts and claims to have staged is what was staged, for every
\* set of payloads (service.stage, connect and store.stage together).
THEOREM StagedKept == Spec => []StagedIsKept
<1>1. StageClaimMatchesDisk /\ LegacyNeverRunsBound => StagedIsKept
  BY DEF StagedIsKept
<1> QED
  BY <1>1, StoreSafety, PTL

=============================================================================

------------------------ MODULE WindowsTransitionGuard ------------------------
(***************************************************************************)
(* The transition guard of the Windows service: eight persistent WFP       *)
(* filters in a sublayer of their own that block every packet but the      *)
(* service's while a Core is replaced.                                     *)
(*                                                                         *)
(* WindowsRuntimeHost takes the guard as one variable; here are its parts: *)
(* the objects kept by the filtering engine (BFE), the transactions that   *)
(* change them, the readback that decides whether they block anything, and *)
(* the two processes that own a Guard, the service and the repair command  *)
(* pokrov_service --clear-transition-guard.  A crash of the service, a     *)
(* restart of BFE, other software's filters and an administrator who       *)
(* removes or replaces single filters may come between any two calls.      *)
(***************************************************************************)
EXTENDS Naturals, FiniteSets

CONSTANTS
  Layers,       \* kLayers: the ALE layers that are blocked
  Foreign,      \* other filters that may be there: layer, home, weight, act, who
  MaxFaults,    \* failing WFP calls
  MaxCrashes,   \* ends of the service, and restarts of BFE
  MaxOutside    \* changes made to WFP by others

Procs == {"service", "repair"}
Roles == {"permit", "block"}
Filters == Layers \X Roles

\* BFE normalises the weight that was asked for; the others are compared with it.
GuardWeight == 2

VARIABLES
  sublayer,     \* kSubLayer is there
  filter,       \* of each owned key: "absent", "ok", or "altered"
  foreign,      \* the filters that are not the guard's
  engine,       \* engine_: "none", "open", or "dead" once BFE has restarted
  state,        \* Guard::state_, "none" without a process
  call,         \* the Guard method that runs
  at,           \* the backend call it comes to next
  last_failure, \* the stage of LastFailure()
  cause,        \* the stage that really failed, a history variable
  report,       \* the stage of the last RecordTransitionGuardFailure
  started,      \* Start returned success and nothing was called since
  owed,         \* Core was stopped behind the guard and nobody has released it
  repair,       \* the repair command: "idle", "waits", "adopts", "clears"
  raced,        \* the service started while the repair command worked, history
  faults, crashes, outside,
  touched       \* an owned filter was changed from outside, history

wfp == <<sublayer, filter, foreign>>
procs == <<engine, state, call, at, last_failure>>
told == <<cause, report>>
bounds == <<faults, crashes, outside, touched>>
vars == <<wfp, procs, told, started, owed, repair, raced, bounds>>

Init ==
  \* An earlier version of the service may have left its filters: their permits
  \* name another executable.
  /\ \E f \in {"absent", "ok", "altered"} :
       /\ filter = [x \in Filters |-> IF x[2] = "block" /\ f # "absent" THEN "ok" ELSE f]
       /\ sublayer = (f # "absent")
  /\ foreign = {} /\ owed = FALSE
  /\ engine = [p \in Procs |-> "none"] /\ state = [p \in Procs |-> "none"]
  /\ call = [p \in Procs |-> "none"] /\ at = [p \in Procs |-> "idle"]
  /\ last_failure = [p \in Procs |-> "read_verify"]
  /\ cause = "none" /\ report = "none" /\ started = FALSE
  /\ repair = "idle" /\ raced = FALSE
  /\ faults = 0 /\ crashes = 0 /\ outside = 0 /\ touched = FALSE

-----------------------------------------------------------------------------
(* What the engine does with a packet, and what Read concludes from the    *)
(* filters.                                                                *)

\* Senders: the service as LocalSystem, its executable under another user,
\* anybody else.
Senders == {"service", "app", "other"}
Applies(f, who) == f.who = "any" \/ f.who = who \/ (f.who = "app" /\ who = "service")

\* A filter of another sublayer, of weight f.weight.  Sublayers are asked by
\* falling weight, of equal ones in either order.  The guard's block is final
\* unless a hard permit was met before it, or a callout gave one; a soft permit
\* (act "soft") and a disabled filter ("disabled") change nothing.
PassesAbove(f, layer, who) ==
  /\ f.home # "guard" /\ f.layer = layer /\ Applies(f, who)
  /\ f.weight >= GuardWeight /\ f.act \in {"hard", "callout"}

\* A filter added to the guard's own sublayer: any permit met before the block
\* there answers for the sublayer.  LocalDpiControlFilter adds a soft one for a
\* socket that the service holds.
PassesWithin(f, layer, who) ==
  f.home = "guard" /\ f.layer = layer /\ Applies(f, who) /\ f.act # "disabled"

MayPass(layer, who) ==
  \/ ~sublayer \/ filter[layer, "block"] # "ok"
  \/ filter[layer, "permit"] # "absent" /\ (who = "service" \/ filter[layer, "permit"] # "ok")
  \/ \E f \in foreign : PassesAbove(f, layer, who) \/ PassesWithin(f, layer, who)

\* Nobody but the service gets out, unless through the guard's own sublayer.
Enforced ==
  \A layer \in Layers, who \in Senders \ {"service"} :
    MayPass(layer, who) => \E f \in foreign : PassesWithin(f, layer, who)
NothingOwned == ~sublayer /\ \A x \in Filters : filter[x] = "absent"

\* Matches and MatchesSubLayer, of every owned object.
Intact == sublayer /\ \A x \in Filters : filter[x] = "ok"

\* A filter in the guard's own sublayer is not looked at.
IsPotentialGuardOverride(f) == f.home # "guard" /\ f.act \in {"hard", "callout"}

\* The same executable and LocalSystem, and a plain permit.
IsGuardServicePermit(f) == f.act = "hard" /\ f.who = "service"

\* Faulty: a sublayer of the guard's own weight is taken to come after it.
CanOverrideBelow(f) ==
  f.weight > GuardWeight /\ IsPotentialGuardOverride(f) /\ ~IsGuardServicePermit(f)

CanOverrideGuard(f) ==
  f.weight >= GuardWeight /\ IsPotentialGuardOverride(f) /\ ~IsGuardServicePermit(f)

VerifyGuardPriority == \A f \in foreign : ~CanOverrideGuard(f)

\* Read: one read-only transaction.
Seen ==
  IF Intact /\ VerifyGuardPriority THEN "armed"
  ELSE IF sublayer \/ (\E x \in Filters : filter[x] # "absent") THEN "incomplete"
  ELSE "off"

-----------------------------------------------------------------------------
(* The backend's calls.  One that fails tells its stage.                   *)

\* Which stages of a call can fail: with a dead handle, its first.
Stages(p, begin, rest) ==
  IF engine[p] = "dead" THEN {begin}
  ELSE {"identity", begin} \cup rest \cup (IF engine[p] = "none" THEN {"engine_open"} ELSE {})

Opened(p, s) == engine' = [engine EXCEPT ![p] = IF s = "engine_open" \/ @ = "dead" THEN @ ELSE "open"]

\* DeleteOwned can succeed: what is not found counts as deleted, but a sublayer
\* that another filter is in cannot be deleted (FWP_E_IN_USE).
Deletes == \A f \in foreign : f.home # "guard"

\* The next call can succeed: the handle is alive, and what it deletes may go.
Works(p) == engine[p] # "dead" /\ (at[p] \in {"install", "remove"} => Deletes)

\* The call fails at stage s without a fault: on a dead handle, or over the sublayer.
Refused(p, s) ==
  engine[p] = "dead" \/ (~Works(p) /\ s \in {"install_apply", "remove_apply"})

\* A transaction is committed only when DeleteOwned succeeded.
Changing(apply, commit) == {apply} \cup (IF Deletes THEN {commit} ELSE {})

\* Report: Start and Finish tell the event journal, the others tell nobody.
Reports(p, s) ==
  report' = IF p = "service" /\ call[p] \in {"start", "finish"} THEN s ELSE report

\* A call failed at stage s, and the method with it.
Failed(p, s) ==
  /\ (Refused(p, s) /\ UNCHANGED faults) \/ (faults < MaxFaults /\ faults' = faults + 1)
  /\ Opened(p, s) /\ last_failure' = [last_failure EXCEPT ![p] = s]
  /\ cause' = IF p = "service" /\ call[p] \in {"start", "finish"} THEN s ELSE cause
  /\ Reports(p, s)
  /\ state' = [state EXCEPT ![p] = "incomplete"]
  /\ at' = [at EXCEPT ![p] = "idle"] /\ call' = [call EXCEPT ![p] = "none"]
  /\ UNCHANGED <<started, owed, repair, raced, crashes, outside, touched>>

\* Every backend call begins by naming its own stage.
ReadStage(p) == "read_verify"

\* A method that found its answer by reading, and returns.
Returns(p, found, ok, s) ==
  /\ call' = [call EXCEPT ![p] = "none"] /\ at' = [at EXCEPT ![p] = "idle"]
  /\ state' = [state EXCEPT ![p] = found]
  /\ last_failure' = [last_failure EXCEPT ![p] = ReadStage(p)]
  /\ started' = (IF p = "service" THEN ok /\ call[p] = "start" ELSE started)
  /\ IF ok THEN UNCHANGED told
     ELSE /\ cause' = IF p = "service" /\ call[p] \in {"start", "finish"} THEN s ELSE cause
          /\ Reports(p, IF call[p] = "finish" THEN "remove_verify" ELSE last_failure'[p])

Read(p) ==
  /\ at[p] \in {"read", "verify", "check"} /\ Works(p) /\ Opened(p, "read_verify")
  /\ CASE at[p] = "read" /\ call[p] = "construct" -> Returns(p, Seen, TRUE, "none")
       [] at[p] = "read" /\ call[p] = "start" ->
            IF Seen = "armed" THEN Returns(p, Seen, TRUE, "none")
            ELSE /\ at' = [at EXCEPT ![p] = "install"] /\ UNCHANGED <<call, started, told>>
                 /\ state' = [state EXCEPT ![p] = Seen]
                 /\ last_failure' = [last_failure EXCEPT ![p] = ReadStage(p)]
       [] at[p] = "verify" ->
            Returns(p, IF Seen = "armed" THEN Seen ELSE "incomplete", Seen = "armed", "read_verify")
       [] at[p] = "check" -> Returns(p, Seen, Seen = "off", "remove_verify")
  /\ UNCHANGED <<wfp, owed, repair, raced, bounds>>

ReadFails(p) ==
  /\ at[p] \in {"read", "verify", "check"} /\ UNCHANGED wfp
  /\ \E s \in Stages(p, "read_begin", {"read_query"}) : Failed(p, s)

Installed == sublayer' = TRUE /\ filter' = [x \in Filters |-> "ok"]
Removed == sublayer' = FALSE /\ filter' = [x \in Filters |-> "absent"]

\* DeleteOwned and the additions, in one transaction.
Install(p) ==
  /\ at[p] = "install" /\ Works(p) /\ Opened(p, "install_apply") /\ Installed
  /\ at' = [at EXCEPT ![p] = "verify"] /\ state' = [state EXCEPT ![p] = "incomplete"]
  /\ last_failure' = [last_failure EXCEPT ![p] = "install_apply"]
  /\ UNCHANGED <<foreign, call, told, started, owed, repair, raced, bounds>>

\* The transaction is given up; a commit that reports a failure may have
\* happened.
InstallFails(p) ==
  /\ at[p] = "install"
  /\ \E s \in Stages(p, "install_begin", Changing("install_apply", "install_commit")) :
       /\ Failed(p, s)
       /\ (s = "install_commit" /\ Installed) \/ UNCHANGED <<sublayer, filter>>
  /\ UNCHANGED foreign

Remove(p) ==
  /\ at[p] = "remove" /\ Works(p) /\ Opened(p, "remove_apply") /\ Removed
  /\ at' = [at EXCEPT ![p] = "check"]
  /\ last_failure' = [last_failure EXCEPT ![p] = "remove_apply"]
  /\ UNCHANGED <<foreign, state, call, told, started, owed, repair, raced, bounds>>

RemoveFails(p) ==
  /\ at[p] = "remove"
  /\ \E s \in Stages(p, "remove_begin", Changing("remove_apply", "remove_commit")) :
       /\ Failed(p, s)
       /\ (s = "remove_commit" /\ Removed) \/ UNCHANGED <<sublayer, filter>>
  /\ UNCHANGED foreign

Step(p) == Read(p) \/ ReadFails(p) \/ Install(p) \/ InstallFails(p) \/ Remove(p) \/ RemoveFails(p)

-----------------------------------------------------------------------------
(* The methods' callers.                                                   *)

Calls(p, method, first) ==
  /\ call[p] = "none" /\ call' = [call EXCEPT ![p] = method] /\ at' = [at EXCEPT ![p] = first]

\* The constructor reads what an earlier process left.
Adopts(p) == Calls(p, "construct", "read")

\* The service process starts.
ServiceStarts ==
  /\ state["service"] = "none" /\ state' = [state EXCEPT !["service"] = "incomplete"]
  /\ Adopts("service") /\ raced' = (raced \/ repair \in {"adopts", "clears"})
  /\ UNCHANGED <<wfp, engine, last_failure, told, started, owed, repair, bounds>>

\* ReplaceManagedProfile and CancelProtectedHandoff.
Start ==
  /\ state["service"] # "none" /\ Calls("service", "start", "read") /\ started' = FALSE
  /\ UNCHANGED <<wfp, engine, state, last_failure, told, owed, repair, raced, bounds>>

\* Disconnect(false) after a Start that succeeded.
StopCore ==
  /\ started /\ owed' = TRUE /\ started' = FALSE
  /\ UNCHANGED <<wfp, procs, told, repair, raced, bounds>>

\* What is being removed is not known to be off.
OffLater(p) == state' = [state EXCEPT ![p] = "incomplete"]

\* Finish after a verified replacement, ExplicitOff after an explicit
\* disconnect: the guard may go.
Release(method) ==
  /\ state["service"] # "none" /\ Calls("service", method, "remove") /\ OffLater("service")
  /\ owed' = FALSE /\ started' = FALSE
  /\ UNCHANGED <<wfp, engine, last_failure, told, repair, raced, bounds>>

Ends(p) ==
  /\ engine' = [engine EXCEPT ![p] = "none"] /\ state' = [state EXCEPT ![p] = "none"]
  /\ call' = [call EXCEPT ![p] = "none"] /\ at' = [at EXCEPT ![p] = "idle"]
  /\ last_failure' = [last_failure EXCEPT ![p] = "read_verify"]

\* The service is stopped or killed.  Its session is not dynamic: what was
\* committed stays.
ServiceEnds ==
  /\ state["service"] # "none" /\ crashes < MaxCrashes /\ crashes' = crashes + 1
  /\ Ends("service") /\ started' = FALSE
  /\ UNCHANGED <<wfp, told, owed, repair, raced, faults, outside, touched>>

\* ClearTransitionGuardExplicitly: the service is asked to stop and waited for.
RepairAsks ==
  /\ repair = "idle" /\ repair' = "waits"
  /\ UNCHANGED <<wfp, procs, told, started, owed, raced, bounds>>

RepairGivesUp ==
  /\ repair = "waits" /\ state["service"] # "none" /\ repair' = "idle"
  /\ UNCHANGED <<wfp, procs, told, started, owed, raced, bounds>>

\* SERVICE_STOPPED: the command makes a guard of its own.
RepairAdopts ==
  /\ repair = "waits" /\ state["service"] = "none" /\ repair' = "adopts"
  /\ state' = [state EXCEPT !["repair"] = "incomplete"] /\ Adopts("repair") /\ owed' = FALSE
  /\ UNCHANGED <<wfp, engine, last_failure, told, started, raced, bounds>>

\* ExplicitOff follows the constructor, whatever that read.
RepairOff ==
  /\ repair = "adopts" /\ repair' = "clears"
  /\ Calls("repair", "off", "remove") /\ OffLater("repair")
  /\ UNCHANGED <<wfp, engine, last_failure, told, started, owed, raced, bounds>>

RepairExits ==
  /\ repair = "clears" /\ call["repair"] = "none" /\ repair' = "idle" /\ Ends("repair")
  /\ UNCHANGED <<wfp, told, started, owed, raced, bounds>>

-----------------------------------------------------------------------------
(* What happens outside.                                                   *)

\* Persistent objects survive BFE; the handles to it do not.
BfeRestarts ==
  /\ crashes < MaxCrashes /\ crashes' = crashes + 1 /\ \E p \in Procs : engine[p] = "open"
  /\ engine' = [p \in Procs |-> IF engine[p] = "open" THEN "dead" ELSE engine[p]]
  /\ UNCHANGED <<wfp, state, call, at, last_failure, told, started, owed, repair, raced,
                 faults, outside, touched>>

\* Other filters come and go: those of other software, and in the guard's own
\* sublayer, while it is there, the service's LocalDpiControlFilter or anybody's.
OthersFilter(f) ==
  /\ outside < MaxOutside /\ outside' = outside + 1
  /\ f.home = "guard" => sublayer
  /\ foreign' = IF f \in foreign THEN foreign \ {f} ELSE foreign \cup {f}
  /\ UNCHANGED <<sublayer, filter, procs, told, started, owed, repair, raced, faults, crashes,
                 touched>>

OwnFilterChanged(x, to) ==
  /\ outside < MaxOutside /\ outside' = outside + 1 /\ touched' = TRUE
  /\ filter[x] \notin {"absent", to} /\ filter' = [filter EXCEPT ![x] = to]
  /\ UNCHANGED <<sublayer, foreign, procs, told, started, owed, repair, raced, faults, crashes>>

Next ==
  \/ \E p \in Procs : Step(p)
  \/ ServiceStarts \/ Start \/ StopCore \/ Release("finish") \/ Release("off") \/ ServiceEnds
  \/ RepairAsks \/ RepairGivesUp \/ RepairAdopts \/ RepairOff \/ RepairExits
  \/ BfeRestarts \/ (\E f \in Foreign : OthersFilter(f))
  \/ \E x \in Filters, to \in {"absent", "altered"} : OwnFilterChanged(x, to)

Spec == Init /\ [][Next]_vars

-----------------------------------------------------------------------------
\* A guard that would read itself armed now blocks every sender but the service
\* at every layer, whatever filters other software has added to sublayers of its
\* own by then: the eight filters and the priority check together are enough.
\* They are not for a filter inside the guard's own sublayer, which
\* IsPotentialGuardOverride skips: such a permit lets through what it matches.
ReadbackIsTrue == Seen = "armed" => Enforced

\* The service never takes the guard for off while one of its objects is in
\* the engine: a user cut off by the block is always told that it is there.
BlockIsKnown == state["service"] = "off" => NothingOwned

\* "failure or service exit retains the guard": once Core was stopped behind the
\* guard its filters stay, through failing calls, ends of the service and
\* restarts, until somebody asks for their removal.
OwedIsBlocked == owed /\ ~raced /\ ~touched => Intact

\* The stage in the event journal is the one that failed.
ReportNamesItsCause == report = cause

\* What reads armed blocks, nobody is cut off without being told or set free while
\* he is owed a block, and what the journal says of a failure is what failed.
BlockIsKept == ReadbackIsTrue /\ BlockIsKnown /\ OwedIsBlocked /\ ReportNamesItsCause

\* A removal by the repair command goes through, also when single filters were
\* removed or replaced before, unless a call fails or another filter is in the
\* guard's sublayer.
RepairClears ==
  at["repair"] = "remove" /\ faults = MaxFaults /\ crashes = MaxCrashes
    /\ engine["repair"] # "dead"  ~>  NothingOwned \/ ~Deletes
================================================================================

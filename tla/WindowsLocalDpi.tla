---------------------------- MODULE WindowsLocalDpi ----------------------------
(***************************************************************************)
(* The local DPI engine of the Windows service: WindowsLocalDpiExecutor    *)
(* (one winws2 child in a job object, one WinDivert handle, the admission  *)
(* ids captured from Core), the strategy hints, and the parts of           *)
(* RuntimeHost that start the child, prove it against every control host,  *)
(* publish the holders in Core, watch them and withdraw them.              *)
(*                                                                         *)
(* Service threads serialize on the dispatcher's execution lock, so one    *)
(* operation runs at a time; the child, Core and the owner act between     *)
(* its steps.  A holder of Core is a tag and a generation: Core gives a    *)
(* tag a fresh generation whenever it replaces the holder.                 *)
(***************************************************************************)
EXTENDS Naturals, Sequences, FiniteSets

CONSTANTS
  Services,    \* the prepared services, a sequence of outbound tags
  Networks,    \* the selection keys of physical networks
  None,        \* no strategy
  MaxGen,      \* bound: generations of holders of a tag
  MaxFaults,   \* bound: calls that fail while something is being stopped
  MaxHints     \* hints_ keeps this many entries (256 in the code)

DpiAssumption ==
  /\ Len(Services) \in Nat \ {0} /\ DOMAIN Services = 1..Len(Services)
  /\ \A i, j \in 1..Len(Services) : Services[i] = Services[j] => i = j
  /\ Networks # {} /\ {MaxGen, MaxFaults} \subseteq Nat /\ MaxHints \in Nat \ {0}

VARIABLES
  core,      \* Core: up, gen[t] and st[t] of the current holder of each tag
  exec,      \* WindowsLocalDpiExecutor::State
  window,    \* WindowsLocalDpiPreparationCurrent and the digests unchanged
  owner,     \* interrupted() == kNone
  host,      \* RuntimeHost: phase, prep, disabled, active, captured, network
  hints,     \* local_dpi_strategy_hints_
  pc, call,  \* the operation under way and its locals
  child,     \* children started for this preparation, a history variable
  proofs,    \* proofs[t]: the child that proved t's control host, history
  faults

vars == <<core, exec, window, owner, host, hints, pc, call, child, proofs, faults>>

Tags == {Services[i] : i \in 1..Len(Services)}
Strategies == {"midsld", "alt4"}
Fallback == "midsld"

\* WindowsLocalDpiExecutor::State as it is constructed; strategy is that of the
\* child's command line.
Clean == [job |-> FALSE, process |-> "none", driver |-> FALSE,
          holders |-> [t \in Tags |-> 0], first |-> Fallback,
          retry_attempted |-> FALSE, admission_attempted |-> FALSE,
          strategy |-> None]

\* The locals of ConnectImpl and ProveAndAdmitWindowsLocalDpi.
NoCall == [mode |-> "connect", strategy |-> Fallback, attempt |-> 1, index |-> 1,
           any_proof |-> FALSE, transport |-> FALSE, admitted |-> {}, proved |-> FALSE]

Init ==
  /\ core = [up |-> FALSE, gen |-> [t \in Tags |-> 0], st |-> [t \in Tags |-> "none"]]
  /\ exec = Clean /\ window = TRUE /\ owner = TRUE
  /\ host = [phase |-> "staged", prep |-> FALSE, disabled |-> FALSE, active |-> None,
             captured |-> [t \in Tags |-> 0], network |-> CHOOSE n \in Networks : TRUE]
  /\ hints = << >> /\ pc = "idle" /\ call = NoCall
  /\ child = 0 /\ proofs = [t \in Tags |-> 0] /\ faults = 0

Alive == exec.process = "running"
Current == owner /\ window                       \* local_dpi_owner_current
Reads(c, e, t) == c.up /\ e.holders[t] # 0 /\ c.gen[t] = e.holders[t]

-----------------------------------------------------------------------------
(* WindowsLocalDpiStrategyHints.                                           *)

Other(s) == CHOOSE o \in Strategies : o # s

\* Entry, and the assignment of its result: a full table is emptied first.
Entry(h, n, t, hint) ==
  LET kept == IF <<n, t>> \in DOMAIN h \/ Cardinality(DOMAIN h) < MaxHints
              THEN DOMAIN h ELSE {}
  IN [k \in kept \cup {<<n, t>>} |-> IF k = <<n, t>> THEN hint ELSE h[k]]

\* The strategy tried first on a network: what the services agree worked, else
\* the other one of what they agree failed.
Preferred(n) ==
  LET known == {t \in Tags : <<n, t>> \in DOMAIN hints}
      worked == {hints[<<n, t>>].strategy :
                   t \in {u \in known : ~hints[<<n, u>>].failed}}
      avoids == {Other(hints[<<n, t>>].strategy) :
                   t \in {u \in known : hints[<<n, u>>].failed}}
      Single(S) == CHOOSE s \in S : TRUE
  IN IF Cardinality(worked) = 1 THEN Single(worked)
     ELSE IF Cardinality(avoids) = 1 THEN Single(avoids) ELSE Fallback

RecordFailure(h, n, t, s) == Entry(h, n, t, [strategy |-> s, failed |-> TRUE])

\* The table after each service, in their order, of those in S.
RecordEach(h, S, n, hint) ==
  LET after[i \in 0..Len(Services)] ==
        IF i = 0 THEN h
        ELSE IF Services[i] \in S THEN Entry(after[i - 1], n, Services[i], hint)
        ELSE after[i - 1]
  IN after

RecordAll(h, S, n, hint) == RecordEach(h, S, n, hint)[Len(Services)]

RecordSuccess(h, S, n, s) == RecordAll(h, S, n, [strategy |-> s, failed |-> FALSE])

\* ReadLocalDpiRuntimeObservation: what Core says of the captured holders, in a
\* running session, turns into hints against the active strategy.  It stops at
\* the first holder Core no longer knows.
Observed ==
  LET Known(t) == core.up /\ host.captured[t] # 0 /\ core.gen[t] = host.captured[t]
      read == {Services[i] : i \in {j \in 1..Len(Services) :
                                      \A k \in 1..j : Known(Services[k])}}
      failed == {t \in read : core.st[t] \in {"failed", "failedDns"}}
  IN IF host.phase = "running" /\ host.prep /\ window /\ host.active # None
     THEN RecordAll(hints, failed, host.network,
                    [strategy |-> host.active, failed |-> TRUE])
     ELSE hints

-----------------------------------------------------------------------------
(* Stopping.  Each operator is the set of its outcomes: the executor, Core, *)
(* and whether the call returned true.                                     *)

Out(ok, e, c) == [ok |-> ok, e |-> e, c |-> c]
MayFail == faults < MaxFaults

\* StopWindowsLocalDpiChild: closing the job kills the child; the wait for it,
\* or either CloseHandle, can fail.
StopWindowsLocalDpiChild(e, c) ==
  {Out(TRUE, [e EXCEPT !.job = FALSE, !.process = "none"], c)}
  \cup (IF e.job /\ MayFail THEN {Out(FALSE, e, c)} ELSE {})
  \cup (IF e.process # "none" /\ MayFail
        THEN {Out(FALSE, [e EXCEPT !.job = FALSE], c)} ELSE {})

\* StopAfterCoreStopped: the child, the driver handle, then everything captured.
StopAfterCoreStopped(e, c) ==
  UNION {IF ~o.ok THEN {o}
         ELSE {Out(TRUE, Clean, c)}
              \cup (IF o.e.driver /\ MayFail THEN {Out(FALSE, o.e, c)} ELSE {}) :
           o \in StopWindowsLocalDpiChild(e, c)}

\* The captured id is withdrawn only while Core still returns it for the tag.
Withdraws(e, c, t) == Reads(c, e, t)

Withdrawn(e, c, S) ==
  [c EXCEPT !.st = [t \in Tags |-> IF t \in S /\ Withdraws(e, c, t)
                                   THEN "withdrawn" ELSE @[t]]]

\* Stop: every captured holder is withdrawn, in order, before the child ends.
Stop(e, c) ==
  StopAfterCoreStopped(e, Withdrawn(e, c, Tags))
  \cup UNION {IF Withdraws(e, c, Services[i]) /\ MayFail
              THEN {Out(FALSE, e, Withdrawn(e, c, {Services[j] : j \in 1..i-1}))}
              ELSE {} : i \in 1..Len(Services)}

\* The state after the outcome o of a stop.
Becomes(o) ==
  /\ exec' = o.e /\ core' = o.c
  /\ faults' = IF o.ok THEN faults ELSE faults + 1

RollBack == pc' = "rollback"

\* CancelProtectedHandoff: the transition guard is started first; when that
\* fails the session is left running.
CancelProtectedHandoff(nf) ==
  \/ /\ RollBack /\ faults' = nf
  \/ /\ nf < MaxFaults /\ pc' = "idle" /\ faults' = nf + 1

\* RollbackRuntime, up to core_->Stop(): the last observation, and Stop, whose
\* result is not used.
RollbackStop ==
  /\ pc = "rollback" /\ pc' = "coreStop"
  /\ hints' = Observed
  /\ \E o \in Stop(exec, core) : Becomes(o)
  /\ UNCHANGED <<window, owner, host, call, child, proofs>>

\* ClearWindowsLocalDpiAfterCoreStopped and the phase RollbackRuntime's callers set.
ClearWindowsLocalDpiAfterCoreStopped(o) ==
  /\ host' = IF o.ok
             THEN [host EXCEPT !.prep = FALSE, !.active = None, !.disabled = FALSE,
                               !.phase = "staged", !.captured = [t \in Tags |-> 0]]
             ELSE [host EXCEPT !.phase = "recovery"]
  /\ Becomes(o)

RollbackCore ==
  /\ pc = "coreStop" /\ pc' = "idle"
  /\ \/ \E o \in StopAfterCoreStopped(exec, [core EXCEPT !.up = FALSE,
                                               !.st = [t \in Tags |-> "none"]]) :
          ClearWindowsLocalDpiAfterCoreStopped(o)
     \/ /\ MayFail /\ faults' = faults + 1              \* Core does not stop
        /\ host' = [host EXCEPT !.phase = "recovery"]
        /\ UNCHANGED <<exec, core>>
  /\ call' = NoCall
  /\ UNCHANGED <<window, owner, hints, child, proofs>>

-----------------------------------------------------------------------------
(* Starting: ConnectImpl's loop, StartPrepared, RetryPrepared, StartChild.  *)

\* ConnectImpl to the point where the protected fallback has proved its egress:
\* Core runs the prepared profile, with a fresh unpublished holder per service.
Connect(n) ==
  /\ pc = "idle" /\ host.phase = "staged"
  /\ \A t \in Tags : core.gen[t] < MaxGen
  /\ core' = [up |-> TRUE, gen |-> [t \in Tags |-> core.gen[t] + 1],
              st |-> [t \in Tags |-> "unpublished"]]
  /\ window' = TRUE /\ owner' = TRUE
  /\ host' = [host EXCEPT !.prep = TRUE, !.disabled = FALSE, !.network = n]
  /\ call' = [NoCall EXCEPT !.strategy = Preferred(n)]
  /\ child' = 0 /\ proofs' = [t \in Tags |-> 0] /\ pc' = "start"
  /\ UNCHANGED <<exec, hints, faults>>

\* The first attempt ends the loop: what happens next is Settle's.
GiveUp == pc' = IF call.mode = "connect" THEN "settle" ELSE "resettle"

\* StartPrepared: the interface, the assets or the scope may refuse before
\* anything is held; then the holders of every service are captured.
StartPrepared ==
  /\ pc = "start"
  /\ \/ GiveUp /\ UNCHANGED exec
     \/ /\ Current /\ ~exec.job /\ exec.process = "none" /\ ~exec.driver
        /\ \A t \in Tags : exec.holders[t] = 0
        /\ pc' = "driver" /\ exec' = [exec EXCEPT !.holders = core.gen]
  /\ UNCHANGED <<core, window, owner, host, hints, call, child, proofs, faults>>

\* The driver opens, or Stop undoes the capture and its result is not looked at.
OpenDriver ==
  /\ pc = "driver"
  /\ \/ /\ pc' = "child" /\ UNCHANGED <<core, faults>>
        /\ exec' = [exec EXCEPT !.driver = TRUE, !.first = call.strategy]
     \/ GiveUp /\ \E o \in Stop(exec, core) : Becomes(o)
  /\ UNCHANGED <<window, owner, host, hints, call, child, proofs>>

\* The unused strategy remains.
RetryLeft(e, s) == ~e.retry_attempted /\ s # e.first

\* RetryPrepared: only before any admission, only the other strategy, only with
\* the captured holders still Core's.  The child is replaced, the rest is kept.
RetryPrepared(e, c) ==
  IF /\ Current /\ ~e.admission_attempted /\ RetryLeft(e, call.strategy)
     /\ e.process # "none" /\ e.job /\ e.driver /\ \A t \in Tags : Reads(c, e, t)
  THEN \/ \E o \in StopWindowsLocalDpiChild([e EXCEPT !.retry_attempted = TRUE], c) :
            Becomes(o) /\ (IF o.ok THEN pc' = "child" ELSE GiveUp)
       \/ /\ GiveUp                     \* the interface changed meanwhile
          /\ exec' = [e EXCEPT !.retry_attempted = TRUE, !.job = FALSE, !.process = "none"]
          /\ core' = c /\ UNCHANGED faults
  ELSE /\ GiveUp /\ exec' = e /\ core' = c /\ UNCHANGED faults

Retry ==
  /\ pc = "retry" /\ RetryPrepared(exec, core)
  /\ UNCHANGED <<window, owner, host, hints, call, child, proofs>>

\* StartChild: job, suspended process, resume.  Whatever fails has Stop undo it.
StartChild ==
  LET started == [exec EXCEPT !.job = TRUE, !.process = "running", !.strategy = call.strategy]
  IN /\ pc = "child"
     /\ \/ exec' = started /\ pc' = "ready" /\ child' = child + 1
           /\ UNCHANGED <<core, faults>>
        \/ /\ GiveUp /\ UNCHANGED child
           /\ \E o \in Stop([exec EXCEPT !.job = TRUE], core) : Becomes(o)
     /\ UNCHANGED <<window, owner, host, hints, call, proofs>>

\* WaitNetworkReady: the child's WinDivert handle was seen open in a live child
\* of a current owner; ConnectImpl and MaintainWindowsLocalDpi then remember the
\* ids this executor captured.
WaitNetworkReady ==
  /\ pc = "ready"
  /\ \/ /\ Current /\ Alive /\ pc' = "prove"
        /\ host' = [host EXCEPT !.captured = exec.holders]
        /\ call' = [call EXCEPT !.index = 1, !.any_proof = FALSE, !.transport = FALSE,
                                !.admitted = {}]
        /\ UNCHANGED <<exec, core, faults>>
     \/ /\ GiveUp /\ \E o \in Stop(exec, core) : Becomes(o)
        /\ UNCHANGED <<host, call>>
  /\ UNCHANGED <<window, owner, hints, child, proofs>>

-----------------------------------------------------------------------------
(* ProveAndAdmitWindowsLocalDpi.                                           *)

Tag == Services[call.index]
Next1 == [call EXCEPT !.index = @ + 1]

\* Faulty: a control host that could not be proved is published all the same.
ProveOneWithoutContinue ==
  /\ pc = "prove" /\ call.index <= Len(Services) /\ Current /\ Alive
  /\ pc' = "admit" /\ call' = [call EXCEPT !.any_proof = TRUE]
  /\ UNCHANGED <<hints, proofs>>

\* One control host: the exchange over the physical interface succeeds, fails
\* on the intercepted TCP path, or fails otherwise (an owner or a child lost
\* meanwhile included).
ProveOne ==
  /\ pc = "prove" /\ call.index <= Len(Services)
  /\ \/ /\ Current /\ Alive /\ pc' = "admit"
        /\ call' = [call EXCEPT !.any_proof = TRUE]
        /\ proofs' = [proofs EXCEPT ![Tag] = child]
        /\ UNCHANGED hints
     \/ /\ Current /\ Alive /\ pc' = pc
        /\ call' = [Next1 EXCEPT !.transport = TRUE]
        /\ hints' = RecordFailure(hints, host.network, Tag, call.strategy)
        /\ UNCHANGED proofs
     \/ /\ pc' = pc /\ call' = Next1 /\ UNCHANGED <<hints, proofs>>

Prove == ProveOne /\ UNCHANGED <<core, exec, window, owner, host, child, faults>>

\* AdmitCaptured: the checks, Core's publication, and the checks again; the
\* child and the owner can be lost between any two of them.
AdmitChecks ==
  /\ pc = "admit"
  /\ IF Current /\ Alive /\ Reads(core, exec, Tag)
     THEN /\ pc' = "publish" /\ exec' = [exec EXCEPT !.admission_attempted = TRUE]
          /\ UNCHANGED call
     ELSE pc' = "prove" /\ call' = Next1 /\ UNCHANGED exec
  /\ UNCHANGED <<core, window, owner, host, hints, child, proofs, faults>>

AdmitPublish ==
  /\ pc = "publish"
  /\ \/ /\ Reads(core, exec, Tag) /\ core.st[Tag] = "unpublished"
        /\ core' = [core EXCEPT !.st[Tag] = "ready"] /\ pc' = "recheck" /\ UNCHANGED call
     \/ pc' = "prove" /\ call' = Next1 /\ UNCHANGED core
  /\ UNCHANGED <<exec, window, owner, host, hints, child, proofs, faults>>

AdmitRecheck ==
  /\ pc = "recheck" /\ pc' = "prove"
  /\ call' = IF Current /\ Alive /\ Reads(core, exec, Tag)
             THEN [Next1 EXCEPT !.admitted = @ \cup {Tag}] ELSE Next1
  /\ UNCHANGED <<core, exec, window, owner, host, hints, child, proofs, faults>>

\* The end of the loop over the services, by its end, the lost owner or child,
\* or the ten second budget.
Judge ==
  LET kept == IF Current /\ Alive THEN call.admitted ELSE {}
      retryable == call.transport /\ ~call.any_proof /\ Current /\ Alive
  IN /\ pc = "prove"
     /\ IF call.mode = "connect" /\ kept = {} /\ retryable /\ call.attempt = 1
        THEN /\ pc' = "retry"
             /\ call' = [call EXCEPT !.attempt = 2, !.strategy = Other(@)]
        ELSE /\ GiveUp
             /\ call' = [call EXCEPT !.admitted = kept, !.proved = kept # {}]
     /\ UNCHANGED <<core, exec, window, owner, host, hints, child, proofs, faults>>

\* After the loop: without a proof everything is stopped and the session goes
\* on over the VPN; an expired catalog ends it.
Settle ==
  /\ pc = "settle"
  /\ \/ /\ call.proved /\ UNCHANGED <<host, exec, core, faults>>
        /\ IF window THEN pc' = "commit" ELSE RollBack
     \/ /\ ~call.proved
        /\ \E o \in Stop(exec, core) :
             /\ Becomes(o)
             /\ IF o.ok THEN host' = [host EXCEPT !.disabled = TRUE] ELSE UNCHANGED host
             /\ IF o.ok /\ window THEN pc' = "commit" ELSE RollBack
  /\ UNCHANGED <<window, owner, hints, call, child, proofs>>

\* The commit: an interruption or a record that cannot be written rolls back.  When
\* the guard cannot be finished the session runs and Connect fails; else a child
\* that is still the proved one becomes the active strategy and a hint for the
\* next time.
Commit ==
  /\ pc = "commit"
  /\ \/ /\ RollBack /\ UNCHANGED <<host, hints, call>>
        /\ \/ ~owner /\ UNCHANGED faults
           \/ MayFail /\ faults' = faults + 1
     \/ /\ owner /\ pc' = "idle" /\ call' = NoCall /\ MayFail /\ faults' = faults + 1
        /\ host' = [host EXCEPT !.phase = "running"] /\ UNCHANGED hints
     \/ /\ owner /\ pc' = "idle" /\ call' = NoCall /\ UNCHANGED faults
        /\ IF call.proved /\ Current /\ Alive
           THEN /\ host' = [host EXCEPT !.phase = "running", !.active = call.strategy]
                /\ hints' = RecordSuccess(hints, call.admitted, host.network, call.strategy)
           ELSE host' = [host EXCEPT !.phase = "running"] /\ UNCHANGED hints
  /\ UNCHANGED <<core, exec, window, owner, child, proofs>>

-----------------------------------------------------------------------------
(* MaintainWindowsLocalDpi, the watcher's tick, and the other operations.   *)

\* MaintainWindowsLocalDpi's tests, one after the other.
Expired == ~window
Lost == ~Expired /\ ~host.disabled /\ (~owner \/ ~Alive)
AllRetryable ==
  \A t \in Tags : /\ core.up /\ host.captured[t] # 0 /\ core.gen[t] = host.captured[t]
                  /\ core.st[t] = "failed"
Retryable == ~Expired /\ ~Lost /\ ~host.disabled /\ host.active # None /\ AllRetryable

Tick == pc = "idle" /\ host.prep /\ host.phase = "running"

\* An expired or changed catalog ends the session behind the guard.
EndExpired ==
  /\ Tick /\ Expired /\ CancelProtectedHandoff(faults)
  /\ UNCHANGED <<core, exec, window, owner, host, hints, call, child, proofs>>

\* A lost owner or an exited child: everything is withdrawn and stopped, and the
\* session goes on over the VPN; what cannot be stopped ends it.
StopLost ==
  /\ Tick /\ Lost
  /\ \E o \in Stop(exec, core) :
       /\ exec' = o.e /\ core' = o.c
       /\ IF o.ok
          THEN host' = [host EXCEPT !.disabled = TRUE] /\ UNCHANGED <<pc, faults>>
          ELSE CancelProtectedHandoff(faults + 1) /\ UNCHANGED host
  /\ UNCHANGED <<window, owner, hints, call, child, proofs>>

\* Core's PrepareWindowsLocalDpiRetry exchanges the captured ids for fresh ones.
Fresh == [core EXCEPT !.gen = [t \in Tags |-> core.gen[t] + 1],
                      !.st = [t \in Tags |-> "unpublished"]]

\* RefreshWindowsLocalDpiRetryIDs refuses, Core refuses, or its answer does not
\* parse although Core has exchanged the holders.
RefreshRefused == {core} \cup (IF \A t \in Tags : core.gen[t] < MaxGen THEN {Fresh} ELSE {})

\* RetryAfterRuntimeFailure, once every holder has failed in a way the other
\* strategy may cure.  The engine is disabled before it starts.
RetryAfterRuntimeFailure ==
  LET other == Other(host.active)
      may == /\ Current /\ exec.process # "none" /\ exec.job /\ exec.driver
             /\ RetryLeft(exec, other) /\ exec.admission_attempted
             /\ \A t \in Tags : Reads(core, exec, t)
      refreshed == [exec EXCEPT !.holders = Fresh.gen, !.admission_attempted = FALSE]
  IN /\ Tick /\ Retryable
     /\ hints' = Observed
     /\ host' = [host EXCEPT !.disabled = TRUE]
     /\ call' = [NoCall EXCEPT !.mode = "runtime", !.strategy = other]
     /\ \/ /\ may /\ \A t \in Tags : core.gen[t] < MaxGen
           /\ pc' = "refreshed" /\ core' = Fresh /\ exec' = refreshed
        \/ /\ pc' = "resettle" /\ UNCHANGED exec
           /\ core' \in (IF may THEN RefreshRefused ELSE {core})
     /\ UNCHANGED <<window, owner, child, proofs, faults>>

RetryRefreshed ==
  /\ pc = "refreshed" /\ RetryPrepared(exec, core)
  /\ UNCHANGED <<window, owner, host, hints, call, child, proofs>>

ProvedAgain ==
  /\ host' = [host EXCEPT !.active = call.strategy, !.disabled = FALSE,
                          !.captured = exec.holders]
  /\ hints' = RecordSuccess(hints, call.admitted, host.network, call.strategy)

\* The end of the runtime retry: the new child is active, or everything is
\* stopped; the catalog may have expired during the proof.
Resettle ==
  /\ pc = "resettle" /\ call' = NoCall
  /\ \/ /\ call.admitted # {} /\ Current /\ Alive
        /\ ProvedAgain /\ pc' = "idle" /\ UNCHANGED <<core, exec, faults>>
     \/ /\ ~(call.admitted # {} /\ Current /\ Alive) /\ UNCHANGED hints
        /\ host' = [host EXCEPT !.captured = exec.holders]
        /\ \E o \in Stop(exec, core) :
             /\ exec' = o.e /\ core' = o.c
             /\ IF ~o.ok THEN CancelProtectedHandoff(faults + 1)
                ELSE IF ~window THEN CancelProtectedHandoff(faults)
                ELSE pc' = "idle" /\ UNCHANGED faults
  /\ UNCHANGED <<window, owner, child, proofs>>

\* GetStatus and GetSnapshot read the observation too.
Snapshot ==
  /\ pc = "idle" /\ hints' = Observed /\ hints' # hints
  /\ UNCHANGED <<core, exec, window, owner, host, pc, call, child, proofs, faults>>

\* Disconnect, from a running session or one that needs recovery.
Disconnect ==
  /\ pc = "idle" /\ host.phase \in {"running", "recovery"} /\ RollBack
  /\ UNCHANGED <<core, exec, window, owner, host, hints, call, child, proofs, faults>>

\* RevokeRoutingCatalog, and RevokeRoutingCatalogService for a prepared service.
RevokeRoutingCatalog ==
  /\ Tick /\ CancelProtectedHandoff(faults)
  /\ UNCHANGED <<core, exec, window, owner, host, hints, call, child, proofs>>

-----------------------------------------------------------------------------
(* The child, Core and the owner.                                          *)

ChildExits ==
  /\ Alive /\ exec' = [exec EXCEPT !.process = "exited"]
  /\ UNCHANGED <<core, window, owner, host, hints, pc, call, child, proofs, faults>>

\* A published holder fails: early_read and the like, which another strategy
\* may cure, or an IPv6 connect, which it cannot.
HolderFails(t) ==
  /\ core.up /\ core.st[t] = "ready"
  /\ core' = [core EXCEPT !.st[t] = "failed"] \/ core' = [core EXCEPT !.st[t] = "failedDns"]
  /\ UNCHANGED <<exec, window, owner, host, hints, pc, call, child, proofs, faults>>

\* Core replaces a holder on its own: the id of the tag is a fresh one.
CoreReplaces(t) ==
  /\ core.up /\ core.gen[t] < MaxGen
  /\ core' = [core EXCEPT !.gen[t] = @ + 1, !.st[t] = "unpublished"]
  /\ UNCHANGED <<exec, window, owner, host, hints, pc, call, child, proofs, faults>>

CatalogExpires ==
  /\ window /\ host.prep /\ window' = FALSE
  /\ UNCHANGED <<core, exec, owner, host, hints, pc, call, child, proofs, faults>>

OwnerLost ==
  /\ owner /\ host.prep /\ owner' = FALSE
  /\ UNCHANGED <<core, exec, window, host, hints, pc, call, child, proofs, faults>>

\* No operation is under way and none need ever be asked for.
Rests == pc = "idle" /\ UNCHANGED vars

-----------------------------------------------------------------------------
Operation ==
  \/ StartPrepared \/ OpenDriver \/ Retry \/ StartChild \/ WaitNetworkReady \/ Prove
  \/ AdmitChecks \/ AdmitPublish \/ AdmitRecheck \/ Judge \/ Settle \/ Commit
  \/ RetryRefreshed \/ Resettle \/ RollbackStop \/ RollbackCore
Watch == EndExpired \/ StopLost \/ RetryAfterRuntimeFailure
Ask == (\E n \in Networks : Connect(n)) \/ Snapshot \/ Disconnect \/ RevokeRoutingCatalog
Environment ==
  \/ ChildExits \/ CatalogExpires \/ OwnerLost
  \/ \E t \in Tags : HolderFails(t) \/ CoreReplaces(t)

Next == Operation \/ Watch \/ Ask \/ Environment \/ Rests

Spec == Init /\ [][Next]_vars

\* An operation under way goes on, and the dispatcher's watcher keeps ticking.
Fairness == WF_vars(Operation) /\ WF_vars(Watch)

-----------------------------------------------------------------------------
Published == {t \in DOMAIN core.st : core.up /\ core.st[t] = "ready"}

\* Stop withdraws before it closes: while Core sends a service's traffic to the
\* child, the service has not closed the child's job, whichever call failed.
ChildOutlivesPublication == Published # {} => exec.job

\* A published holder was proved through the very child that serves it: a retry
\* with the other strategy leaves no holder published on the old proof.
PublishedWasProved == \A t \in Published : proofs[t] = child

\* After a session has ended without needing recovery the service holds no
\* child, no driver handle and no captured holder.
NothingLeftBehind ==
  pc = "idle" /\ host.phase = "staged" =>
    /\ ~exec.job /\ exec.process = "none" /\ ~exec.driver
    /\ \A t \in DOMAIN exec.holders : exec.holders[t] = 0
    /\ ~exec.retry_attempted /\ ~exec.admission_attempted

\* At most one retry per preparation, at Connect or after a runtime failure.
OneRetry == child <= 2

\* Between operations the active strategy is that of the child that runs, so
\* a runtime failure is held against the strategy that failed.
ActiveIsWhatRuns ==
  pc = "idle" /\ host.phase = "running" /\ host.active # None /\ ~host.disabled
    => exec.strategy = host.active

\* hints_ never holds more than its limit.
HintsBounded == Cardinality(DOMAIN hints) <= MaxHints

\* "Failure, cancellation or an exhausted pair leaves this connection on VPN":
\* once the engine is disabled and no operation runs, nothing is published.  It
\* takes two failed calls, of a withdrawal and of the guard, to leave more.
DisabledIsOnVpn ==
  pc = "idle" /\ host.phase = "running" /\ host.disabled /\ faults < 2 => Published = {}

\* Traffic goes to the child only while it runs and was proved, whichever call
\* failed on the way, and afterwards nothing of it is left.
PublishedIsServed ==
  /\ ChildOutlivesPublication /\ PublishedWasProved /\ NothingLeftBehind
  /\ OneRetry /\ ActiveIsWhatRuns /\ HintsBounded

\* A child that has exited under a published holder is noticed: the holder is
\* withdrawn or the session ends.  After two failed calls, of the withdrawal at the
\* end of a runtime retry and of the guard, nobody looks at the child of a disabled
\* engine any more, until the catalog expires.
DeadChildIsWithdrawn ==
  (host.phase = "running" /\ ~Alive /\ Published # {})
    ~> (Published = {} \/ host.phase # "running" \/ (host.disabled /\ faults >= 2))

\* A session on a catalog that has expired ends, whether or not the engine is
\* still used: its rules must not outlive their window.
ExpiredCatalogEnds ==
  (host.phase = "running" /\ host.prep /\ ~window) ~> host.phase # "running"
================================================================================

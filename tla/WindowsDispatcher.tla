------------------------- MODULE WindowsDispatcher --------------------------
(***************************************************************************)
(* The dispatcher of the Windows service: service/service_dispatcher.cpp.  *)
(*                                                                         *)
(* Session threads (Handlers) call Execute; the watcher thread ends bound  *)
(* sessions whose owner, network or deadline is gone, maintains the DPI    *)
(* child and checks egress.  execution_lock_ is held over a whole call of  *)
(* the runtime host, state_lock_ only for short blocks: such a block is    *)
(* one step here, except in CheckRunningEgress, which holds state_lock_    *)
(* while it tries execution_lock_.  The runtime host is represented by     *)
(* what its calls may leave behind; WindowsRuntimeHost has the calls in    *)
(* detail.                                                                 *)
(***************************************************************************)
EXTENDS Naturals, FiniteSets

CONSTANTS
  Targets,        \* connect invocations: session token and operation nonce
  Bound,          \* those that are kConnectWithIdentity
  Leased,         \* those whose profile requires a transport lease
  Replacing,      \* those that are kReplaceManagedProfile
  Dpi, Telegram,  \* those whose profile asks for local DPI, for Telegram WS
  Handlers, Watcher, None,
  Offered,        \* commands the clients use
  MaxRequests,    \* requests the clients make
  MaxEvents       \* deaths of clients, passed deadlines, network changes

\* What the constants are; the theorems suppose it, and TLC evaluates it for
\* every instance.
TargetsAssumption ==
  /\ Bound \subseteq Targets /\ Replacing \subseteq Targets
  /\ Leased \subseteq Bound /\ Bound \cap Replacing = {}
  /\ None \notin Targets \cup Handlers /\ Watcher \notin Handlers \cup {None}
BoundsAssumption ==
  /\ MaxRequests \in Nat /\ MaxEvents \in Nat
  /\ Offered \subseteq {"connect", "cancel", "confirm", "promote", "revoke", "terminate",
                       "configure", "status", "disconnect", "stage", "catalog", "leases"}

VARIABLES
  execution,      \* holder of execution_lock_
  stateHeld,      \* CheckRunningEgress holds state_lock_
  active, stopped, snapshot, closing,
  egress,         \* egress_check_cancelled_
  op,             \* the ActiveConnect of every invocation
  host,           \* what RuntimeHost is left with between its calls
  request, pc,    \* of every handler
  result,         \* whether the handler's last host call succeeded
  wpc, wop,       \* of the watcher, and the operation it picked
  watchBound,
  alive, late, lapsed, revision, stopEvent,       \* the world
  events,         \* of the world, so far
  begun,          \* invocations some client has made
  confirmed,      \* targets some client was told have settled
  asked

ownerVars == <<active, stopped, op>>
lockVars == <<execution, stateHeld>>
handlerVars == <<request, pc, result>>
watcherVars == <<wpc, wop, watchBound>>
worldVars == <<alive, late, lapsed, revision, stopEvent, events>>
vars == <<lockVars, ownerVars, snapshot, closing, egress, host, handlerVars,
          watcherVars, worldVars, begun, confirmed, asked>>

Causes == {"none", "cancelled", "owner", "network", "deadline"}
Phases == {"idle", "running", "recovery"}

\* RuntimeHost: phase_, the invocation whose session it is, and whether the
\* guard counts as armed and a DPI or Telegram preparation is kept.  The last
\* is there for the properties only: the guard failed the connect of the session
\* or its undo, and RetireConnect dropped its owner.
Hosts == [phase : Phases, session : Targets \cup {None}, armed : BOOLEAN,
          dpi : BOOLEAN, telegram : BOOLEAN, dropped : BOOLEAN]

Operations ==
  [cause : Causes, cancelled : BOOLEAN, expired : BOOLEAN, attempted : BOOLEAN,
   promoted : BOOLEAN, terminated : BOOLEAN, handoff : BOOLEAN,
   protected : BOOLEAN, revision : 0..MaxEvents, dpi : BOOLEAN,
   telegram : BOOLEAN, dpiCut : BOOLEAN, telegramCut : BOOLEAN,
   maintained : BOOLEAN]

NewOperation ==
  [cause |-> "none", cancelled |-> FALSE, expired |-> FALSE, attempted |-> FALSE,
   promoted |-> FALSE, terminated |-> FALSE, handoff |-> FALSE,
   protected |-> FALSE, revision |-> 0, dpi |-> FALSE, telegram |-> FALSE,
   dpiCut |-> FALSE, telegramCut |-> FALSE, maintained |-> FALSE]

TargetCommands == {"connect", "cancel", "confirm", "promote", "revoke",
                   "terminate", "configure"}
Commands == TargetCommands \cup {"status", "disconnect", "stage", "catalog", "leases"}
NoRequest == [command |-> "none", target |-> None]
Requests == [command : TargetCommands, target : Targets]
            \cup [command : Commands \ TargetCommands, target : {None}]

TypeOK ==
  /\ execution \in Handlers \cup {Watcher, None}
  /\ stateHeld \in BOOLEAN /\ closing \in BOOLEAN /\ stopEvent \in BOOLEAN
  /\ active \in Targets \cup {None} /\ stopped \in Targets \cup {None}
  /\ snapshot \in Phases \cup {"busy"}
  /\ egress \in {"none", "running", "cancelled"}
  /\ op \in [Targets -> Operations] /\ host \in Hosts
  /\ request \in [Handlers -> Requests \cup {NoRequest}]
  /\ pc \in [Handlers -> {"idle", "lock", "contended", "join", "register", "run",
                          "after", "undo", "confirmLock", "confirmStop"}]
  /\ result \in [Handlers -> BOOLEAN]
  /\ wpc \in {"wait", "maintain", "maintainTry", "maintaining", "bound", "cleanLock", 
              "clean", "egress", "egressTry", "checking", "done"}
  /\ wop \in Targets \cup {None} /\ watchBound \in BOOLEAN
  /\ alive \in [Targets -> BOOLEAN] /\ late \in [Targets -> BOOLEAN]
  /\ lapsed \in [Targets -> BOOLEAN] /\ revision \in 0..MaxEvents
  /\ events \in 0..MaxEvents /\ begun \subseteq Targets
  /\ confirmed \subseteq Targets /\ asked \in 0..MaxRequests

-----------------------------------------------------------------------------
(* ActiveConnect.                                                          *)

\* Interrupt: the first cause stays; a deadline sets another flag.
Interrupt(o, cause) ==
  [o EXCEPT !.cause = IF @ = "none" THEN cause ELSE @,
            !.expired = @ \/ cause = "deadline",
            !.cancelled = @ \/ cause # "deadline"]

InterruptIf(o, condition, cause) == IF condition THEN Interrupt(o, cause) ELSE o

Stopping(o) == o.cancelled \/ o.expired

\* The owner's process is gone and no live lease covers for it.
Orphaned(o, t) == (~o.promoted \/ o.terminated) /\ ~alive[t]

\* Faulty: a promoted session is not looked at again.
OverdueConnect(o, t) == t \in Bound /\ ~o.handoff /\ ~o.promoted /\ late[t]

\* The connect deadline, or once promoted the lease, has passed.
Overdue(o, t) ==
  t \in Bound /\ ~o.handoff /\ IF o.promoted THEN lapsed[t] ELSE late[t]

\* RefreshBoundNetwork: a lost owner ends the look; only then the network.
Refreshed(o, t) ==
  LET cut == [o EXCEPT !.telegramCut = @ \/ (o.telegram /\ (~alive[t] \/ o.revision # revision)),
                       !.dpiCut = @ \/ (o.dpi /\ ~o.cancelled /\ ~alive[t])]
  IN  IF (t \notin Bound /\ ~o.dpi) \/ o.cancelled THEN cut
      ELSE IF Orphaned(o, t) THEN Interrupt(cut, "owner")
      ELSE InterruptIf(cut, o.revision # revision, "network")

\* What ProjectBoundState does to the operation whose state it projects.
Projected(o, t) ==
  IF t \notin Bound THEN o
  ELSE LET owner == InterruptIf(o, Orphaned(o, t), "owner")
           network == InterruptIf(owner, o.revision # revision, "network")
       IN  InterruptIf(network, Overdue(o, t), "deadline")

\* The phase it shows for an operation it has projected.
ShownPhase(o, t, phase) ==
  IF t \in Bound /\ Stopping(o) /\ phase # "recovery" THEN "busy" ELSE phase

\* transport_lease_active of the frame.
ShownLease(o, t, phase) ==
  /\ t \in Leased /\ o.promoted /\ ~o.terminated
  /\ ShownPhase(o, t, phase) = "running"

SetOp(t, value) == op' = [op EXCEPT ![t] = value]

\* ProjectBoundState, as the last thing a handler does.
ProjectBoundState ==
  IF active = None THEN UNCHANGED op
  ELSE SetOp(active, Projected(op[active], active))

\* RetireConnect.
Retire ==
  /\ stopped' = IF active \in Bound THEN active ELSE stopped
  /\ active' = None

-----------------------------------------------------------------------------
(* Calls of the runtime host: the states and answers they may leave.       *)

HostIdle(h, armed) ==
  [h EXCEPT !.phase = "idle", !.session = None, !.armed = armed,
            !.dpi = FALSE, !.telegram = FALSE, !.dropped = FALSE]

Outcome(h, ok) == [host |-> h, ok |-> ok, guard |-> TRUE]

\* The guard's call failed: it counts as armed, and a session that runs stays.
GuardFailed(h) == [host |-> [h EXCEPT !.armed = TRUE], ok |-> FALSE, guard |-> FALSE]

\* Disconnect(explicit): an explicit one releases the guard at the end.
Disconnected(h, explicit) ==
  LET rest == IF h.phase = "idle" THEN h ELSE HostIdle(h, h.armed)
  IN  {Outcome([rest EXCEPT !.armed = h.armed /\ ~explicit], TRUE)}
      \cup (IF explicit THEN {GuardFailed(rest)} ELSE {})
      \cup (IF h.phase = "idle" THEN {} ELSE {Outcome([h EXCEPT !.phase = "recovery"], FALSE)})

\* CancelProtectedHandoff: the guard first; without it nothing is stopped.
ProtectedHandoffCancelled(h) ==
  Disconnected([h EXCEPT !.armed = TRUE], FALSE) \cup {GuardFailed(h)}

\* A session of t that reached kRunning.
Started(h, t, dpi, telegram, armed) ==
  [h EXCEPT !.phase = "running", !.session = t, !.armed = armed,
            !.dpi = dpi, !.telegram = telegram]

\* A connect that failed: rolled back, left in recovery_required, or over before
\* there was anything to roll back, a preparation kept.
ConnectFailed(h, t, dpi, telegram, armed) ==
  {Outcome(HostIdle(h, armed), FALSE),
   Outcome([HostIdle(h, armed) EXCEPT !.dpi = dpi, !.telegram = telegram], FALSE),
   Outcome([HostIdle(h, armed) EXCEPT !.phase = "recovery", !.session = t], FALSE)}

\* ConnectImpl.  A profile with DPI arms the guard before anything starts.  A
\* session that needs no lease has its egress validated by then and releases a
\* guard that counts as armed; where that fails the session runs on and the
\* answer is a failure.
Connected(h, t, o) ==
  CASE h.phase = "recovery" -> {Outcome(h, FALSE)}
    [] h.phase = "running" ->
         IF t \in Bound \/ h.session \in Leased THEN {Outcome(h, FALSE)}
                                                 ELSE {Outcome(h, TRUE), Outcome(h, FALSE)}
    [] OTHER -> UNION {
         LET armed == h.armed \/ dpi
             started == Started(h, t, dpi, o.telegram, armed)
         IN  ConnectFailed(h, t, dpi, o.telegram, armed)
             \cup {Outcome([started EXCEPT !.armed = armed /\ t \in Leased], TRUE)}
             \cup (IF armed /\ t \notin Leased THEN {GuardFailed(started)} ELSE {})
         : dpi \in {FALSE, o.dpi}}

\* ReplaceManagedProfile: the guard, Disconnect(false), then a fresh connect.
Replaced(h, t, o) ==
  LET down == Disconnected([h EXCEPT !.armed = TRUE], FALSE)
  IN  IF h.session \in Leased \/ (h.phase # "running" /\ ~h.armed) THEN {Outcome(h, FALSE)}
      ELSE {GuardFailed(h)} \cup {d \in down : ~d.ok}
           \cup UNION {Connected(d.host, t, o) : d \in {d \in down : d.ok}}

-----------------------------------------------------------------------------
(* Execute.                                                                *)

Release == execution' = None

Answer(h) ==
  /\ pc' = [pc EXCEPT ![h] = "idle"]
  /\ request' = [request EXCEPT ![h] = NoRequest]
  /\ result' = [result EXCEPT ![h] = FALSE]

Goto(h, label) == pc' = [pc EXCEPT ![h] = label] /\ UNCHANGED <<request, result>>

\* A request of a client reaches Execute.
Arrives(h, r) ==
  /\ pc[h] = "idle" /\ asked < MaxRequests /\ ~stopEvent /\ ~stateHeld
  /\ asked' = asked + 1
  /\ UNCHANGED <<lockVars, snapshot, closing, egress, host, watcherVars, worldVars>>

\* kStatus: RefreshBoundNetwork, then ProjectBoundState, without execution_lock_.
Status(h) ==
  /\ Arrives(h, NoRequest)
  /\ IF active = None THEN UNCHANGED op
     ELSE SetOp(active, Projected(Refreshed(op[active], active), active))
  /\ UNCHANGED <<active, stopped, handlerVars, begun, confirmed>>

\* Cancel.  It also lets the watcher try a failed cleanup again.
Cancel(h, t) ==
  /\ Arrives(h, NoRequest)
  /\ IF active = t THEN SetOp(t, [Interrupt(op[t], "cancelled") EXCEPT !.attempted = FALSE])
                   ELSE UNCHANGED op
  /\ UNCHANGED <<active, stopped, handlerVars, begun, confirmed>>

\* CancelAndConfirm up to its wait for execution_lock_.
CancelAndConfirm(h, t) ==
  /\ Arrives(h, NoRequest)
  /\ \/ /\ stopped = t
        /\ confirmed' = confirmed \cup {t}
        /\ UNCHANGED <<op, handlerVars>>
     \/ /\ stopped # t /\ (active # t \/ t \notin Bound)
        /\ UNCHANGED <<op, handlerVars, confirmed>>
     \/ /\ stopped # t /\ active = t /\ t \in Bound
        /\ SetOp(t, Interrupt(op[t], "cancelled"))
        /\ request' = [request EXCEPT ![h] = [command |-> "confirm", target |-> t]]
        /\ pc' = [pc EXCEPT ![h] = "confirmLock"]
        /\ UNCHANGED <<result, confirmed>>
  /\ UNCHANGED <<active, stopped, begun>>

\* The runtime owner has been joined; the same invocation must still be there.
ConfirmLock(h) ==
  LET t == request[h].target IN
  /\ pc[h] = "confirmLock" /\ execution = None /\ ~stateHeld
  /\ \/ /\ stopped = t \/ active # t
        /\ confirmed' = IF stopped = t THEN confirmed \cup {t} ELSE confirmed
        /\ Answer(h)
        /\ UNCHANGED <<execution, op>>
     \/ /\ stopped # t /\ active = t
        /\ SetOp(t, [op[t] EXCEPT !.attempted = TRUE])
        /\ execution' = h
        /\ Goto(h, "confirmStop")
        /\ UNCHANGED confirmed
  /\ UNCHANGED <<stateHeld, active, stopped, snapshot, closing, egress, host,
                 watcherVars, worldVars, begun, asked>>

ConfirmStop(h) ==
  /\ pc[h] = "confirmStop" /\ ~stateHeld
  /\ \E outcome \in Disconnected(host, TRUE) :
       /\ host' = outcome.host
       /\ snapshot' = outcome.host.phase
       /\ IF outcome.ok
          THEN Retire /\ confirmed' = confirmed \cup {request[h].target}
          ELSE UNCHANGED <<active, stopped, confirmed>>
  /\ Release /\ Answer(h)
  /\ UNCHANGED <<stateHeld, op, closing, egress, watcherVars, worldVars, begun, asked>>

\* A request that needs the runtime.  A bound connect whose deadline has passed
\* is over before it begins.
Submit(h, r) ==
  /\ Arrives(h, r)
  /\ r.command = "connect" => r.target \notin begun
  /\ begun' = IF r.command = "connect" THEN begun \cup {r.target} ELSE begun
  /\ IF r.command = "connect" /\ r.target \in Bound /\ late[r.target]
     THEN stopped' = r.target /\ UNCHANGED handlerVars
     ELSE /\ request' = [request EXCEPT ![h] = r]
          /\ pc' = [pc EXCEPT ![h] = "lock"]
          /\ UNCHANGED <<stopped, result>>
  /\ UNCHANGED <<active, op, confirmed>>

TryLock(h) ==
  /\ pc[h] = "lock"
  /\ IF execution = None THEN execution' = h /\ Goto(h, "register")
                         ELSE Goto(h, "contended") /\ UNCHANGED execution
  /\ UNCHANGED <<stateHeld, ownerVars, snapshot, closing, egress, host, watcherVars,
                 worldVars, begun, confirmed, asked>>

\* Is the lock held by a check that can be cut short?
MaintainedNow == active # None /\ op[active].maintained

\* Faulty: the lock is polled; the holder is neither cancelled nor joined.
ContendedPolls(h) ==
  /\ pc[h] = "contended" /\ ~stateHeld
  /\ Goto(h, "lock")
  /\ UNCHANGED <<lockVars, ownerVars, snapshot, closing, egress, host, watcherVars,
                 worldVars, begun, confirmed, asked>>

\* execution_lock_ was taken.  An egress check is cancelled and joined, and a
\* disconnect joins DPI maintenance; anything else is told runtime_busy.
Contended(h) ==
  LET r == request[h]
      joins == /\ r.command # "leases"
               /\ egress # "none" \/ (r.command = "disconnect" /\ MaintainedNow)
  IN
  /\ pc[h] = "contended" /\ ~stateHeld
  /\ egress' = IF r.command # "leases" /\ egress = "running" THEN "cancelled" ELSE egress
  /\ \/ /\ joins
        /\ Goto(h, "join")
        /\ IF r.command = "disconnect" /\ MaintainedNow
           THEN SetOp(active, [op[active] EXCEPT !.dpiCut = TRUE]) ELSE UNCHANGED op
        /\ UNCHANGED stopped
     \/ /\ ~joins
        /\ stopped' = IF r.command = "connect" /\ r.target \in Bound THEN r.target ELSE stopped
        /\ ProjectBoundState
        /\ Answer(h)
  /\ UNCHANGED <<lockVars, active, snapshot, closing, host, watcherVars, worldVars,
                 begun, confirmed, asked>>

Join(h) ==
  /\ pc[h] = "join" /\ execution = None
  /\ execution' = h
  /\ Goto(h, "register")
  /\ UNCHANGED <<stateHeld, ownerVars, snapshot, closing, egress, host, watcherVars,
                 worldVars, begun, confirmed, asked>>

\* A refused request: the lock is released, nothing is published.
Refuse(h) == Release /\ Answer(h) /\ ProjectBoundState /\ UNCHANGED <<active, snapshot>>

\* The ActiveConnect of an admitted connect.
Admitted(t, owned) ==
  [NewOperation EXCEPT
     !.revision = revision, !.dpi = owned /\ t \in Dpi,
     !.telegram = owned /\ t \in Telegram,
     !.protected = t \in Replacing \/ host.armed]

\* A connect is admitted: the network the client named must be the current one,
\* a bound owner alive, no bound session there; then it becomes the active one.
\* An unbound connect whose client is gone goes on without DPI.
RegisterConnect(h) ==
  LET t == request[h].target
      asksHelper == t \in Dpi \cup Telegram
  IN
  /\ pc[h] = "register" /\ request[h].command = "connect" /\ ~stateHeld
  /\ \/ /\ t \in Bound \cup Replacing          \* network_context_unavailable
        /\ Refuse(h) /\ stopped' = t
     \/ /\ t \in Bound /\ ~alive[t]            \* connect_owner_unavailable
        /\ Refuse(h) /\ stopped' = t
     \/ /\ active \in Bound /\ (t \in Bound => alive[t])
        /\ stopped' = IF t \in Bound \/ (asksHelper /\ ~alive[t]) THEN t ELSE stopped
        /\ Refuse(h)
     \/ /\ active \notin Bound /\ (t \in Bound => alive[t])
        /\ \E seen \in {FALSE, asksHelper} :    \* candidate_network_ answered
             /\ SetOp(t, Admitted(t, seen /\ alive[t]))
             /\ stopped' = IF seen /\ asksHelper /\ ~alive[t] THEN t ELSE stopped
        /\ active' = t
        /\ snapshot' = "busy"
        /\ Goto(h, "run")
        /\ UNCHANGED execution
  /\ UNCHANGED <<stateHeld, closing, egress, host, watcherVars, worldVars, begun,
                 confirmed, asked>>

\* The invocation holds a network revision.
Captured(o, t) == t \in Bound \cup Replacing \/ o.dpi

\* The interruption check of a connect, where it finds one: if it is nothing
\* else, a deadline has passed.
Polled(o, t) ==
  LET stop == InterruptIf(o, o.cause = "none" /\ stopEvent, "cancelled")
      owner == InterruptIf(stop, (t \in Bound \/ o.dpi) /\ ~alive[t], "owner")
      network == InterruptIf(owner, Captured(o, t) /\ o.revision # revision, "network")
  IN  InterruptIf(network, network.cause = "none", "deadline")

\* What a connect or its undo leaves: a session that runs after the guard failed
\* is no longer anybody's.
Left(outcome) ==
  [outcome.host EXCEPT !.dropped = @ \/ (~outcome.guard /\ outcome.host.phase = "running")]

\* The connect runs to its end, or a poll ends it.
RunConnect(h) ==
  LET t == request[h].target
      o == op[t]
      outcomes == IF t \in Replacing THEN Replaced(host, t, o) ELSE Connected(host, t, o)
  IN
  /\ pc[h] = "run" /\ request[h].command = "connect"
  /\ \/ \E outcome \in outcomes :
          /\ host' = Left(outcome)
          /\ result' = [result EXCEPT ![h] = outcome.ok]
          /\ UNCHANGED op
     \/ \E outcome \in {x \in outcomes : ~x.ok /\ x.guard} :
          /\ host' = outcome.host
          /\ result' = [result EXCEPT ![h] = FALSE]
          /\ SetOp(t, Polled(o, t))
  /\ pc' = [pc EXCEPT ![h] = "after"]
  /\ UNCHANGED <<lockVars, active, stopped, snapshot, closing, egress, request,
                 watcherVars, worldVars, begun, confirmed, asked>>

\* What the end of Execute finds out before it decides.
Settled(o, t) ==
  LET fresh == Refreshed(o, t)
      network == InterruptIf(fresh, Captured(o, t) /\ o.revision # revision, "network")
  IN  InterruptIf(network, t \in Bound /\ late[t], "deadline")

\* A connect that is over leaves no owner behind.
Retires(t, ok) ==
  \/ t \notin Bound /\ ~host.dpi /\ ~host.telegram
  \/ ~ok /\ host.phase # "recovery"

\* The end of a connect.  One that succeeded and was interrupted is undone.
\* Otherwise a bound owner, or one of a DPI or Telegram session, stays.
AfterConnect(h) ==
  LET t == request[h].target
      o == Settled(op[t], t)
  IN
  /\ pc[h] = "after" /\ request[h].command = "connect" /\ ~stateHeld
  /\ \/ /\ Stopping(o) /\ result[h]
        /\ SetOp(t, o)
        /\ Goto(h, "undo")
        /\ UNCHANGED <<active, stopped, snapshot, execution>>
     \/ /\ ~(Stopping(o) /\ result[h])
        /\ snapshot' = host.phase
        /\ IF Retires(t, result[h]) THEN Retire /\ SetOp(t, o)
           ELSE /\ SetOp(t, Projected([o EXCEPT !.attempted = @ \/ ~result[h]], t))
                /\ UNCHANGED <<active, stopped>>
        /\ Release /\ Answer(h)
  /\ UNCHANGED <<stateHeld, closing, egress, host, watcherVars, worldVars, begun,
                 confirmed, asked>>

\* Faulty: the owner is retired although the rollback left a recovery.
KeepsOwnerNever(t, left) == FALSE

\* A bound owner stays where the undo left a recovery.
KeepsOwner(t, left) == t \in Bound /\ left.phase = "recovery"

\* cancel_after_commit.
UndoConnect(h) ==
  LET t == request[h].target
      outcomes == IF op[t].protected THEN ProtectedHandoffCancelled(host)
                                     ELSE Disconnected(host, TRUE)
  IN
  /\ pc[h] = "undo" /\ request[h].command = "connect" /\ ~stateHeld
  /\ \E outcome \in outcomes :
       /\ host' = Left(outcome)
       /\ snapshot' = outcome.host.phase
       /\ IF KeepsOwner(t, outcome.host)
          THEN SetOp(t, [op[t] EXCEPT !.attempted = TRUE]) /\ UNCHANGED <<active, stopped>>
          ELSE Retire /\ UNCHANGED op
  /\ Release /\ Answer(h)
  /\ UNCHANGED <<stateHeld, closing, egress, watcherVars, worldVars, begun,
                 confirmed, asked>>

-----------------------------------------------------------------------------
(* Commands on a bound session: promote, revoke, terminate, configure.     *)

\* The owner named by the request is still the active one and undisturbed.
OwnerCurrent(t) ==
  /\ active = t /\ t \in Bound
  /\ ~Stopping(op[t]) /\ ~op[t].attempted

Admissible(command, t) ==
  /\ OwnerCurrent(t)
  /\ CASE command = "promote" -> ~op[t].promoted /\ op[t].revision = revision
                                 /\ ~late[t] /\ alive[t]
       [] command \in {"revoke", "terminate"} -> op[t].promoted /\ ~op[t].terminated /\ alive[t]
       [] OTHER -> op[t].revision = revision /\ (op[t].handoff \/ ~late[t])

BoundCommands == {"promote", "revoke", "terminate", "configure"}

RegisterBound(h) ==
  LET t == request[h].target
      command == request[h].command
      o == Refreshed(op[t], t)
  IN
  /\ pc[h] = "register" /\ command \in BoundCommands /\ ~stateHeld
  /\ IF Admissible(command, t) /\ ~o.cancelled
     THEN /\ SetOp(t, [o EXCEPT !.terminated = @ \/ command = "terminate"])
          /\ Goto(h, "run")
          /\ UNCHANGED execution
     ELSE /\ IF Admissible(command, t) THEN SetOp(t, o) ELSE UNCHANGED op
          /\ Release /\ Answer(h)
  /\ UNCHANGED <<stateHeld, active, stopped, snapshot, closing, egress, host,
                 watcherVars, worldVars, begun, confirmed, asked>>

\* PromoteTransportLease, RevokeTransportLease and
\* ConfigureSmartAccessRuntimeControl leave the session as it is.
RunBound(h) ==
  /\ pc[h] = "run" /\ request[h].command \in BoundCommands
  /\ \E ok \in {FALSE, host.phase = "running" /\ (request[h].command = "configure"
                                                \/ request[h].target \in Leased)} :
       result' = [result EXCEPT ![h] = ok]
  /\ pc' = [pc EXCEPT ![h] = "after"]
  /\ UNCHANGED <<lockVars, ownerVars, snapshot, closing, egress, host, request,
                 watcherVars, worldVars, begun, confirmed, asked>>

\* The answer counts only if the owner is still current; a promotion or a
\* revocation that does not count is followed by Disconnect.
AfterBound(h) ==
  LET t == request[h].target
      command == request[h].command
      o == Refreshed(op[t], t)
      current == active = t /\ ~Stopping(o)
      counts == CASE command = "promote" -> current /\ result[h] /\ Admissible("promote", t)
                                            /\ ~lapsed[t]
                  [] command = "configure" -> TRUE
                  [] OTHER -> current /\ result[h]
      done == [o EXCEPT !.promoted = @ \/ command = "promote",
                        !.handoff = @ \/ (command = "configure" /\ t \notin Leased /\ result[h]
                                          /\ current /\ Admissible("configure", t))]
  IN
  /\ pc[h] = "after" /\ command \in BoundCommands /\ ~stateHeld
  /\ IF counts
     THEN /\ SetOp(t, IF command = "configure" THEN done ELSE Projected(done, t))
          /\ snapshot' = host.phase
          /\ Release /\ Answer(h)
     ELSE SetOp(t, o) /\ Goto(h, "undo") /\ UNCHANGED <<execution, snapshot>>
  /\ UNCHANGED <<stateHeld, active, stopped, closing, egress, host, watcherVars,
                 worldVars, begun, confirmed, asked>>

UndoBound(h) ==
  LET t == request[h].target IN
  /\ pc[h] = "undo" /\ request[h].command \in BoundCommands /\ ~stateHeld
  /\ \E outcome \in Disconnected(host, TRUE) :
       /\ host' = outcome.host
       /\ snapshot' = outcome.host.phase
       /\ IF active # t THEN UNCHANGED ownerVars
          ELSE IF outcome.ok THEN Retire /\ UNCHANGED op
          ELSE SetOp(t, [op[t] EXCEPT !.attempted = TRUE]) /\ UNCHANGED <<active, stopped>>
  /\ Release /\ Answer(h)
  /\ UNCHANGED <<stateHeld, closing, egress, watcherVars, worldVars, begun,
                 confirmed, asked>>

-----------------------------------------------------------------------------
(* The other commands that call the host.                                  *)

\* kStageProfile and the like are refused while a bound session is there.
RegisterOther(h) ==
  LET command == request[h].command IN
  /\ pc[h] = "register" /\ command \in {"disconnect", "stage", "catalog", "leases"}
  /\ ~stateHeld
  /\ IF command = "stage" /\ active \in Bound
     THEN Refuse(h)
     ELSE /\ snapshot' = IF command = "leases" THEN host.phase ELSE "busy"
          /\ Goto(h, "run")
          /\ UNCHANGED <<execution, active, op>>
  /\ UNCHANGED <<stateHeld, stopped, closing, egress, host, watcherVars, worldVars,
                 begun, confirmed, asked>>

\* A revoked catalog ends a DPI session under the guard.
OtherOutcomes(command) ==
  CASE command = "disconnect" -> Disconnected(host, TRUE)
    [] command = "catalog" /\ host.phase = "running" /\ host.dpi ->
         ProtectedHandoffCancelled(host)
    [] command = "stage" /\ host.phase = "idle" ->
         {Outcome([host EXCEPT !.dpi = FALSE, !.telegram = FALSE], TRUE)}
    [] OTHER -> {Outcome(host, FALSE)}

\* The DPI session of t is over: its owner has nothing left to watch.
DpiEnded(t, left) ==
  /\ ~left.dpi /\ ~left.telegram
  /\ t \in Bound => host.dpi /\ left.phase # "running"

RunOther(h) ==
  LET command == request[h].command IN
  /\ pc[h] = "run" /\ command \in {"disconnect", "stage", "catalog", "leases"}
  /\ ~stateHeld
  /\ \E outcome \in OtherOutcomes(command) :
       LET left == outcome.host
           dpiOwner == active # None /\ op[active].dpi
       IN
       /\ host' = left
       /\ snapshot' = left.phase
       /\ IF command = "disconnect" /\ outcome.ok THEN Retire /\ UNCHANGED op
          ELSE IF host.dpi /\ dpiOwner /\ left.phase = "recovery"
          THEN SetOp(active, Projected([op[active] EXCEPT !.attempted = TRUE], active))
               /\ UNCHANGED <<active, stopped>>
          ELSE IF dpiOwner /\ left.phase # "recovery" /\ DpiEnded(active, left)
          THEN Retire /\ UNCHANGED op
          ELSE ProjectBoundState /\ UNCHANGED <<active, stopped>>
  /\ Release /\ Answer(h)
  /\ UNCHANGED <<stateHeld, closing, egress, watcherVars, worldVars, begun,
                 confirmed, asked>>

-----------------------------------------------------------------------------
(* The watcher thread.                                                     *)

Idle == UNCHANGED <<stateHeld, stopped, active, snapshot, closing, egress, host,
                    handlerVars, worldVars, begun, confirmed, asked>>

\* The watcher goes on; back at its wait it holds no operation.
WatchGoto(label) ==
  /\ wpc' = label
  /\ wop' = IF label \in {"wait", "done"} THEN None ELSE wop
  /\ watchBound' = (label \notin {"wait", "done"} /\ watchBound)

\* WatchBoundConnect picks the active operation, or ends.
Pick ==
  LET watched == active # None /\ ~op[active].attempted
      helped == watched /\ (op[active].dpi \/ op[active].telegram)
  IN
  /\ wpc = "wait" /\ ~stateHeld
  /\ closing \/ helped \/ ~watched \/ active \notin Bound
  /\ wop' = IF helped THEN active ELSE None
  /\ watchBound' = (helped /\ active \in Bound)
  /\ wpc' = IF closing THEN "done" ELSE IF helped THEN "maintain" ELSE "egress"
  /\ UNCHANGED <<execution, op>> /\ Idle

\* RefreshBoundNetwork, then the operation must still be the active one.
Maintain ==
  LET o == Refreshed(op[wop], wop)
      entered == active = wop /\ ~closing
  IN
  /\ wpc = "maintain" /\ ~stateHeld
  /\ SetOp(wop, [o EXCEPT !.maintained = entered /\ o.dpi])
  /\ WatchGoto(IF entered THEN "maintainTry" ELSE "wait")
  /\ UNCHANGED execution /\ Idle

\* Maintenance only if execution_lock_ is free and nothing has changed.
TryMaintain ==
  /\ wpc = "maintainTry" /\ ~stateHeld
  /\ IF execution = None /\ active = wop /\ ~closing
     THEN execution' = Watcher /\ WatchGoto("maintaining") /\ UNCHANGED op
     ELSE /\ SetOp(wop, [op[wop] EXCEPT !.maintained = FALSE])
          /\ WatchGoto("wait")
          /\ UNCHANGED execution
  /\ Idle

\* MaintainTelegramWS withdraws latches only.  MaintainWindowsLocalDpi ends the
\* session under the guard when the catalog has expired or the child cannot be
\* withdrawn.
Maintained ==
  {Outcome(host, TRUE)}
  \cup (IF host.phase = "running" /\ host.dpi THEN ProtectedHandoffCancelled(host) ELSE {})

Maintaining ==
  LET fresh == Refreshed(op[wop], wop)
      polled == IF op[wop].dpi /\ host.dpi
                THEN InterruptIf(fresh, Overdue(fresh, wop), "deadline") ELSE op[wop]
      o == [polled EXCEPT !.maintained = FALSE]
  IN
  /\ wpc = "maintaining" /\ ~stateHeld
  /\ \E outcome \in Maintained :
       LET left == outcome.host IN
       /\ host' = left
       /\ snapshot' = left.phase
       /\ IF active = wop /\ left.phase = "recovery"
          THEN SetOp(wop, [o EXCEPT !.attempted = TRUE])
               /\ UNCHANGED <<active, stopped>> /\ watchBound' = FALSE
          ELSE IF active = wop /\ DpiEnded(wop, left)
          THEN SetOp(wop, o) /\ Retire /\ watchBound' = FALSE
          ELSE SetOp(wop, o) /\ UNCHANGED <<active, stopped, watchBound>>
       /\ wpc' = IF watchBound' THEN "bound" ELSE "egress"
  /\ Release
  /\ UNCHANGED <<stateHeld, closing, egress, handlerVars, wop, worldVars, begun,
                 confirmed, asked>>

\* A bound operation: its owner, its network and its deadline.
WatchBound ==
  LET picks == wpc = "wait"
      t == IF picks THEN active ELSE wop
      o == InterruptIf(Refreshed(op[t], t), Overdue(op[t], t), "deadline")
      next == IF Stopping(o) THEN "cleanLock" ELSE IF o.handoff THEN "egress" ELSE "wait"
  IN
  /\ wpc \in {"wait", "bound"} /\ ~stateHeld
  /\ picks => /\ ~closing /\ active \in Bound /\ ~op[active].attempted
              /\ ~op[active].dpi /\ ~op[active].telegram
  /\ SetOp(t, o)
  /\ wpc' = next
  /\ wop' = IF next = "cleanLock" THEN t ELSE None
  /\ watchBound' = FALSE
  /\ UNCHANGED execution /\ Idle

\* The operation the watcher picked is still there to be cleaned up.
StillOwner(t) == active = t /\ ~op[t].attempted

\* The watcher waits for execution_lock_ and looks again.
CleanLock ==
  /\ wpc = "cleanLock" /\ execution = None /\ ~stateHeld
  /\ IF closing THEN WatchGoto("done") /\ UNCHANGED <<execution, op>>
     ELSE IF ~StillOwner(wop)
     THEN WatchGoto("wait") /\ UNCHANGED <<execution, op>>
     ELSE /\ SetOp(wop, [op[wop] EXCEPT !.attempted = TRUE])
          /\ execution' = Watcher
          /\ WatchGoto("clean")
  /\ Idle

\* Disconnect.  One that fails keeps the owner for an explicit cancel.
Clean ==
  /\ wpc = "clean" /\ ~stateHeld
  /\ \E outcome \in Disconnected(host, TRUE) :
       /\ host' = outcome.host
       /\ snapshot' = outcome.host.phase
       /\ IF outcome.ok THEN Retire ELSE UNCHANGED <<active, stopped>>
  /\ Release /\ WatchGoto("wait")
  /\ UNCHANGED <<stateHeld, op, closing, egress, handlerVars, worldVars, begun,
                 confirmed, asked>>

\* CheckRunningEgress: state_lock_ is held while execution_lock_ is tried.
CheckRunningEgress ==
  /\ wpc = "egress" /\ ~stateHeld
  /\ IF closing THEN WatchGoto("wait") /\ UNCHANGED stateHeld
                ELSE WatchGoto("egressTry") /\ stateHeld' = TRUE
  /\ UNCHANGED <<execution, ownerVars, snapshot, closing, egress, host, handlerVars,
                 worldVars, begun, confirmed, asked>>

\* CanRecheckEgress and the interval, which may or may not have passed.
TryEgress ==
  /\ wpc = "egressTry"
  /\ stateHeld' = FALSE
  /\ \/ WatchGoto("wait") /\ UNCHANGED <<execution, egress>>
     \/ /\ execution = None /\ host.phase = "running" /\ ~host.armed
        /\ host.session \notin Leased
        /\ execution' = Watcher
        /\ egress' = "running"
        /\ WatchGoto("checking")
  /\ UNCHANGED <<ownerVars, snapshot, closing, host, handlerVars, worldVars, begun,
                 confirmed, asked>>

\* RecheckEgress has returned; a cancelled check publishes nothing.
Checked ==
  /\ wpc = "checking" /\ ~stateHeld
  /\ snapshot' = IF egress = "running" /\ ~closing THEN host.phase ELSE snapshot
  /\ egress' = "none"
  /\ Release /\ WatchGoto("wait")
  /\ UNCHANGED <<stateHeld, ownerVars, closing, host, handlerVars, worldVars, begun,
                 confirmed, asked>>

-----------------------------------------------------------------------------
(* The world, and the end of the dispatcher.                               *)

Frame == <<lockVars, ownerVars, snapshot, egress, host, handlerVars, watcherVars,
           begun, confirmed, asked>>

Event == events < MaxEvents /\ events' = events + 1 /\ UNCHANGED <<stopEvent, closing, Frame>>

OwnerDies(t) ==
  /\ Event /\ t \in begun /\ alive[t]
  /\ alive' = [alive EXCEPT ![t] = FALSE]
  /\ UNCHANGED <<late, lapsed, revision>>

DeadlinePasses(t) ==
  /\ Event /\ t \in Bound /\ ~late[t]
  /\ late' = [late EXCEPT ![t] = TRUE]
  /\ UNCHANGED <<alive, lapsed, revision>>

LeaseLapses(t) ==
  /\ Event /\ t \in Leased /\ op[t].promoted /\ ~lapsed[t]
  /\ lapsed' = [lapsed EXCEPT ![t] = TRUE]
  /\ UNCHANGED <<alive, late, revision>>

NetworkChanges ==
  /\ Event
  /\ revision' = revision + 1
  /\ UNCHANGED <<alive, late, lapsed>>

ServiceStops ==
  /\ ~stopEvent /\ events < MaxEvents
  /\ stopEvent' = TRUE /\ events' = events + 1
  /\ UNCHANGED <<alive, late, lapsed, revision, closing, Frame>>

\* ~RuntimeDispatcher, after the session threads have been joined.
Close ==
  /\ stopEvent /\ ~closing /\ ~stateHeld
  /\ \A h \in Handlers : pc[h] = "idle"
  /\ closing' = TRUE
  /\ egress' = IF egress = "running" THEN "cancelled" ELSE egress
  /\ UNCHANGED <<lockVars, ownerVars, snapshot, host, handlerVars, watcherVars,
                 worldVars, begun, confirmed, asked>>

\* The watcher has been joined.
Destroyed == wpc = "done" /\ UNCHANGED vars

Init ==
  /\ execution = None /\ stateHeld = FALSE /\ closing = FALSE /\ stopEvent = FALSE
  /\ active = None /\ stopped = None
  /\ snapshot = "idle" /\ egress = "none"
  /\ op = [t \in Targets |-> NewOperation]
  /\ host \in {[phase |-> "idle", session |-> None, armed |-> armed,
                dpi |-> FALSE, telegram |-> FALSE, dropped |-> FALSE] : armed \in BOOLEAN}
  /\ request = [h \in Handlers |-> NoRequest] /\ pc = [h \in Handlers |-> "idle"]
  /\ result = [h \in Handlers |-> FALSE]
  /\ wpc = "wait" /\ wop = None /\ watchBound = FALSE
  /\ alive = [t \in Targets |-> TRUE] /\ late = [t \in Targets |-> FALSE]
  /\ lapsed = [t \in Targets |-> FALSE] /\ revision = 0 /\ events = 0
  /\ begun = {} /\ confirmed = {} /\ asked = 0

Asks(h) ==
  \/ "status" \in Offered /\ Status(h)
  \/ "cancel" \in Offered /\ \E t \in begun : Cancel(h, t)
  \/ "confirm" \in Offered /\ \E t \in begun : CancelAndConfirm(h, t)
  \/ \E r \in Requests :
       /\ r.command \in Offered \ {"status", "cancel", "confirm"}
       /\ r.command \in BoundCommands => r.target \in begun
       /\ Submit(h, r)

\* A step of a handler that does not wait for execution_lock_.
Handles(h) ==
  \/ ConfirmStop(h) \/ TryLock(h) \/ Contended(h)
  \/ RegisterConnect(h) \/ RunConnect(h) \/ AfterConnect(h) \/ UndoConnect(h)
  \/ RegisterBound(h) \/ RunBound(h) \/ AfterBound(h) \/ UndoBound(h)
  \/ RegisterOther(h) \/ RunOther(h)

Watches ==
  \/ Pick \/ Maintain \/ TryMaintain \/ Maintaining \/ WatchBound \/ Clean
  \/ CheckRunningEgress \/ TryEgress \/ Checked

World ==
  \/ \E t \in Targets : OwnerDies(t) \/ DeadlinePasses(t) \/ LeaseLapses(t)
  \/ NetworkChanges \/ ServiceStops \/ Close

Next ==
  \/ \E h \in Handlers : Asks(h) \/ Handles(h) \/ ConfirmLock(h) \/ Join(h)
  \/ Watches \/ CleanLock
  \/ World
  \/ Destroyed

Spec == Init /\ [][Next]_vars

\* Threads run, calls of the host return, and a thread that waits for
\* execution_lock_ or state_lock_, released again and again, gets it in the end.
Fairness ==
  /\ \A h \in Handlers : SF_vars(Handles(h) \/ ConfirmLock(h) \/ Join(h))
  /\ SF_vars(Watches \/ CleanLock)

-----------------------------------------------------------------------------
(* Properties.                                                             *)

\* What the contract of kCancelConnectAndConfirm says: a client that was told
\* settled=1 for its bound invocation is right, however the cancellation raced
\* its own connect, the watcher and other clients. It is wrong where the guard
\* failed the connect or its undo: RetireConnect records the invocation as ended
\* and its session runs on. An unbound connect with a helper whose client cannot
\* be opened is recorded as stopped too and goes on (RegisterConnect); nothing is
\* said of those.
ConfirmedIsStopped == \A t \in confirmed \cap Bound : host.session # t

\* The session of an invocation that the guard failed, behind the guard that
\* still counts as armed.
LeftGuarded(t) == host.session = t /\ host.dropped /\ host.armed

\* The client is right everywhere but there: a session that runs on after its
\* client was told settled=1 is one the guard failed, and is still behind it.
ConfirmedIsStoppedOrGuarded == \A t \in confirmed \cap Bound : host.session = t => LeftGuarded(t)

\* Between host calls, a bound session that runs is the active operation, so
\* that its owner, network, deadline and lease are watched; but for the session
\* the guard failed, which nobody watches while the guard counts as armed.
BoundSessionIsWatched ==
  execution = None /\ host.phase = "running" /\ host.session \in Bound =>
    active = host.session \/ LeftGuarded(host.session)

\* The cleanup of one invocation, by the watcher or a confirming cancellation,
\* never stops the running session of another.
CleanupHitsItsOwner ==
  /\ wpc = "clean" /\ host.phase = "running" => host.session = wop
  /\ \A h \in Handlers : pc[h] = "confirmStop" /\ host.phase = "running" =>
       host.session = request[h].target

\* A status frame that shows an active transport lease is right: the session of
\* the active operation runs, its lease has not lapsed or been terminated, and
\* it is on the network it was made for.
LeaseShownIsLive ==
  LET o == Projected(Refreshed(op[active], active), active) IN
  execution = None /\ active # None /\ ShownLease(o, active, snapshot) =>
    /\ host.phase = "running" /\ host.session = active
    /\ ~lapsed[active] /\ o.revision = revision

\* Between host calls the snapshot clients read is the host's phase.
SnapshotIsPublished == execution = None => snapshot = host.phase

\* The service runs what it holds an owner for and nothing it has told a client
\* has settled.
SessionIsOwned ==
  TypeOK /\ ConfirmedIsStoppedOrGuarded /\ BoundSessionIsWatched /\ CleanupHitsItsOwner

\* Neither the status frame nor the snapshot behind it promises what the host no
\* longer does.
ShownIsTrue == LeaseShownIsLive /\ SnapshotIsPublished

\* No two threads wait for each other: every request is answered.
RequestsAreAnswered == \A h \in Handlers : pc[h] # "idle" ~> pc[h] = "idle"

\* A bound session whose owner is gone with no lease to cover for it, whose
\* network has changed, or whose deadline or, once promoted, lease has passed, is
\* ended, or has been tried once and is left in recovery.
LostSessionEnds ==
  \A t \in Bound :
    (active = t /\ (Orphaned(op[t], t) \/ op[t].revision # revision \/ Overdue(op[t], t)))
      ~> (active # t \/ op[t].attempted \/ closing)

\* Nobody waits for ever, client or session: see the two above.
DispatchEnds == RequestsAreAnswered /\ LostSessionEnds

=============================================================================

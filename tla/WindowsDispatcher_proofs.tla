---------------------- MODULE WindowsDispatcher_proofs ----------------------
(***************************************************************************)
(* Proofs for WindowsDispatcher, for every set of invocations, handlers,   *)
(* commands, requests and events: what the service runs it holds an owner  *)
(* for, what it called settled never runs, and what it shows is true.      *)
(* Every call of the transition guard may fail. Where it fails a connect   *)
(* or its undo the owner is dropped and the session may run on             *)
(* (host.dropped), but only while the guard counts as armed.               *)
(***************************************************************************)
EXTENDS WindowsDispatcher, TLAPS

\* Stages of a request that needs the runtime.
Waits == {"lock", "contended", "join"}
Calls == {"register", "run", "after", "undo"}

\* The handler h carries the connect of the invocation t.
Connects(h, t) ==
  pc[h] \in Waits \cup Calls /\ request[h] = [command |-> "connect", target |-> t]

\* The connect of t has not reached the runtime.
Pending(h, t) == Connects(h, t) /\ pc[h] \in Waits \cup {"register", "run"}

\* The invocation t is over: it has no owner, no connect left, and no session but
\* one that the guard failed.
Gone(t) ==
  /\ t \in begun /\ active # t /\ (host.session = t => host.dropped)
  /\ \A h \in Handlers : ~Connects(h, t)

\* execution_lock_ is held from the try to the release.
LockIsHeld ==
  /\ \A h \in Handlers : pc[h] \in Calls \cup {"confirmStop"} <=> execution = h
  /\ wpc \in {"maintaining", "clean", "checking"} <=> execution = Watcher

\* A handler works on the request it took.
RequestIsKept ==
  \A h \in Handlers :
    /\ pc[h] \in Waits \cup Calls => request[h] \in Requests /\ request[h].command # "confirm"
    /\ pc[h] \in {"confirmLock", "confirmStop"} =>
         request[h].command = "confirm" /\ request[h].target \in Bound
    /\ pc[h] = "undo" => request[h].command \in BoundCommands \cup {"connect"}

\* The watcher has picked what it works on.
PickIsKept ==
  /\ wpc \in {"maintain", "maintainTry", "maintaining"} => wop \in Targets
  /\ wpc \in {"bound", "cleanLock", "clean"} \/ watchBound => wop \in Bound
  /\ wpc \in {"maintaining", "clean"} => active = wop

\* No invocation connects twice, and none has an owner or a session before.
ConnectsOnce ==
  /\ active \in begun \cup {None} /\ host.session \in begun \cup {None}
  /\ \A h \in Handlers, t \in Targets : Connects(h, t) => t \in begun
  /\ \A g, h \in Handlers, t \in Targets : Connects(g, t) /\ Connects(h, t) => g = h

\* The connect that has the runtime is the active operation, and has no session
\* before its call of the host.
ConnectOwns ==
  \A h \in Handlers, t \in Targets : Connects(h, t) =>
    /\ pc[h] \in {"run", "after", "undo"} => active = t
    /\ pc[h] \notin {"run", "after", "undo"} => active # t
    /\ Pending(h, t) => host.session # t

\* A confirming cancellation that has the runtime holds the owner it asked for.
ConfirmOwns == \A h \in Handlers : pc[h] = "confirmStop" => active = request[h].target

\* Sessions.
IdleHasNoSession ==
  /\ host.phase = "idle" <=> host.session = None
  /\ host.dropped => host.armed /\ host.session # None
SessionHasOwner == host.session \in Bound => active = host.session \/ host.dropped

\* A bound owner's runtime is its own, but for the connect that has not got it.
OwnerHasSession ==
  active \in Bound /\ host.phase = "running" /\ host.session # active =>
    /\ execution \in Handlers /\ request[execution].command = "connect"
    /\ pc[execution] = "run" \/ (pc[execution] = "after" /\ ~result[execution])

\* The connect of a bound owner has succeeded if, and only if, its session runs,
\* or the guard has failed it.
ResultIsSession ==
  \A h \in Handlers :
    request[h].command = "connect" /\ request[h].target \in Bound =>
      /\ pc[h] = "undo" \/ (pc[h] = "after" /\ result[h]) => host.session = request[h].target
      /\ pc[h] = "after" /\ ~result[h] /\ host.phase = "running" =>
           host.session # request[h].target \/ host.dropped

\* What was retired, or called settled, is gone for good.
RetiredIsGone == \A t \in (confirmed \cup {stopped}) \cap Bound : Gone(t)

\* The snapshot is stale only during a call of the host.
SnapshotIsStale ==
  snapshot = host.phase
  \/ (execution \in Handlers /\ pc[execution] \in {"run", "after", "undo"})

\* A leased session is never handed over to a deadline of its own.
LeasedKeepsLease == \A t \in Leased : ~op[t].handoff

RevisionIsCounted == revision <= events

DInv ==
  /\ TypeOK /\ RevisionIsCounted /\ LockIsHeld /\ RequestIsKept /\ PickIsKept
  /\ ConnectsOnce /\ ConnectOwns /\ ConfirmOwns
  /\ IdleHasNoSession /\ SessionHasOwner /\ OwnerHasSession /\ ResultIsSession
  /\ RetiredIsGone /\ SnapshotIsStale /\ LeasedKeepsLease

-----------------------------------------------------------------------------
(* What the operators return.                                              *)

\* q is what looking at the operation o has made of it: what it was admitted
\* with stays, and an interruption stays one.
Continues(o, q) ==
  /\ q \in Operations
  /\ q.handoff = o.handoff /\ q.revision = o.revision
  /\ q.promoted = o.promoted /\ q.terminated = o.terminated
  /\ Stopping(o) => Stopping(q)

\* An interrupted operation continues, and stops.
LEMMA InterruptFacts ==
  ASSUME NEW o \in Operations, NEW cause \in Causes
  PROVE  Continues(o, Interrupt(o, cause)) /\ Stopping(Interrupt(o, cause))
  <1> DEFINE c == IF o.cause = "none" THEN cause ELSE o.cause
             e == o.expired \/ cause = "deadline"
             x == o.cancelled \/ cause # "deadline"
  <1>1. c \in Causes /\ e \in BOOLEAN /\ x \in BOOLEAN
    BY DEF Operations, Causes
  <1>2. Interrupt(o, cause) = [o EXCEPT !.cause = c, !.expired = e, !.cancelled = x]
    BY DEF Interrupt, Operations
  <1>3. e \/ x
    OBVIOUS
  <1> HIDE DEF c, e, x
  <1>4. [o EXCEPT !.cause = c, !.expired = e, !.cancelled = x] \in Operations
    BY <1>1 DEF Operations
  <1>5. /\ [o EXCEPT !.cause = c, !.expired = e, !.cancelled = x].handoff = o.handoff
        /\ [o EXCEPT !.cause = c, !.expired = e, !.cancelled = x].revision = o.revision
        /\ [o EXCEPT !.cause = c, !.expired = e, !.cancelled = x].promoted = o.promoted
        /\ [o EXCEPT !.cause = c, !.expired = e, !.cancelled = x].terminated = o.terminated
        /\ [o EXCEPT !.cause = c, !.expired = e, !.cancelled = x].cancelled = x
        /\ [o EXCEPT !.cause = c, !.expired = e, !.cancelled = x].expired = e
    BY <1>1 DEF Operations
  <1> QED
    BY <1>2, <1>3, <1>4, <1>5 DEF Stopping, Continues

\* An operation interrupted on a condition continues; where it held, it stops.
LEMMA InterruptIfFacts ==
  ASSUME NEW o \in Operations, NEW condition, NEW cause \in Causes
  PROVE  /\ Continues(o, InterruptIf(o, condition, cause))
         /\ condition => Stopping(InterruptIf(o, condition, cause))
  BY InterruptFacts DEF InterruptIf, Continues

LEMMA ContinuesIsTransitive ==
  ASSUME NEW o, NEW p, NEW q, Continues(o, p), Continues(p, q)
  PROVE  Continues(o, q)
  BY DEF Continues

\* RefreshBoundNetwork only cuts and interrupts.
LEMMA RefreshedFacts ==
  ASSUME NEW o \in Operations, NEW t \in Targets
  PROVE  Continues(o, Refreshed(o, t))
  <1> DEFINE x == o.telegramCut \/ (o.telegram /\ (~alive[t] \/ o.revision # revision))
             y == o.dpiCut \/ (o.dpi /\ ~o.cancelled /\ ~alive[t])
             cut == [o EXCEPT !.telegramCut = x, !.dpiCut = y]
  <1>1. x \in BOOLEAN /\ y \in BOOLEAN
    BY DEF Operations
  <1>2. /\ cut = [o EXCEPT !.telegramCut = @ \/ (o.telegram /\ (~alive[t] \/ o.revision # revision)),
                           !.dpiCut = @ \/ (o.dpi /\ ~o.cancelled /\ ~alive[t])]
    BY DEF Operations
  <1>3. Continues(o, cut)
    <2> HIDE DEF x, y
    <2>1. cut \in Operations
      BY <1>1 DEF Operations
    <2>2. /\ cut.handoff = o.handoff /\ cut.revision = o.revision /\ cut.promoted = o.promoted
          /\ cut.terminated = o.terminated
          /\ cut.cancelled = o.cancelled /\ cut.expired = o.expired
      BY DEF Operations
    <2> QED
      BY <2>1, <2>2 DEF Continues, Stopping
  <1>4. Refreshed(o, t) \in {cut, Interrupt(cut, "owner"),
                             InterruptIf(cut, o.revision # revision, "network")}
    BY <1>2 DEF Refreshed
  <1> HIDE DEF cut
  <1>5. cut \in Operations
    BY <1>3 DEF Continues
  <1>6. /\ Continues(cut, Interrupt(cut, "owner"))
        /\ Continues(cut, InterruptIf(cut, o.revision # revision, "network"))
    BY <1>5, InterruptFacts, InterruptIfFacts DEF Causes
  <1> QED
    BY <1>3, <1>4, <1>6, ContinuesIsTransitive

\* ProjectBoundState only interrupts, and an operation of a bound session that it
\* leaves undisturbed is on its network and within its deadline or lease.
LEMMA ProjectedFacts ==
  ASSUME NEW o \in Operations, NEW t \in Targets
  PROVE  /\ Continues(o, Projected(o, t))
         /\ t \in Bound /\ ~Stopping(Projected(o, t)) => o.revision = revision /\ ~Overdue(o, t)
  <1> DEFINE owner == InterruptIf(o, Orphaned(o, t), "owner")
             network == InterruptIf(owner, o.revision # revision, "network")
             last == InterruptIf(network, Overdue(o, t), "deadline")
  <1>1. Continues(o, owner) /\ owner \in Operations
    BY InterruptIfFacts DEF Causes, Continues
  <1> HIDE DEF owner
  <1>2. /\ Continues(owner, network) /\ network \in Operations
        /\ o.revision # revision => Stopping(network)
    BY <1>1, InterruptIfFacts DEF Causes, Continues
  <1> HIDE DEF network
  <1>3. /\ Continues(network, last)
        /\ Overdue(o, t) => Stopping(last)
    BY <1>2, InterruptIfFacts DEF Causes, Continues
  <1>4. Continues(o, last)
    BY <1>1, <1>2, <1>3, ContinuesIsTransitive
  <1>5. o.revision # revision => Stopping(last)
    BY <1>2, <1>3 DEF Continues
  <1>6. Projected(o, t) = IF t \notin Bound THEN o ELSE last
    BY DEF Projected, last, network, owner
  <1> HIDE DEF last
  <1>7. Continues(o, o)
    BY DEF Continues
  <1> QED
    BY <1>3, <1>4, <1>5, <1>6, <1>7

\* The interruption check of a connect, and the look at its end, only interrupt.
LEMMA PolledFacts ==
  ASSUME NEW o \in Operations, NEW t \in Targets
  PROVE  Continues(o, Polled(o, t)) /\ Continues(o, Settled(o, t))
  <1>1. Continues(o, Polled(o, t))
    <2> DEFINE stop == InterruptIf(o, o.cause = "none" /\ stopEvent, "cancelled")
               owner == InterruptIf(stop, (t \in Bound \/ o.dpi) /\ ~alive[t], "owner")
               network == InterruptIf(owner, Captured(o, t) /\ o.revision # revision, "network")
               last == InterruptIf(network, network.cause = "none", "deadline")
    <2>1. Continues(o, stop) /\ stop \in Operations
      BY InterruptIfFacts DEF Causes, Continues
    <2> HIDE DEF stop
    <2>2. Continues(stop, owner) /\ owner \in Operations
      BY <2>1, InterruptIfFacts DEF Causes, Continues
    <2> HIDE DEF owner
    <2>3. Continues(owner, network) /\ network \in Operations
      BY <2>2, InterruptIfFacts DEF Causes, Continues
    <2> HIDE DEF network
    <2>4. Continues(network, last)
      BY <2>3, InterruptIfFacts DEF Causes, Continues
    <2>5. Polled(o, t) = last
      BY DEF Polled, last, network, owner, stop
    <2> QED
      BY <2>1, <2>2, <2>3, <2>4, <2>5, ContinuesIsTransitive
  <1>2. Continues(o, Settled(o, t))
    <2> DEFINE fresh == Refreshed(o, t)
               network == InterruptIf(fresh, Captured(o, t) /\ o.revision # revision, "network")
               last == InterruptIf(network, t \in Bound /\ late[t], "deadline")
    <2>1. Continues(o, fresh) /\ fresh \in Operations
      BY RefreshedFacts DEF Continues
    <2> HIDE DEF fresh
    <2>2. Continues(fresh, network) /\ network \in Operations
      BY <2>1, InterruptIfFacts DEF Causes, Continues
    <2> HIDE DEF network
    <2>3. Continues(network, last)
      BY <2>2, InterruptIfFacts DEF Causes, Continues
    <2>4. Settled(o, t) = last
      BY DEF Settled, last, network, fresh
    <2> QED
      BY <2>1, <2>2, <2>3, <2>4, ContinuesIsTransitive
  <1> QED
    BY <1>1, <1>2

\* A host has a session unless it is idle; one whose owner was dropped is there,
\* and the guard counts as armed.
Sound(h) ==
  /\ h \in Hosts /\ (h.phase = "idle" <=> h.session = None)
  /\ h.dropped => h.armed /\ h.session # None

\* The session of h is over, or what is left of it needs a recovery.
Undone(h, left) ==
  \/ left.phase = "idle" /\ left.session = None
  \/ /\ left.phase = "recovery" /\ left.session = h.session /\ h.phase # "idle"
     /\ h.dropped => left.dropped

SameSession(h, left) ==
  left.phase = h.phase /\ left.session = h.session /\ (h.dropped => left.dropped)

\* What an outcome says of the guard: where its call failed, it counts as armed.
Told(x) == x.ok \in BOOLEAN /\ x.guard \in BOOLEAN /\ (~x.guard => ~x.ok /\ x.host.armed)

\* A guard that fails is counted as armed, and nothing else changes.
LEMMA GuardFailedFacts ==
  ASSUME NEW h, Sound(h)
  PROVE  /\ Sound(GuardFailed(h).host) /\ SameSession(h, GuardFailed(h).host)
         /\ Told(GuardFailed(h)) /\ ~GuardFailed(h).guard
         /\ GuardFailed(h).host.dropped = h.dropped
  <1> DEFINE left == [h EXCEPT !.armed = TRUE]
  <1>1. /\ left \in Hosts /\ left.phase = h.phase /\ left.session = h.session
        /\ left.armed /\ left.dropped = h.dropped
    BY DEF Sound, Hosts
  <1>2. /\ GuardFailed(h).host = left /\ GuardFailed(h).ok = FALSE
        /\ GuardFailed(h).guard = FALSE
    BY DEF GuardFailed
  <1> HIDE DEF left
  <1> QED
    BY <1>1, <1>2 DEF Sound, SameSession, Told

\* Disconnect ends the session, or fails and leaves it to a recovery.
LEMMA DisconnectedFacts ==
  ASSUME NEW h, Sound(h), NEW explicit \in BOOLEAN, NEW x \in Disconnected(h, explicit)
  PROVE  /\ Sound(x.host) /\ Undone(h, x.host) /\ Told(x)
         /\ x.ok => x.host.phase = "idle"
  <1> DEFINE armed == h.armed /\ ~explicit
             rest == IF h.phase = "idle" THEN h ELSE HostIdle(h, h.armed)
  <1>1. \/ x = Outcome([rest EXCEPT !.armed = armed], TRUE)
        \/ x = GuardFailed(rest)
        \/ h.phase # "idle" /\ x = Outcome([h EXCEPT !.phase = "recovery"], FALSE)
    BY DEF Disconnected
  <1>2. armed \in BOOLEAN
    OBVIOUS
  <1>3. rest \in Hosts /\ rest.phase = "idle" /\ rest.session = None /\ ~rest.dropped
    <2>1. CASE h.phase = "idle"
      BY <2>1 DEF Sound
    <2>2. CASE h.phase # "idle"
      BY <2>2 DEF HostIdle, Sound, Hosts, Phases
    <2> QED
      BY <2>1, <2>2
  <1> HIDE DEF armed, rest
  <1>4. CASE x = Outcome([rest EXCEPT !.armed = armed], TRUE)
    BY <1>2, <1>3, <1>4 DEF Outcome, Sound, Hosts, Undone, Told
  <1>5. CASE x = GuardFailed(rest)
    <2>1. Sound(rest)
      BY <1>3 DEF Sound
    <2> QED
      BY <1>3, <1>5, <2>1, GuardFailedFacts DEF Undone, SameSession, Told
  <1>6. CASE h.phase # "idle" /\ x = Outcome([h EXCEPT !.phase = "recovery"], FALSE)
    BY <1>6 DEF Outcome, Sound, Hosts, Undone, Phases, Told
  <1> QED
    BY <1>1, <1>4, <1>5, <1>6

\* So does CancelProtectedHandoff, unless the guard fails.
LEMMA ProtectedFacts ==
  ASSUME NEW h, Sound(h), NEW x \in ProtectedHandoffCancelled(h)
  PROVE  /\ Sound(x.host) /\ Told(x)
         /\ Undone(h, x.host) \/ (SameSession(h, x.host) /\ ~x.guard)
         /\ x.ok => x.host.phase = "idle"
  <1> DEFINE guarded == [h EXCEPT !.armed = TRUE]
  <1>1. /\ Sound(guarded) /\ guarded.phase = h.phase /\ guarded.session = h.session
        /\ guarded.dropped = h.dropped
    BY DEF Sound, Hosts
  <1>2. x \in Disconnected(guarded, FALSE) \/ x = GuardFailed(h)
    BY DEF ProtectedHandoffCancelled
  <1> HIDE DEF guarded
  <1>3. CASE x \in Disconnected(guarded, FALSE)
    BY <1>1, <1>3, DisconnectedFacts DEF Undone
  <1>4. CASE x = GuardFailed(h)
    BY <1>4, GuardFailedFacts DEF Told
  <1> QED
    BY <1>2, <1>3, <1>4

\* A failed connect leaves no session but its own.
LEMMA ConnectFailedFacts ==
  ASSUME NEW h, Sound(h), NEW t \in Targets, NEW dpi \in BOOLEAN, NEW telegram \in BOOLEAN,
         NEW armed \in BOOLEAN, None \notin Targets,
         NEW x \in ConnectFailed(h, t, dpi, telegram, armed)
  PROVE  /\ Sound(x.host) /\ Told(x) /\ ~x.ok /\ x.host.phase # "running"
         /\ x.host.session \in {None, t}
  <1> DEFINE idle == HostIdle(h, armed)
  <1>1. idle \in Hosts /\ idle.phase = "idle" /\ idle.session = None /\ ~idle.dropped
    BY DEF HostIdle, Sound, Hosts, Phases
  <1>2. \/ x = Outcome(idle, FALSE)
        \/ x = Outcome([idle EXCEPT !.dpi = dpi, !.telegram = telegram], FALSE)
        \/ x = Outcome([idle EXCEPT !.phase = "recovery", !.session = t], FALSE)
    BY DEF ConnectFailed
  <1> HIDE DEF idle
  <1>3. CASE x = Outcome(idle, FALSE)
    BY <1>1, <1>3 DEF Outcome, Sound, Told
  <1>4. CASE x = Outcome([idle EXCEPT !.dpi = dpi, !.telegram = telegram], FALSE)
    BY <1>1, <1>4 DEF Outcome, Sound, Hosts, Told
  <1>5. CASE x = Outcome([idle EXCEPT !.phase = "recovery", !.session = t], FALSE)
    BY <1>1, <1>5 DEF Outcome, Sound, Hosts, Phases, Told
  <1> QED
    BY <1>2, <1>3, <1>4, <1>5

\* A connect leaves the session it found, none, or its own; that of a bound
\* invocation succeeds only with its own, and where it fails with one that runs,
\* it is the one it found or the guard failed.
LEMMA ConnectedFacts ==
  ASSUME NEW h, Sound(h), NEW t \in Targets, NEW o \in Operations,
         None \notin Targets, h.session # t, NEW x \in Connected(h, t, o)
  PROVE  /\ Sound(x.host) /\ Told(x)
         /\ x.host.session \in {h.session, None, t}
         /\ x.host.session = h.session => (h.dropped => x.host.dropped)
         /\ t \in Bound /\ x.ok => x.host.session = t
         /\ ~x.ok /\ x.host.phase = "running" => x.host.session = h.session \/ ~x.guard
  <1> DEFINE Fresh(dpi) ==
               LET armed == h.armed \/ dpi
                   started == Started(h, t, dpi, o.telegram, armed)
               IN  ConnectFailed(h, t, dpi, o.telegram, armed)
                   \cup {Outcome([started EXCEPT !.armed = armed /\ t \in Leased], TRUE)}
                   \cup (IF armed /\ t \notin Leased THEN {GuardFailed(started)} ELSE {})
  <1>1. \/ x = Outcome(h, FALSE)
        \/ t \notin Bound /\ x = Outcome(h, TRUE)
        \/ h.phase = "idle" /\ \E dpi \in {FALSE, o.dpi} : x \in Fresh(dpi)
    BY DEF Connected, Sound, Hosts, Phases
  <1>2. CASE x = Outcome(h, FALSE)
    BY <1>2 DEF Outcome, Told
  <1>3. CASE t \notin Bound /\ x = Outcome(h, TRUE)
    BY <1>3 DEF Outcome, Told
  <1>4. ASSUME h.phase = "idle", NEW dpi \in {FALSE, o.dpi}, x \in Fresh(dpi)
        PROVE  /\ Sound(x.host) /\ Told(x) /\ x.host.session \in {None, t}
               /\ x.ok => x.host.session = t
               /\ ~x.ok /\ x.host.phase = "running" => ~x.guard
    <2> DEFINE armed == h.armed \/ dpi
               started == Started(h, t, dpi, o.telegram, armed)
               a == armed /\ t \in Leased
    <2>1. dpi \in BOOLEAN /\ o.telegram \in BOOLEAN /\ armed \in BOOLEAN /\ a \in BOOLEAN
      BY <1>4 DEF Operations, Sound, Hosts
    <2>2. \/ x \in ConnectFailed(h, t, dpi, o.telegram, armed)
          \/ x = Outcome([started EXCEPT !.armed = a], TRUE)
          \/ x = GuardFailed(started)
      BY <1>4
    <2> HIDE DEF armed, a
    <2>3. /\ started \in Hosts /\ started.phase = "running" /\ started.session = t
          /\ ~started.dropped
      BY <1>4, <2>1 DEF Started, Sound, Hosts, Phases
    <2> HIDE DEF started
    <2>4. CASE x \in ConnectFailed(h, t, dpi, o.telegram, armed)
      BY <2>1, <2>4, ConnectFailedFacts
    <2>5. CASE x = Outcome([started EXCEPT !.armed = a], TRUE)
      BY <2>1, <2>3, <2>5 DEF Outcome, Sound, Hosts, Told
    <2>6. CASE x = GuardFailed(started)
      <3>1. Sound(started)
        BY <2>3 DEF Sound
      <3> QED
        BY <2>3, <2>6, <3>1, GuardFailedFacts DEF SameSession, Told
    <2> QED
      BY <2>2, <2>4, <2>5, <2>6
  <1>5. CASE h.phase = "idle" /\ \E dpi \in {FALSE, o.dpi} : x \in Fresh(dpi)
    <2>1. h.session = None /\ ~h.dropped
      BY <1>5 DEF Sound
    <2> HIDE DEF Fresh
    <2> QED
      BY <1>4, <1>5, <2>1
  <1> QED
    BY <1>1, <1>2, <1>3, <1>5

\* A replacement leaves the session it found, none, or its own.
LEMMA ReplacedFacts ==
  ASSUME NEW h, Sound(h), NEW t \in Targets, NEW o \in Operations,
         None \notin Targets, h.session # t, NEW x \in Replaced(h, t, o)
  PROVE  /\ Sound(x.host) /\ Told(x) /\ x.host.session \in {h.session, None, t}
         /\ x.host.session = h.session => (h.dropped => x.host.dropped)
  <1> DEFINE guarded == [h EXCEPT !.armed = TRUE]
             down == Disconnected(guarded, FALSE)
  <1>1. /\ Sound(guarded) /\ guarded.session = h.session /\ guarded.phase = h.phase
        /\ guarded.dropped = h.dropped
    BY DEF Sound, Hosts
  <1>2. \/ x = Outcome(h, FALSE)
        \/ x = GuardFailed(h)
        \/ x \in down
        \/ \E d \in down : d.ok /\ x \in Connected(d.host, t, o)
    BY DEF Replaced
  <1>3. \A d \in down : /\ Sound(d.host) /\ Told(d) /\ d.host.session \in {h.session, None}
                        /\ d.ok => d.host.session = None
                        /\ d.host.session = h.session => (h.dropped => d.host.dropped)
    BY <1>1, DisconnectedFacts DEF Undone, Sound
  <1> HIDE DEF guarded, down
  <1>4. CASE x = Outcome(h, FALSE)
    BY <1>4 DEF Outcome, Told
  <1>5. CASE x = GuardFailed(h)
    BY <1>5, GuardFailedFacts DEF SameSession
  <1>6. CASE \E d \in down : d.ok /\ x \in Connected(d.host, t, o)
    <2>1. PICK d \in down : d.ok /\ x \in Connected(d.host, t, o)
      BY <1>6
    <2>2. Sound(d.host) /\ d.host.session = None
      BY <1>3, <2>1
    <2>3. Sound(x.host) /\ Told(x) /\ x.host.session \in {None, t}
      BY <2>1, <2>2, ConnectedFacts
    <2> QED
      BY <2>3 DEF Sound
  <1> QED
    BY <1>2, <1>3, <1>4, <1>5, <1>6

\* A session that runs after the guard failed its connect or its undo is dropped.
LEMMA LeftFacts ==
  ASSUME NEW x, Sound(x.host), Told(x)
  PROVE  /\ Sound(Left(x)) /\ SameSession(x.host, Left(x))
         /\ ~x.guard /\ x.host.phase = "running" => Left(x).dropped
  <1> DEFINE d == x.host.dropped \/ (~x.guard /\ x.host.phase = "running")
  <1>1. d \in BOOLEAN
    BY DEF Sound, Hosts
  <1>2. Left(x) = [x.host EXCEPT !.dropped = d]
    BY DEF Left, Sound, Hosts
  <1>3. d => x.host.armed /\ x.host.session # None
    BY DEF Sound, Told, Hosts
  <1>4. x.host.dropped => d
    OBVIOUS
  <1>5. ~x.guard /\ x.host.phase = "running" => d
    OBVIOUS
  <1> HIDE DEF d
  <1>6. /\ [x.host EXCEPT !.dropped = d] \in Hosts
        /\ [x.host EXCEPT !.dropped = d].phase = x.host.phase
        /\ [x.host EXCEPT !.dropped = d].session = x.host.session
        /\ [x.host EXCEPT !.dropped = d].armed = x.host.armed
        /\ [x.host EXCEPT !.dropped = d].dropped = d
    BY <1>1 DEF Sound, Hosts
  <1> QED
    BY <1>2, <1>3, <1>4, <1>5, <1>6 DEF Sound, SameSession

\* The other calls of the host leave the session as it is or end it.
LEMMA OtherFacts ==
  ASSUME Sound(host)
  PROVE  /\ \A x \in Maintained : /\ Sound(x.host)
                                  /\ SameSession(host, x.host) \/ Undone(host, x.host)
         /\ \A command, x : x \in OtherOutcomes(command) =>
              /\ Sound(x.host)
              /\ SameSession(host, x.host) \/ Undone(host, x.host)
              /\ command = "disconnect" /\ x.ok => x.host.phase = "idle"
  <1>1. ASSUME NEW x \in Maintained
        PROVE  Sound(x.host) /\ (SameSession(host, x.host) \/ Undone(host, x.host))
    <2>1. x = Outcome(host, TRUE) \/ x \in ProtectedHandoffCancelled(host)
      BY DEF Maintained
    <2> QED
      BY <2>1, ProtectedFacts DEF Outcome, SameSession
  <1>2. ASSUME NEW command, NEW x \in OtherOutcomes(command)
        PROVE  /\ Sound(x.host)
               /\ SameSession(host, x.host) \/ Undone(host, x.host)
               /\ command = "disconnect" /\ x.ok => x.host.phase = "idle"
    <2>1. CASE command = "disconnect"
      BY <2>1, DisconnectedFacts DEF OtherOutcomes
    <2>2. CASE command # "disconnect"
      <3>1. \/ x \in ProtectedHandoffCancelled(host)
            \/ x = Outcome([host EXCEPT !.dpi = FALSE, !.telegram = FALSE], TRUE)
            \/ x = Outcome(host, FALSE)
        BY <2>2 DEF OtherOutcomes
      <3>2. CASE x \in ProtectedHandoffCancelled(host)
        BY <2>2, <3>2, ProtectedFacts
      <3>3. CASE x = Outcome([host EXCEPT !.dpi = FALSE, !.telegram = FALSE], TRUE)
        <4> DEFINE left == [host EXCEPT !.dpi = FALSE, !.telegram = FALSE]
        <4>1. /\ left \in Hosts /\ left.phase = host.phase /\ left.session = host.session
              /\ left.armed = host.armed /\ left.dropped = host.dropped
          BY DEF Sound, Hosts
        <4>2. x.host = left
          BY <3>3 DEF Outcome
        <4> HIDE DEF left
        <4> QED
          BY <2>2, <4>1, <4>2 DEF Sound, SameSession
      <3>4. CASE x = Outcome(host, FALSE)
        BY <2>2, <3>4 DEF Outcome, SameSession
      <3> QED
        BY <3>1, <3>2, <3>3, <3>4
    <2> QED
      BY <2>1, <2>2
  <1> QED
    BY <1>1, <1>2

-----------------------------------------------------------------------------
(* The kinds of steps, as far as the locks, the owner, the session and the *)
(* threads are concerned.                                                  *)

Holding == {"maintaining", "clean", "checking"}

\* Nothing of it changes.
Stays ==
  UNCHANGED <<execution, active, stopped, snapshot, host, handlerVars, watcherVars, begun, confirmed>>

\* A client is told that the invocation stopped last has settled.
Learns ==
  /\ stopped # None /\ confirmed' = confirmed \cup {stopped}
  /\ UNCHANGED <<execution, active, stopped, snapshot, host, handlerVars, watcherVars, begun>>

\* A bound connect is over before it begins.
Expires(t) ==
  /\ t \in Bound \ begun /\ begun' = begun \cup {t} /\ stopped' = t
  /\ UNCHANGED <<execution, active, snapshot, host, handlerVars, watcherVars, confirmed>>

\* A request that needs the runtime, or its end, is under way.
Submits(h, r) ==
  /\ pc[h] = "idle" /\ r \in Requests /\ r.command # "confirm"
  /\ r.command = "connect" => r.target \in Targets \ begun
  /\ begun' = IF r.command = "connect" THEN begun \cup {r.target} ELSE begun
  /\ request' = [request EXCEPT ![h] = r] /\ pc' = [pc EXCEPT ![h] = "lock"]
  /\ UNCHANGED <<execution, active, stopped, snapshot, host, result, watcherVars, confirmed>>

AsksForEnd(h, t) ==
  /\ pc[h] = "idle" /\ t \in Bound
  /\ request' = [request EXCEPT ![h] = [command |-> "confirm", target |-> t]]
  /\ pc' = [pc EXCEPT ![h] = "confirmLock"]
  /\ UNCHANGED <<execution, active, stopped, snapshot, host, result, watcherVars, begun, confirmed>>

\* The thread gets the lock, or goes on waiting for it.
Takes(h) ==
  /\ execution = None /\ execution' = h
  /\ \/ pc[h] \in {"lock", "join"} /\ Goto(h, "register")
     \/ pc[h] = "confirmLock" /\ active = request[h].target /\ Goto(h, "confirmStop")
  /\ UNCHANGED <<active, stopped, snapshot, host, watcherVars, begun, confirmed>>

WaitsOn(h) ==
  /\ pc[h] \in {"lock", "contended"} /\ (Goto(h, "contended") \/ Goto(h, "join"))
  /\ UNCHANGED <<execution, active, stopped, snapshot, host, watcherVars, begun, confirmed>>

\* A thread that has not got the lock answers.
TurnedAway(h) ==
  /\ pc[h] = "contended"
  /\ stopped' = stopped \/ (request[h].command = "connect" /\ stopped' = request[h].target)
  /\ Answer(h)
  /\ UNCHANGED <<execution, active, snapshot, host, watcherVars, begun, confirmed>>

Overtaken(h) ==
  /\ pc[h] = "confirmLock" /\ Answer(h)
  /\ confirmed' = confirmed \/ (stopped # None /\ confirmed' = confirmed \cup {stopped})
  /\ UNCHANGED <<execution, active, stopped, snapshot, host, watcherVars, begun>>

\* A request that has the lock is refused, becomes the owner, or goes on.
Refused(h) ==
  /\ pc[h] = "register" /\ execution' = None /\ Answer(h)
  /\ stopped' = stopped \/ (request[h].command = "connect" /\ stopped' = request[h].target)
  /\ UNCHANGED <<active, snapshot, host, watcherVars, begun, confirmed>>

Owns(h) ==
  /\ pc[h] = "register" /\ request[h].command = "connect" /\ active \notin Bound
  /\ active' = request[h].target /\ snapshot' = "busy" /\ Goto(h, "run")
  /\ stopped' = stopped \/ (stopped' = request[h].target /\ request[h].target \notin Bound)
  /\ UNCHANGED <<execution, host, watcherVars, begun, confirmed>>

GoesOn(h) ==
  /\ pc[h] = "register" /\ request[h].command # "connect" /\ Goto(h, "run")
  /\ snapshot' \in {snapshot, host.phase, "busy"}
  /\ UNCHANGED <<execution, active, stopped, host, watcherVars, begun, confirmed>>

\* The host has been called; what it did is undone if it does not count.
Starts(h) ==
  /\ pc[h] = "run" /\ request[h].command = "connect"
  /\ pc' = [pc EXCEPT ![h] = "after"]
  /\ \E ok \in BOOLEAN :
       /\ result' = [result EXCEPT ![h] = ok]
       /\ request[h].target \in Bound =>
            IF ok THEN host'.session = request[h].target
                  ELSE host'.phase = "running" => host'.session = host.session \/ host'.dropped
  /\ Sound(host') /\ host'.session \in {host.session, None, request[h].target}
  /\ host'.session = host.session => (host.dropped => host'.dropped)
  /\ UNCHANGED <<execution, active, stopped, snapshot, request, watcherVars, begun, confirmed>>

Tells(h) ==
  /\ pc[h] = "run" /\ request[h].command \in BoundCommands
  /\ pc' = [pc EXCEPT ![h] = "after"]
  /\ \E ok \in BOOLEAN : result' = [result EXCEPT ![h] = ok]
  /\ UNCHANGED <<execution, active, stopped, snapshot, host, request, watcherVars, begun, confirmed>>

Undoes(h) ==
  /\ pc[h] = "after" /\ request[h].command \in BoundCommands \cup {"connect"}
  /\ request[h].command = "connect" => result[h]
  /\ Goto(h, "undo")
  /\ UNCHANGED <<execution, active, stopped, snapshot, host, watcherVars, begun, confirmed>>

\* The runtime is given back.  An owner that stays has its session, if one runs;
\* one that is retired leaves no bound session behind, but one that is dropped.
GivesBack ==
  /\ execution' = None /\ snapshot' = host'.phase
  /\ Sound(host') /\ (SameSession(host, host') \/ Undone(host, host'))
  /\ \/ /\ UNCHANGED <<active, stopped, confirmed>>
        /\ active \in Bound /\ host'.phase = "running" => host'.session = active
     \/ /\ Retire /\ (host'.session \in Bound => host'.dropped)
        /\ confirmed' = confirmed \/ (active \in Bound /\ confirmed' = confirmed \cup {active})
  /\ UNCHANGED begun

Finishes(h) ==
  /\ pc[h] \in {"run", "after", "undo", "confirmStop"}
  /\ GivesBack /\ Answer(h) /\ UNCHANGED watcherVars

\* The watcher.
Watched ==
  /\ wop' \in Targets \cup {None} /\ watchBound' \in BOOLEAN
  /\ wpc' \in {"maintain", "maintainTry", "maintaining"} => wop' \in Targets
  /\ wpc' \in {"bound", "cleanLock", "clean"} \/ watchBound' => wop' \in Bound

WatcherMoves ==
  /\ wpc \notin Holding
  /\ wpc' \in {"wait", "maintain", "maintainTry", "bound", "cleanLock", "egress", "egressTry", "done"}
  /\ Watched
  /\ UNCHANGED <<execution, active, stopped, snapshot, host, handlerVars, begun, confirmed>>

WatcherTakes ==
  /\ execution = None /\ execution' = Watcher /\ wpc' \in Holding
  /\ wpc' \in {"maintaining", "clean"} => active = wop'
  /\ Watched
  /\ UNCHANGED <<active, stopped, snapshot, host, handlerVars, begun, confirmed>>

WatcherFinishes ==
  /\ wpc \in Holding /\ wpc' \in {"wait", "bound", "egress"} /\ Watched
  /\ GivesBack /\ UNCHANGED handlerVars

HandlerStep(h) ==
  \/ \E r \in Requests : Submits(h, r)
  \/ \E t \in Bound : AsksForEnd(h, t)
  \/ Takes(h) \/ WaitsOn(h) \/ TurnedAway(h) \/ Overtaken(h)
  \/ Refused(h) \/ Owns(h) \/ GoesOn(h) \/ Starts(h) \/ Tells(h) \/ Undoes(h) \/ Finishes(h)

Step ==
  \/ Stays \/ Learns \/ (\E t \in Bound : Expires(t))
  \/ (\E h \in Handlers : HandlerStep(h))
  \/ WatcherMoves \/ WatcherTakes \/ WatcherFinishes

Assumptions == TargetsAssumption /\ BoundsAssumption

-----------------------------------------------------------------------------
(* Every step is of one of these kinds.                                    *)

LEMMA AskingSteps ==
  ASSUME Assumptions, DInv, NEW h \in Handlers, Asks(h)
  PROVE  Stays \/ Learns \/ (\E t \in Bound : Expires(t)) \/ HandlerStep(h)
  <1> USE DEF Assumptions, TargetsAssumption, Arrives, handlerVars, watcherVars, lockVars
  <1>1. CASE Status(h)
    BY <1>1 DEF Status, Stays
  <1>2. ASSUME NEW t \in begun, Cancel(h, t)
        PROVE  Stays
    BY <1>2 DEF Cancel, Stays
  <1>3. ASSUME NEW t \in begun, CancelAndConfirm(h, t)
        PROVE  Stays \/ Learns \/ HandlerStep(h)
    <2>1. t \in Targets /\ None \notin Targets
      BY DEF DInv, TypeOK
    <2>2. CASE stopped = t /\ confirmed' = confirmed \cup {t} /\ UNCHANGED <<op, handlerVars>>
      BY <1>3, <2>1, <2>2 DEF CancelAndConfirm, Learns
    <2>3. CASE UNCHANGED <<op, handlerVars, confirmed>>
      BY <1>3, <2>3 DEF CancelAndConfirm, Stays
    <2>4. CASE /\ t \in Bound
               /\ request' = [request EXCEPT ![h] = [command |-> "confirm", target |-> t]]
               /\ pc' = [pc EXCEPT ![h] = "confirmLock"]
               /\ UNCHANGED <<result, confirmed>>
      <3>1. AsksForEnd(h, t)
        BY <1>3, <2>4 DEF CancelAndConfirm, AsksForEnd
      <3> QED
        BY <2>4, <3>1 DEF HandlerStep
    <2> QED
      BY <1>3, <2>2, <2>3, <2>4 DEF CancelAndConfirm
  <1>4. ASSUME NEW r \in Requests, r.command \notin {"status", "cancel", "confirm"}, Submit(h, r)
        PROVE  (\E t \in Bound : Expires(t)) \/ HandlerStep(h)
    <2>1. r.command = "connect" => r.target \in Targets
      BY DEF Requests, TargetCommands, Commands
    <2>2. CASE r.command = "connect" /\ r.target \in Bound /\ late[r.target]
      <3>1. Expires(r.target)
        BY <1>4, <2>2 DEF Submit, Expires
      <3> QED
        BY <2>2, <3>1
    <2>3. CASE ~(r.command = "connect" /\ r.target \in Bound /\ late[r.target])
      <3>1. Submits(h, r)
        BY <1>4, <2>1, <2>3 DEF Submit, Submits
      <3> QED
        BY <3>1 DEF HandlerStep
    <2> QED
      BY <2>2, <2>3
  <1> QED
    BY <1>1, <1>2, <1>3, <1>4 DEF Asks

LEMMA WaitingSteps ==
  ASSUME Assumptions, DInv, NEW h \in Handlers,
         TryLock(h) \/ Contended(h) \/ Join(h) \/ ConfirmLock(h)
  PROVE  HandlerStep(h)
  <1> USE DEF handlerVars, watcherVars, lockVars, ownerVars
  <1>1. CASE TryLock(h)
    <2>1. Takes(h) \/ WaitsOn(h)
      BY <1>1 DEF TryLock, Takes, WaitsOn
    <2> QED
      BY <2>1 DEF HandlerStep
  <1>2. CASE Contended(h)
    <2>1. WaitsOn(h) \/ TurnedAway(h)
      BY <1>2 DEF Contended, WaitsOn, TurnedAway
    <2> QED
      BY <2>1 DEF HandlerStep
  <1>3. CASE Join(h)
    <2>1. Takes(h)
      BY <1>3 DEF Join, Takes
    <2> QED
      BY <2>1 DEF HandlerStep
  <1>4. CASE ConfirmLock(h)
    <2>1. request[h].target \in Bound /\ None \notin Bound
      BY <1>4 DEF ConfirmLock, DInv, RequestIsKept, Assumptions, TargetsAssumption
    <2>2. Takes(h) \/ Overtaken(h)
      BY <1>4, <2>1 DEF ConfirmLock, Takes, Overtaken
    <2> QED
      BY <2>2 DEF HandlerStep
  <1> QED
    BY <1>1, <1>2, <1>3, <1>4

LEMMA RegisteringSteps ==
  ASSUME Assumptions, DInv, NEW h \in Handlers,
         RegisterConnect(h) \/ RegisterBound(h) \/ RegisterOther(h)
  PROVE  HandlerStep(h)
  <1> USE DEF handlerVars, watcherVars, lockVars, ownerVars
  <1>1. CASE RegisterConnect(h)
    <2> DEFINE t == request[h].target
    <2>1. CASE Refuse(h) /\ (stopped' = t \/ stopped' = stopped)
      <3>1. Refused(h)
        BY <1>1, <2>1 DEF RegisterConnect, Refuse, Refused, Release
      <3> QED
        BY <3>1 DEF HandlerStep
    <2>2. CASE /\ active \notin Bound /\ (t \in Bound => alive[t])
               /\ \E seen \in {FALSE, (t \in Dpi \cup Telegram)} :
                    stopped' = IF seen /\ (t \in Dpi \cup Telegram) /\ ~alive[t] THEN t ELSE stopped
               /\ active' = t /\ snapshot' = "busy" /\ Goto(h, "run")
               /\ UNCHANGED execution
      <3>1. Owns(h)
        BY <1>1, <2>2 DEF RegisterConnect, Owns
      <3> QED
        BY <3>1 DEF HandlerStep
    <2> QED
      BY <1>1, <2>1, <2>2 DEF RegisterConnect
  <1>2. CASE RegisterBound(h)
    <2>1. request[h].command # "connect"
      BY <1>2 DEF RegisterBound, BoundCommands
    <2>2. Refused(h) \/ GoesOn(h)
      BY <1>2, <2>1 DEF RegisterBound, Refused, GoesOn, Release
    <2> QED
      BY <2>2 DEF HandlerStep
  <1>3. CASE RegisterOther(h)
    <2>1. request[h].command # "connect"
      BY <1>3 DEF RegisterOther
    <2>2. Refused(h) \/ GoesOn(h)
      BY <1>3, <2>1 DEF RegisterOther, Refused, GoesOn, Release, Refuse
    <2> QED
      BY <2>2 DEF HandlerStep
  <1> QED
    BY <1>1, <1>2, <1>3

\* What the invariant says of a thread that has the runtime.
LEMMA Sessions ==
  ASSUME Assumptions, DInv
  PROVE  /\ Sound(host) /\ None \notin Targets /\ None \notin Bound /\ Bound \subseteq Targets
         /\ host.session \in Bound => active = host.session \/ host.dropped
         /\ active \in Targets \cup {None} /\ op \in [Targets -> Operations]
  BY DEF Assumptions, TargetsAssumption, DInv, TypeOK, Sound, IdleHasNoSession, SessionHasOwner

LEMMA ConnectingOwns ==
  ASSUME Assumptions, DInv, NEW h \in Handlers,
         pc[h] \in {"run", "after", "undo"}, request[h].command = "connect"
  PROVE  /\ request[h].target \in Targets /\ active = request[h].target
         /\ request[h] = [command |-> "connect", target |-> request[h].target]
  <1>1. request[h] \in Requests
    BY DEF DInv, RequestIsKept, Waits, Calls
  <1>2. /\ request[h].target \in Targets
        /\ request[h] = [command |-> "connect", target |-> request[h].target]
    BY <1>1 DEF Requests, TargetCommands, Commands
  <1>3. Connects(h, request[h].target)
    BY <1>2 DEF Connects, Calls
  <1> QED
    BY <1>2, <1>3 DEF DInv, ConnectOwns

LEMMA RunningSteps ==
  ASSUME Assumptions, DInv, NEW h \in Handlers, RunConnect(h) \/ RunBound(h)
  PROVE  HandlerStep(h)
  <1> USE DEF handlerVars, watcherVars, lockVars, ownerVars
  <1>1. CASE RunConnect(h)
    <2> DEFINE t == request[h].target
               outcomes == IF t \in Replacing THEN Replaced(host, t, op[t])
                                              ELSE Connected(host, t, op[t])
    <2>1. t \in Targets /\ op[t] \in Operations /\ (t \in Bound => t \notin Replacing)
      BY <1>1, ConnectingOwns, Sessions DEF RunConnect, Assumptions, TargetsAssumption
    <2>a. host.session # t
      <3>1. Pending(h, t)
        BY <1>1, ConnectingOwns DEF RunConnect, Pending, Connects, Calls, Waits
      <3> QED
        BY <2>1, <3>1 DEF DInv, ConnectOwns, Pending
    <2>2. PICK x \in outcomes : /\ host' = Left(x) \/ (x.guard /\ host' = x.host)
                                /\ \/ result' = [result EXCEPT ![h] = x.ok]
                                   \/ ~x.ok /\ result' = [result EXCEPT ![h] = FALSE]
      BY <1>1 DEF RunConnect
    <2>3. /\ Sound(x.host) /\ Told(x)
          /\ x.host.session \in {host.session, None, t}
          /\ x.host.session = host.session => (host.dropped => x.host.dropped)
          /\ t \in Bound /\ x.ok => x.host.session = t
          /\ t \in Bound /\ ~x.ok /\ x.host.phase = "running" =>
               x.host.session = host.session \/ ~x.guard
      <3>1. CASE t \in Replacing
        BY <2>1, <2>a, <2>2, <3>1, Sessions, ReplacedFacts
      <3>2. CASE t \notin Replacing
        BY <2>1, <2>a, <2>2, <3>2, Sessions, ConnectedFacts
      <3> QED
        BY <3>1, <3>2
    <2> HIDE DEF outcomes
    <2>4. \E ok \in BOOLEAN : (ok <=> x.ok) /\ result' = [result EXCEPT ![h] = ok]
      BY <2>2, <2>3 DEF Told
    <2>b. /\ Sound(host') /\ SameSession(x.host, host')
          /\ ~x.guard /\ x.host.phase = "running" => host'.dropped
      BY <2>2, <2>3, LeftFacts DEF SameSession
    <2>c. /\ host'.session \in {host.session, None, t}
          /\ host'.session = host.session => (host.dropped => host'.dropped)
          /\ t \in Bound /\ x.ok => host'.session = t
          /\ t \in Bound /\ ~x.ok /\ host'.phase = "running" =>
               host'.session = host.session \/ host'.dropped
      BY <2>3, <2>b DEF SameSession
    <2>5. Starts(h)
      BY <1>1, <2>4, <2>b, <2>c DEF RunConnect, Starts
    <2> QED
      BY <2>5 DEF HandlerStep
  <1>2. CASE RunBound(h)
    <2>1. PICK ok \in {FALSE, host.phase = "running" /\ (request[h].command = "configure"
                                                \/ request[h].target \in Leased)} :
            result' = [result EXCEPT ![h] = ok]
      BY <1>2 DEF RunBound
    <2>2. ok \in BOOLEAN
      OBVIOUS
    <2>3. Tells(h)
      BY <1>2, <2>1, <2>2 DEF RunBound, Tells
    <2> QED
      BY <2>3 DEF HandlerStep
  <1> QED
    BY <1>1, <1>2

\* The end of a connect: what its result says of the session decides whether the
\* owner goes.
LEMMA AfterConnectSteps ==
  ASSUME Assumptions, DInv, NEW h \in Handlers, AfterConnect(h)
  PROVE  HandlerStep(h)
  <1> USE DEF handlerVars, watcherVars, lockVars, ownerVars
  <1> DEFINE t == request[h].target
             o == Settled(op[t], t)
  <1>1. pc[h] = "after" /\ request[h].command = "connect"
    BY DEF AfterConnect
  <1>2. t \in Targets /\ active = t
    BY <1>1, ConnectingOwns
  <1>3. /\ Sound(host) /\ None \notin Bound
        /\ host.session \in Bound => active = host.session \/ host.dropped
    BY Sessions
  <1>4. CASE Stopping(o) /\ result[h]
    <2>1. Undoes(h)
      BY <1>1, <1>4 DEF AfterConnect, Undoes
    <2> QED
      BY <2>1 DEF HandlerStep
  <1>5. CASE ~(Stopping(o) /\ result[h])
    <2>1. /\ snapshot' = host.phase /\ host' = host /\ execution' = None /\ Answer(h)
          /\ UNCHANGED <<begun, confirmed, watcherVars>>
          /\ IF Retires(t, result[h]) THEN Retire ELSE UNCHANGED <<active, stopped>>
      BY <1>5 DEF AfterConnect, Release
    <2>2. t \in Bound => /\ result[h] => host.session = t
                         /\ ~result[h] /\ host.phase = "running" => host.session # t \/ host.dropped
      BY <1>1 DEF DInv, ResultIsSession
    <2>3. CASE Retires(t, result[h])
      <3>1. t \in Bound => ~result[h] /\ host.phase # "recovery"
        BY <2>3 DEF Retires
      <3>2. host.session \in Bound => host.dropped
        BY <1>2, <1>3, <2>2, <3>1 DEF Sound, Hosts, Phases
      <3>3. GivesBack
        BY <1>3, <2>1, <2>3, <3>2 DEF GivesBack, SameSession
      <3> QED
        BY <1>1, <2>1, <3>3 DEF Finishes, HandlerStep
    <2>4. CASE ~Retires(t, result[h])
      <3>1. t \in Bound /\ host.phase = "running" => host.session = t
        BY <2>2, <2>4 DEF Retires
      <3>2. GivesBack
        BY <1>2, <1>3, <2>1, <2>4, <3>1 DEF GivesBack, SameSession
      <3> QED
        BY <1>1, <2>1, <3>2 DEF Finishes, HandlerStep
    <2> QED
      BY <2>3, <2>4
  <1> QED
    BY <1>4, <1>5

\* A disconnect that gives back the runtime.
LEMMA UndoneGivesBack ==
  ASSUME Assumptions, DInv, Sound(host'), Undone(host, host'),
         execution' = None, snapshot' = host'.phase, UNCHANGED begun,
         \/ UNCHANGED <<active, stopped, confirmed>>
         \/ /\ Retire
            /\ confirmed' = confirmed \/ (active \in Bound /\ confirmed' = confirmed \cup {active})
            /\ host'.phase = "idle" \/ active \notin Bound
  PROVE  GivesBack
  <1>1. /\ host'.phase # "running"
        /\ host'.session = None \/ (host'.session = host.session /\ (host.dropped => host'.dropped))
        /\ host'.phase = "idle" => host'.session = None
    BY DEF Undone, Sound
  <1> QED
    BY <1>1, Sessions DEF GivesBack

LEMMA UndoingSteps ==
  ASSUME Assumptions, DInv, NEW h \in Handlers,
         ConfirmStop(h) \/ UndoConnect(h) \/ UndoBound(h)
  PROVE  HandlerStep(h)
  <1> USE DEF handlerVars, watcherVars, lockVars, ownerVars
  <1>1. CASE ConfirmStop(h)
    <2>1. PICK x \in Disconnected(host, TRUE) :
            /\ host' = x.host /\ snapshot' = x.host.phase
            /\ IF x.ok THEN Retire /\ confirmed' = confirmed \cup {request[h].target}
                       ELSE UNCHANGED <<active, stopped, confirmed>>
      BY <1>1 DEF ConfirmStop
    <2>2. Sound(x.host) /\ Undone(host, x.host) /\ (x.ok => x.host.phase = "idle")
      BY <2>1, Sessions, DisconnectedFacts
    <2>3. active = request[h].target /\ active \in Bound
      BY <1>1 DEF ConfirmStop, DInv, ConfirmOwns, RequestIsKept
    <2>4. execution' = None /\ UNCHANGED <<begun, watcherVars>> /\ Answer(h) /\ pc[h] = "confirmStop"
      BY <1>1 DEF ConfirmStop, Release
    <2>5. GivesBack
      BY <2>1, <2>2, <2>3, <2>4, UndoneGivesBack
    <2> QED
      BY <2>4, <2>5 DEF Finishes, HandlerStep
  <1>2. CASE UndoConnect(h)
    <2> DEFINE t == request[h].target
               outcomes == IF op[t].protected THEN ProtectedHandoffCancelled(host)
                                              ELSE Disconnected(host, TRUE)
    <2>1. PICK x \in outcomes :
            /\ host' = Left(x) /\ snapshot' = x.host.phase
            /\ IF KeepsOwner(t, x.host) THEN UNCHANGED <<active, stopped>> ELSE Retire
      BY <1>2 DEF UndoConnect
    <2>2. /\ Sound(x.host) /\ Told(x)
          /\ Undone(host, x.host) \/ (SameSession(host, x.host) /\ ~x.guard)
      BY <2>1, Sessions, DisconnectedFacts, ProtectedFacts
    <2>3. active = t
      BY <1>2, ConnectingOwns DEF UndoConnect
    <2>4. execution' = None /\ UNCHANGED <<begun, confirmed, watcherVars>> /\ Answer(h) /\ pc[h] = "undo"
      BY <1>2 DEF UndoConnect, Release
    <2> HIDE DEF outcomes
    <2>5. /\ Sound(host') /\ SameSession(x.host, host') /\ snapshot' = host'.phase
          /\ ~x.guard /\ x.host.phase = "running" => host'.dropped
      BY <2>1, <2>2, LeftFacts DEF SameSession
    <2>6. SameSession(host, host') \/ Undone(host, host')
      BY <2>2, <2>5 DEF SameSession, Undone
    <2>7. CASE KeepsOwner(t, x.host)
      <3>1. UNCHANGED <<active, stopped, confirmed>> /\ host'.phase = "recovery"
        BY <2>1, <2>4, <2>5, <2>7 DEF KeepsOwner, SameSession
      <3>2. GivesBack
        BY <2>4, <2>5, <2>6, <3>1 DEF GivesBack
      <3> QED
        BY <2>4, <3>2 DEF Finishes, HandlerStep
    <2>8. CASE ~KeepsOwner(t, x.host)
      <3>1. Retire /\ (t \in Bound => host'.phase # "recovery")
        BY <2>1, <2>5, <2>8 DEF KeepsOwner, SameSession
      <3>2. host'.session \in Bound => host'.dropped
        <4>1. CASE t \in Bound
          <5>1. host'.phase = "idle" \/ (host'.phase = "running" /\ host'.dropped)
            BY <2>2, <2>5, <3>1, <4>1 DEF SameSession, Undone, Sound, Hosts, Phases
          <5> QED
            BY <2>5, <5>1, Sessions DEF Sound
        <4>2. CASE t \notin Bound
          BY <2>3, <2>6, <4>2, Sessions DEF SameSession, Undone
        <4> QED
          BY <4>1, <4>2
      <3>3. GivesBack
        BY <2>4, <2>5, <2>6, <3>1, <3>2 DEF GivesBack
      <3> QED
        BY <2>4, <3>3 DEF Finishes, HandlerStep
    <2> QED
      BY <2>7, <2>8
  <1>3. CASE UndoBound(h)
    <2>1. PICK x \in Disconnected(host, TRUE) :
            /\ host' = x.host /\ snapshot' = x.host.phase
            /\ UNCHANGED <<active, stopped>> \/ (x.ok /\ Retire)
      BY <1>3 DEF UndoBound
    <2>2. Sound(x.host) /\ Undone(host, x.host) /\ (x.ok => x.host.phase = "idle")
      BY <2>1, Sessions, DisconnectedFacts
    <2>3. execution' = None /\ UNCHANGED <<begun, confirmed, watcherVars>> /\ Answer(h) /\ pc[h] = "undo"
      BY <1>3 DEF UndoBound, Release
    <2> QED
      BY <2>1, <2>2, <2>3, UndoneGivesBack DEF Finishes, HandlerStep
  <1> QED
    BY <1>1, <1>2, <1>3

\* A bound owner's session that runs while nobody connects is its own.
LEMMA OwnersSession ==
  ASSUME Assumptions, DInv, active \in Bound, host.phase = "running",
         execution \in Handlers => request[execution].command # "connect"
  PROVE  host.session = active
  BY DEF DInv, OwnerHasSession

LEMMA LockHolder ==
  ASSUME Assumptions, DInv, NEW h \in Handlers, pc[h] \in Calls \cup {"confirmStop"}
  PROVE  execution = h
  BY DEF DInv, LockIsHeld

\* A DPI session that ended under a bound owner has left the host idle.
LEMMA DpiEndedFacts ==
  ASSUME Assumptions, DInv, NEW left, Sound(left), DpiEnded(active, left), left.phase # "recovery",
         SameSession(host, left) \/ Undone(host, left)
  PROVE  left.session \in Bound => left.dropped
  <1>1. active \in Bound => left.phase = "idle" /\ left.session = None
    BY DEF DpiEnded, Sound, Hosts, Phases
  <1>2. left.session = None \/ (left.session = host.session /\ (host.dropped => left.dropped))
    BY DEF SameSession, Undone
  <1> QED
    BY <1>1, <1>2, Sessions

LEMMA OtherSteps ==
  ASSUME Assumptions, DInv, NEW h \in Handlers, AfterBound(h) \/ RunOther(h)
  PROVE  HandlerStep(h)
  <1> USE DEF handlerVars, watcherVars, lockVars, ownerVars
  <1>1. CASE AfterBound(h)
    <2>1. /\ pc[h] = "after" /\ request[h].command \in BoundCommands
          /\ request[h].command # "connect" /\ execution = h
      BY <1>1, LockHolder DEF AfterBound, BoundCommands, Calls
    <2>2. CASE /\ snapshot' = host.phase /\ Release /\ Answer(h)
      <3>1. active \in Bound /\ host.phase = "running" => host.session = active
        BY <2>1, OwnersSession
      <3>2. GivesBack
        BY <1>1, <2>2, <3>1, Sessions DEF AfterBound, GivesBack, SameSession, Release
      <3> QED
        BY <1>1, <2>1, <2>2, <3>2 DEF AfterBound, Finishes, HandlerStep
    <2>3. CASE Goto(h, "undo") /\ UNCHANGED <<execution, snapshot>>
      <3>1. Undoes(h)
        BY <1>1, <2>1, <2>3 DEF AfterBound, Undoes
      <3> QED
        BY <3>1 DEF HandlerStep
    <2> QED
      BY <1>1, <2>2, <2>3 DEF AfterBound
  <1>2. CASE RunOther(h)
    <2> DEFINE command == request[h].command
               dpiOwner == active # None /\ op[active].dpi
    <2>1. PICK x \in OtherOutcomes(command) :
            /\ host' = x.host /\ snapshot' = x.host.phase
            /\ IF command = "disconnect" /\ x.ok THEN Retire
               ELSE IF dpiOwner /\ x.host.phase # "recovery" /\ DpiEnded(active, x.host) THEN Retire
               ELSE UNCHANGED <<active, stopped>>
      BY <1>2 DEF RunOther
    <2>2. /\ Sound(x.host) /\ (SameSession(host, x.host) \/ Undone(host, x.host))
          /\ command = "disconnect" /\ x.ok => x.host.phase = "idle"
      BY <2>1, Sessions, OtherFacts
    <2>3. /\ execution' = None /\ UNCHANGED <<begun, confirmed, watcherVars>> /\ Answer(h)
          /\ pc[h] = "run" /\ request[h].command # "connect"
      BY <1>2 DEF RunOther, Release
    <2>4. execution = h
      BY <2>3, LockHolder DEF Calls
    <2>5. CASE command = "disconnect" /\ x.ok
      <3>1. x.host.session \notin Bound
        BY <2>2, <2>5, Sessions DEF Sound
      <3> QED
        BY <2>1, <2>2, <2>3, <2>5, <3>1 DEF GivesBack, Finishes, HandlerStep
    <2>6. CASE /\ ~(command = "disconnect" /\ x.ok)
               /\ dpiOwner /\ x.host.phase # "recovery" /\ DpiEnded(active, x.host)
      <3>1. x.host.session \in Bound => x.host.dropped
        BY <2>2, <2>6, DpiEndedFacts
      <3> QED
        BY <2>1, <2>2, <2>3, <2>6, <3>1 DEF GivesBack, Finishes, HandlerStep
    <2>7. CASE UNCHANGED <<active, stopped>>
      <3>1. active \in Bound /\ x.host.phase = "running" => x.host.session = active
        BY <2>2, <2>3, <2>4, OwnersSession DEF SameSession, Undone
      <3> QED
        BY <2>1, <2>2, <2>3, <2>7, <3>1 DEF GivesBack, Finishes, HandlerStep
    <2> QED
      BY <2>1, <2>5, <2>6, <2>7
  <1> QED
    BY <1>1, <1>2

LEMMA WatcherMoving ==
  ASSUME Assumptions, DInv, Pick \/ Maintain \/ TryMaintain \/ WatchBound \/ CleanLock
                            \/ CheckRunningEgress \/ TryEgress
  PROVE  WatcherMoves \/ WatcherTakes
  <1> USE DEF Idle, ownerVars, lockVars, Holding
  <1>1. /\ None \notin Targets /\ Bound \subseteq Targets
        /\ active \in Targets \cup {None} /\ wop \in Targets \cup {None} /\ watchBound \in BOOLEAN
        /\ wpc \in {"maintain", "maintainTry", "maintaining"} => wop \in Targets
        /\ wpc \in {"bound", "cleanLock", "clean"} \/ watchBound => wop \in Bound
    BY Sessions DEF DInv, TypeOK, PickIsKept
  <1>2. CASE Pick
    <2>1. wpc = "wait" /\ wpc' \in {"done", "maintain", "egress"}
      BY <1>2 DEF Pick
    <2>2. UNCHANGED <<execution, active, stopped, snapshot, host, handlerVars, begun, confirmed>>
      BY <1>2 DEF Pick
    <2>3. Watched
      <3> DEFINE helped == (active # None /\ ~op[active].attempted)
                           /\ (op[active].dpi \/ op[active].telegram)
      <3>1. /\ wop' = IF helped THEN active ELSE None
            /\ watchBound' = (helped /\ active \in Bound)
            /\ wpc' = IF closing THEN "done" ELSE IF helped THEN "maintain" ELSE "egress"
        BY <1>2 DEF Pick
      <3>2. helped => active \in Targets
        BY <1>1
      <3> HIDE DEF helped
      <3> QED
        BY <1>1, <3>1, <3>2 DEF Watched
    <2> QED
      BY <2>1, <2>2, <2>3 DEF WatcherMoves
  <1>3. CASE Maintain
    <2>1. wpc = "maintain" /\ (WatchGoto("maintainTry") \/ WatchGoto("wait"))
      BY <1>3 DEF Maintain
    <2>2. UNCHANGED <<execution, active, stopped, snapshot, host, handlerVars, begun, confirmed>>
      BY <1>3 DEF Maintain
    <2> QED
      BY <1>1, <2>1, <2>2 DEF WatcherMoves, Watched, WatchGoto
  <1>4. CASE TryMaintain
    <2>1. UNCHANGED <<active, stopped, snapshot, host, handlerVars, begun, confirmed>>
          /\ wpc = "maintainTry"
      BY <1>4 DEF TryMaintain
    <2>2. \/ /\ execution = None /\ active = wop /\ execution' = Watcher
             /\ WatchGoto("maintaining")
          \/ WatchGoto("wait") /\ UNCHANGED execution
      BY <1>4 DEF TryMaintain
    <2> QED
      BY <1>1, <2>1, <2>2 DEF WatcherMoves, WatcherTakes, Watched, WatchGoto
  <1>5. CASE WatchBound
    <2> DEFINE t == IF wpc = "wait" THEN active ELSE wop
               o == InterruptIf(Refreshed(op[t], t), Overdue(op[t], t), "deadline")
               next == IF Stopping(o) THEN "cleanLock" ELSE IF o.handoff THEN "egress" ELSE "wait"
    <2>1. /\ wpc \in {"wait", "bound"} /\ wpc' = next
          /\ wop' = IF next = "cleanLock" THEN t ELSE None
          /\ watchBound' = FALSE
          /\ UNCHANGED <<execution, active, stopped, snapshot, host, handlerVars, begun, confirmed>>
      BY <1>5 DEF WatchBound
    <2>2. wpc = "wait" => active \in Bound
      BY <1>5 DEF WatchBound
    <2>3. t \in Bound
      BY <1>1, <2>1, <2>2
    <2>4. next \in {"cleanLock", "egress", "wait"}
      OBVIOUS
    <2> HIDE DEF t, next
    <2> QED
      BY <1>1, <2>1, <2>3, <2>4 DEF WatcherMoves, Watched
  <1>6. CASE CleanLock
    <2>1. UNCHANGED <<active, stopped, snapshot, host, handlerVars, begun, confirmed>>
          /\ wpc = "cleanLock" /\ execution = None
      BY <1>6 DEF CleanLock
    <2>2. \/ (WatchGoto("done") \/ WatchGoto("wait")) /\ UNCHANGED execution
          \/ active = wop /\ execution' = Watcher /\ WatchGoto("clean")
      BY <1>6 DEF CleanLock, StillOwner
    <2> QED
      BY <1>1, <2>1, <2>2 DEF WatcherMoves, WatcherTakes, Watched, WatchGoto
  <1>7. CASE CheckRunningEgress
    <2>1. wpc = "egress" /\ (WatchGoto("wait") \/ WatchGoto("egressTry"))
      BY <1>7 DEF CheckRunningEgress
    <2>2. UNCHANGED <<execution, active, stopped, snapshot, host, handlerVars, begun, confirmed>>
      BY <1>7 DEF CheckRunningEgress
    <2> QED
      BY <1>1, <2>1, <2>2 DEF WatcherMoves, Watched, WatchGoto
  <1>8. CASE TryEgress
    <2>1. UNCHANGED <<active, stopped, snapshot, host, handlerVars, begun, confirmed>>
          /\ wpc = "egressTry"
      BY <1>8 DEF TryEgress
    <2>2. \/ WatchGoto("wait") /\ UNCHANGED execution
          \/ execution = None /\ execution' = Watcher /\ WatchGoto("checking")
      BY <1>8 DEF TryEgress
    <2> QED
      BY <1>1, <2>1, <2>2 DEF WatcherMoves, WatcherTakes, Watched, WatchGoto
  <1> QED
    BY <1>2, <1>3, <1>4, <1>5, <1>6, <1>7, <1>8

LEMMA WatcherFinishing ==
  ASSUME Assumptions, DInv, Maintaining \/ Clean \/ Checked
  PROVE  WatcherFinishes
  <1> USE DEF ownerVars, lockVars
  <1>1. /\ wop \in Targets \cup {None} /\ watchBound \in BOOLEAN
        /\ watchBound => wop \in Bound
        /\ wpc \in {"maintaining", "clean"} => active = wop
    BY DEF DInv, TypeOK, PickIsKept
  <1>2. execution = Watcher /\ Watcher \notin Handlers
    BY DEF Maintaining, Clean, Checked, DInv, LockIsHeld, Assumptions, TargetsAssumption
  <1>3. active \in Bound /\ host.phase = "running" => host.session = active
    BY <1>2, OwnersSession
  <1>4. CASE Maintaining
    <2>1. PICK x \in Maintained :
            /\ host' = x.host /\ snapshot' = x.host.phase
            /\ IF active = wop /\ x.host.phase = "recovery"
               THEN UNCHANGED <<active, stopped>> /\ watchBound' = FALSE
               ELSE IF active = wop /\ DpiEnded(wop, x.host)
               THEN Retire /\ watchBound' = FALSE
               ELSE UNCHANGED <<active, stopped, watchBound>>
            /\ wpc' = IF watchBound' THEN "bound" ELSE "egress"
      BY <1>4 DEF Maintaining
    <2>2. wpc = "maintaining" /\ execution' = None /\ UNCHANGED <<handlerVars, wop, begun, confirmed>>
      BY <1>4 DEF Maintaining, Release
    <2>3. Sound(x.host) /\ (SameSession(host, x.host) \/ Undone(host, x.host))
      BY <2>1, Sessions, OtherFacts
    <2>4. Watched /\ wpc' \in {"bound", "egress"}
      BY <1>1, <2>1, <2>2 DEF Watched
    <2>5. CASE UNCHANGED <<active, stopped>>
      <3>1. active \in Bound /\ x.host.phase = "running" => x.host.session = active
        BY <1>3, <2>3 DEF SameSession, Undone
      <3> QED
        BY <2>1, <2>2, <2>3, <2>4, <2>5, <3>1 DEF GivesBack, WatcherFinishes, Holding
    <2>6. CASE Retire /\ DpiEnded(wop, x.host) /\ x.host.phase # "recovery"
      <3>1. x.host.session \in Bound => x.host.dropped
        BY <1>1, <2>2, <2>3, <2>6, DpiEndedFacts
      <3> QED
        BY <2>1, <2>2, <2>3, <2>4, <2>6, <3>1 DEF GivesBack, WatcherFinishes, Holding
    <2> QED
      BY <1>1, <2>1, <2>2, <2>5, <2>6
  <1>5. CASE Clean
    <2>1. PICK x \in Disconnected(host, TRUE) :
            /\ host' = x.host /\ snapshot' = x.host.phase
            /\ IF x.ok THEN Retire ELSE UNCHANGED <<active, stopped>>
      BY <1>5 DEF Clean
    <2>2. Sound(x.host) /\ Undone(host, x.host) /\ (x.ok => x.host.phase = "idle")
      BY <2>1, Sessions, DisconnectedFacts
    <2>3. /\ wpc = "clean" /\ execution' = None /\ UNCHANGED <<handlerVars, begun, confirmed>>
          /\ WatchGoto("wait")
      BY <1>5 DEF Clean, Release
    <2>4. GivesBack
      BY <2>1, <2>2, <2>3, UndoneGivesBack
    <2> QED
      BY <1>1, <2>3, <2>4 DEF WatcherFinishes, Watched, WatchGoto, Holding
  <1>6. CASE Checked
    <2>1. /\ wpc = "checking" /\ execution' = None /\ WatchGoto("wait")
          /\ UNCHANGED <<active, stopped, handlerVars, begun, confirmed, host>>
          /\ snapshot' \in {snapshot, host.phase}
      BY <1>6 DEF Checked, Release
    <2>2. snapshot = host.phase
      BY <1>2 DEF DInv, SnapshotIsStale
    <2>3. GivesBack
      BY <1>3, <2>1, <2>2, Sessions DEF GivesBack, SameSession
    <2> QED
      BY <1>1, <2>1, <2>3 DEF WatcherFinishes, Watched, WatchGoto, Holding
  <1> QED
    BY <1>4, <1>5, <1>6

\* Every step is of one of the kinds.
LEMMA Kinds ==
  ASSUME Assumptions, DInv, [Next]_vars
  PROVE  Step
  <1>1. CASE \E h \in Handlers : Asks(h) \/ Handles(h) \/ ConfirmLock(h) \/ Join(h)
    BY <1>1, AskingSteps, WaitingSteps, RegisteringSteps, RunningSteps, AfterConnectSteps,
       UndoingSteps, OtherSteps DEF Handles, Step
  <1>2. CASE Watches \/ CleanLock
    BY <1>2, WatcherMoving, WatcherFinishing DEF Watches, Step
  <1>3. CASE World
    BY <1>3 DEF World, OwnerDies, DeadlinePasses, LeaseLapses, NetworkChanges, ServiceStops, Close,
       Event, Frame, Stays, Step, ownerVars, lockVars
  <1>4. CASE UNCHANGED vars
    BY <1>4 DEF vars, ownerVars, lockVars, Stays, Step
  <1> QED
    BY <1>1, <1>2, <1>3, <1>4 DEF Next, Destroyed

\* Where a handler may be.
Labels == {"idle", "lock", "contended", "join", "register", "run", "after", "undo",
           "confirmLock", "confirmStop"}

LEMMA Typed ==
  ASSUME DInv
  PROVE  /\ pc \in [Handlers -> Labels] /\ request \in [Handlers -> Requests \cup {NoRequest}]
         /\ result \in [Handlers -> BOOLEAN]
  BY DEF DInv, TypeOK, Labels

\* The types of what the kinds of steps are about.
ControlTypes ==
  /\ execution \in Handlers \cup {Watcher, None}
  /\ active \in Targets \cup {None} /\ stopped \in Targets \cup {None}
  /\ snapshot \in Phases \cup {"busy"} /\ host \in Hosts
  /\ request \in [Handlers -> Requests \cup {NoRequest}] /\ pc \in [Handlers -> Labels]
  /\ result \in [Handlers -> BOOLEAN]
  /\ wpc \in {"wait", "maintain", "maintainTry", "maintaining", "bound", "cleanLock",
              "clean", "egress", "egressTry", "checking", "done"}
  /\ wop \in Targets \cup {None} /\ watchBound \in BOOLEAN
  /\ begun \subseteq Targets /\ confirmed \subseteq Targets

-----------------------------------------------------------------------------
(* Every kind of step keeps the invariant.                                 *)

\* One thread at a time has the runtime.
LEMMA LockKept ==
  ASSUME Assumptions, DInv, Step
  PROVE  LockIsHeld'
  <1> USE DEF handlerVars, watcherVars, LockIsHeld, Calls, Holding, Goto, Answer, GivesBack
  <1>0. /\ pc \in [Handlers -> Labels] /\ LockIsHeld
        /\ None \notin Handlers /\ Watcher \notin Handlers \cup {None}
    BY Typed DEF DInv, Assumptions, TargetsAssumption
  <1>Stays. CASE Stays
    BY <1>Stays, <1>0 DEF Stays
  <1>Learns. CASE Learns
    BY <1>Learns, <1>0 DEF Learns
  <1>Expires. CASE \E t \in Bound : Expires(t)
    BY <1>Expires, <1>0 DEF Expires
  <1>WatcherMoves. CASE WatcherMoves
    BY <1>WatcherMoves, <1>0 DEF WatcherMoves
  <1>WatcherTakes. CASE WatcherTakes
    BY <1>WatcherTakes, <1>0 DEF WatcherTakes
  <1>WatcherFinishes. CASE WatcherFinishes
    BY <1>WatcherFinishes, <1>0 DEF WatcherFinishes
  <1>h. ASSUME NEW h \in Handlers, HandlerStep(h)
        PROVE  LockIsHeld'
    <2>Submits. CASE \E r \in Requests : Submits(h, r)
      BY <2>Submits, <1>0 DEF Submits
    <2>AsksForEnd. CASE \E t \in Bound : AsksForEnd(h, t)
      BY <2>AsksForEnd, <1>0 DEF AsksForEnd
    <2>Takes. CASE Takes(h)
      BY <2>Takes, <1>0 DEF Takes
    <2>WaitsOn. CASE WaitsOn(h)
      BY <2>WaitsOn, <1>0 DEF WaitsOn
    <2>TurnedAway. CASE TurnedAway(h)
      BY <2>TurnedAway, <1>0 DEF TurnedAway
    <2>Overtaken. CASE Overtaken(h)
      BY <2>Overtaken, <1>0 DEF Overtaken
    <2>Refused. CASE Refused(h)
      BY <2>Refused, <1>0 DEF Refused
    <2>Owns. CASE Owns(h)
      BY <2>Owns, <1>0 DEF Owns
    <2>GoesOn. CASE GoesOn(h)
      BY <2>GoesOn, <1>0 DEF GoesOn
    <2>Starts. CASE Starts(h)
      BY <2>Starts, <1>0 DEF Starts
    <2>Tells. CASE Tells(h)
      BY <2>Tells, <1>0 DEF Tells
    <2>Undoes. CASE Undoes(h)
      BY <2>Undoes, <1>0 DEF Undoes
    <2>Finishes. CASE Finishes(h)
      BY <2>Finishes, <1>0 DEF Finishes
    <2> QED
      BY <1>h, <2>Submits, <2>AsksForEnd, <2>Takes, <2>WaitsOn, <2>TurnedAway, <2>Overtaken, <2>Refused, <2>Owns, <2>GoesOn, <2>Starts, <2>Tells, <2>Undoes, <2>Finishes DEF HandlerStep
  <1> QED
    BY <1>Stays, <1>Learns, <1>Expires, <1>WatcherMoves, <1>WatcherTakes, <1>WatcherFinishes, <1>h DEF Step

\* A handler keeps the request it took.
LEMMA RequestKept ==
  ASSUME Assumptions, DInv, Step
  PROVE  RequestIsKept'
  <1> USE DEF handlerVars, watcherVars, RequestIsKept, Calls, Waits, Goto, Answer, BoundCommands
  <1>0. /\ pc \in [Handlers -> Labels] /\ request \in [Handlers -> Requests \cup {NoRequest}]
        /\ RequestIsKept
    BY Typed DEF DInv
  <1>Stays. CASE Stays
    BY <1>Stays, <1>0 DEF Stays
  <1>Learns. CASE Learns
    BY <1>Learns, <1>0 DEF Learns
  <1>Expires. CASE \E t \in Bound : Expires(t)
    BY <1>Expires, <1>0 DEF Expires
  <1>WatcherMoves. CASE WatcherMoves
    BY <1>WatcherMoves, <1>0 DEF WatcherMoves
  <1>WatcherTakes. CASE WatcherTakes
    BY <1>WatcherTakes, <1>0 DEF WatcherTakes
  <1>WatcherFinishes. CASE WatcherFinishes
    BY <1>WatcherFinishes, <1>0 DEF WatcherFinishes
  <1>h. ASSUME NEW h \in Handlers, HandlerStep(h)
        PROVE  RequestIsKept'
    <2>Submits. CASE \E r \in Requests : Submits(h, r)
      BY <2>Submits, <1>0 DEF Submits
    <2>AsksForEnd. CASE \E t \in Bound : AsksForEnd(h, t)
      BY <2>AsksForEnd, <1>0 DEF AsksForEnd
    <2>Takes. CASE Takes(h)
      BY <2>Takes, <1>0 DEF Takes
    <2>WaitsOn. CASE WaitsOn(h)
      BY <2>WaitsOn, <1>0 DEF WaitsOn
    <2>TurnedAway. CASE TurnedAway(h)
      BY <2>TurnedAway, <1>0 DEF TurnedAway
    <2>Overtaken. CASE Overtaken(h)
      BY <2>Overtaken, <1>0 DEF Overtaken
    <2>Refused. CASE Refused(h)
      BY <2>Refused, <1>0 DEF Refused
    <2>Owns. CASE Owns(h)
      BY <2>Owns, <1>0 DEF Owns
    <2>GoesOn. CASE GoesOn(h)
      BY <2>GoesOn, <1>0 DEF GoesOn
    <2>Starts. CASE Starts(h)
      BY <2>Starts, <1>0 DEF Starts
    <2>Tells. CASE Tells(h)
      BY <2>Tells, <1>0 DEF Tells
    <2>Undoes. CASE Undoes(h)
      BY <2>Undoes, <1>0 DEF Undoes
    <2>Finishes. CASE Finishes(h)
      BY <2>Finishes, <1>0 DEF Finishes
    <2> QED
      BY <1>h, <2>Submits, <2>AsksForEnd, <2>Takes, <2>WaitsOn, <2>TurnedAway, <2>Overtaken, <2>Refused, <2>Owns, <2>GoesOn, <2>Starts, <2>Tells, <2>Undoes, <2>Finishes DEF HandlerStep
  <1> QED
    BY <1>Stays, <1>Learns, <1>Expires, <1>WatcherMoves, <1>WatcherTakes, <1>WatcherFinishes, <1>h DEF Step

\* The watcher keeps what it has picked.
LEMMA PickKept ==
  ASSUME Assumptions, DInv, Step
  PROVE  PickIsKept'
  <1> USE DEF handlerVars, watcherVars, PickIsKept, Watched, Holding
  <1>0. /\ PickIsKept
        /\ wpc \in Holding <=> execution = Watcher
        /\ Watcher \notin Handlers
    BY DEF DInv, LockIsHeld, Assumptions, TargetsAssumption
  <1>Stays. CASE Stays
    BY <1>Stays, <1>0 DEF Stays
  <1>Learns. CASE Learns
    BY <1>Learns, <1>0 DEF Learns
  <1>Expires. CASE \E t \in Bound : Expires(t)
    BY <1>Expires, <1>0 DEF Expires
  <1>WatcherMoves. CASE WatcherMoves
    BY <1>WatcherMoves, <1>0 DEF WatcherMoves
  <1>WatcherTakes. CASE WatcherTakes
    BY <1>WatcherTakes, <1>0 DEF WatcherTakes
  <1>WatcherFinishes. CASE WatcherFinishes
    BY <1>WatcherFinishes, <1>0 DEF WatcherFinishes
  <1>h. ASSUME NEW h \in Handlers, HandlerStep(h)
        PROVE  PickIsKept'
    <2>Submits. CASE \E r \in Requests : Submits(h, r)
      BY <2>Submits, <1>0 DEF Submits
    <2>AsksForEnd. CASE \E t \in Bound : AsksForEnd(h, t)
      BY <2>AsksForEnd, <1>0 DEF AsksForEnd
    <2>Takes. CASE Takes(h)
      BY <2>Takes, <1>0 DEF Takes
    <2>WaitsOn. CASE WaitsOn(h)
      BY <2>WaitsOn, <1>0 DEF WaitsOn
    <2>TurnedAway. CASE TurnedAway(h)
      BY <2>TurnedAway, <1>0 DEF TurnedAway
    <2>Overtaken. CASE Overtaken(h)
      BY <2>Overtaken, <1>0 DEF Overtaken
    <2>Refused. CASE Refused(h)
      BY <2>Refused, <1>0 DEF Refused
    <2>Owns. CASE Owns(h)
      BY <2>Owns, <1>0, LockHolder DEF Owns, GivesBack, Calls
    <2>GoesOn. CASE GoesOn(h)
      BY <2>GoesOn, <1>0 DEF GoesOn
    <2>Starts. CASE Starts(h)
      BY <2>Starts, <1>0 DEF Starts
    <2>Tells. CASE Tells(h)
      BY <2>Tells, <1>0 DEF Tells
    <2>Undoes. CASE Undoes(h)
      BY <2>Undoes, <1>0 DEF Undoes
    <2>Finishes. CASE Finishes(h)
      BY <2>Finishes, <1>0, LockHolder DEF Finishes, GivesBack, Calls
    <2> QED
      BY <1>h, <2>Submits, <2>AsksForEnd, <2>Takes, <2>WaitsOn, <2>TurnedAway, <2>Overtaken, <2>Refused, <2>Owns, <2>GoesOn, <2>Starts, <2>Tells, <2>Undoes, <2>Finishes DEF HandlerStep
  <1> QED
    BY <1>Stays, <1>Learns, <1>Expires, <1>WatcherMoves, <1>WatcherTakes, <1>WatcherFinishes, <1>h DEF Step

\* The owner a confirming cancellation found stays while it has the runtime.
LEMMA ConfirmKept ==
  ASSUME Assumptions, DInv, Step
  PROVE  ConfirmOwns'
  <1> USE DEF handlerVars, watcherVars, ConfirmOwns, Goto, Answer
  <1>0. /\ pc \in [Handlers -> Labels] /\ request \in [Handlers -> Requests \cup {NoRequest}]
        /\ ConfirmOwns
    BY Typed DEF DInv
  <1>1. /\ \A g \in Handlers : pc[g] \in Calls \cup {"confirmStop"} <=> execution = g
        /\ wpc \in Holding <=> execution = Watcher
        /\ Watcher \notin Handlers
    BY DEF DInv, LockIsHeld, Assumptions, TargetsAssumption, Holding
  <1>Stays. CASE Stays
    BY <1>Stays, <1>0 DEF Stays
  <1>Learns. CASE Learns
    BY <1>Learns, <1>0 DEF Learns
  <1>Expires. CASE \E t \in Bound : Expires(t)
    BY <1>Expires, <1>0 DEF Expires
  <1>WatcherMoves. CASE WatcherMoves
    BY <1>WatcherMoves, <1>0 DEF WatcherMoves
  <1>WatcherTakes. CASE WatcherTakes
    BY <1>WatcherTakes, <1>0 DEF WatcherTakes
  <1>WatcherFinishes. CASE WatcherFinishes
    BY <1>WatcherFinishes, <1>0, <1>1 DEF WatcherFinishes, GivesBack, Calls, Holding
  <1>h. ASSUME NEW h \in Handlers, HandlerStep(h)
        PROVE  ConfirmOwns'
    <2>Submits. CASE \E r \in Requests : Submits(h, r)
      BY <2>Submits, <1>0 DEF Submits
    <2>AsksForEnd. CASE \E t \in Bound : AsksForEnd(h, t)
      BY <2>AsksForEnd, <1>0 DEF AsksForEnd
    <2>Takes. CASE Takes(h)
      BY <2>Takes, <1>0 DEF Takes
    <2>WaitsOn. CASE WaitsOn(h)
      BY <2>WaitsOn, <1>0 DEF WaitsOn
    <2>TurnedAway. CASE TurnedAway(h)
      BY <2>TurnedAway, <1>0 DEF TurnedAway
    <2>Overtaken. CASE Overtaken(h)
      BY <2>Overtaken, <1>0 DEF Overtaken
    <2>Refused. CASE Refused(h)
      BY <2>Refused, <1>0 DEF Refused
    <2>Owns. CASE Owns(h)
      BY <2>Owns, <1>0, <1>1 DEF Owns, GivesBack, Calls, Holding
    <2>GoesOn. CASE GoesOn(h)
      BY <2>GoesOn, <1>0 DEF GoesOn
    <2>Starts. CASE Starts(h)
      BY <2>Starts, <1>0 DEF Starts
    <2>Tells. CASE Tells(h)
      BY <2>Tells, <1>0 DEF Tells
    <2>Undoes. CASE Undoes(h)
      BY <2>Undoes, <1>0 DEF Undoes
    <2>Finishes. CASE Finishes(h)
      BY <2>Finishes, <1>0, <1>1 DEF Finishes, GivesBack, Calls, Holding
    <2> QED
      BY <1>h, <2>Submits, <2>AsksForEnd, <2>Takes, <2>WaitsOn, <2>TurnedAway, <2>Overtaken, <2>Refused, <2>Owns, <2>GoesOn, <2>Starts, <2>Tells, <2>Undoes, <2>Finishes DEF HandlerStep
  <1> QED
    BY <1>Stays, <1>Learns, <1>Expires, <1>WatcherMoves, <1>WatcherTakes, <1>WatcherFinishes, <1>h DEF Step

\* No invocation connects twice.
LEMMA OnceKept ==
  ASSUME Assumptions, DInv, Step
  PROVE  ConnectsOnce'
  <1> USE DEF handlerVars, watcherVars, ConnectsOnce, Connects, Goto, Answer, Calls, Waits, NoRequest
  <1>0. /\ pc \in [Handlers -> Labels] /\ request \in [Handlers -> Requests \cup {NoRequest}]
        /\ result \in [Handlers -> BOOLEAN]
    BY Typed
  <1>1. /\ \A g \in Handlers : pc[g] \in Calls \cup {"confirmStop"} <=> execution = g
        /\ wpc \in Holding <=> execution = Watcher
        /\ Watcher \notin Handlers /\ None \notin Handlers /\ None \notin Targets
    BY DEF DInv, LockIsHeld, Assumptions, TargetsAssumption, Holding
  <1>2. ConnectsOnce
    BY DEF DInv
  <1>3. \A g \in Handlers : pc[g] \in Waits \cup Calls /\ request[g].command = "connect" =>
          /\ request[g].target \in Targets
          /\ request[g] = [command |-> "connect", target |-> request[g].target]
    BY DEF DInv, RequestIsKept, Requests, TargetCommands, Commands
  <1>Stays. CASE Stays
    BY <1>Stays, <1>0, <1>1, <1>2 DEF Stays
  <1>Learns. CASE Learns
    BY <1>Learns, <1>0, <1>1, <1>2 DEF Learns
  <1>Expires. CASE \E t \in Bound : Expires(t)
    BY <1>Expires, <1>0, <1>1, <1>2 DEF Expires
  <1>WatcherMoves. CASE WatcherMoves
    BY <1>WatcherMoves, <1>0, <1>1, <1>2 DEF WatcherMoves
  <1>WatcherTakes. CASE WatcherTakes
    BY <1>WatcherTakes, <1>0, <1>1, <1>2 DEF WatcherTakes
  <1>WatcherFinishes. CASE WatcherFinishes
    BY <1>WatcherFinishes, <1>0, <1>1, <1>2 DEF WatcherFinishes, GivesBack, Retire, Holding, SameSession, Undone
  <1>h. ASSUME NEW h \in Handlers, HandlerStep(h)
        PROVE  ConnectsOnce'
    <2>Submits. CASE \E r \in Requests : Submits(h, r)
      BY <2>Submits, <1>0, <1>1, <1>2 DEF Submits
    <2>AsksForEnd. CASE \E t \in Bound : AsksForEnd(h, t)
      BY <2>AsksForEnd, <1>0, <1>1, <1>2 DEF AsksForEnd
    <2>Takes. CASE Takes(h)
      BY <2>Takes, <1>0, <1>1, <1>2 DEF Takes
    <2>WaitsOn. CASE WaitsOn(h)
      BY <2>WaitsOn, <1>0, <1>1, <1>2 DEF WaitsOn
    <2>TurnedAway. CASE TurnedAway(h)
      BY <2>TurnedAway, <1>0, <1>1, <1>2 DEF TurnedAway
    <2>Overtaken. CASE Overtaken(h)
      BY <2>Overtaken, <1>0, <1>1, <1>2 DEF Overtaken
    <2>Refused. CASE Refused(h)
      BY <2>Refused, <1>0, <1>1, <1>2 DEF Refused
    <2>Owns. CASE Owns(h)
      BY <2>Owns, <1>0, <1>1, <1>2, <1>3 DEF Owns
    <2>GoesOn. CASE GoesOn(h)
      BY <2>GoesOn, <1>0, <1>1, <1>2 DEF GoesOn
    <2>Starts. CASE Starts(h)
      BY <2>Starts, <1>0, <1>1, <1>2, <1>3 DEF Starts
    <2>Tells. CASE Tells(h)
      BY <2>Tells, <1>0, <1>1, <1>2 DEF Tells
    <2>Undoes. CASE Undoes(h)
      BY <2>Undoes, <1>0, <1>1, <1>2 DEF Undoes
    <2>Finishes. CASE Finishes(h)
      BY <2>Finishes, <1>0, <1>1, <1>2 DEF Finishes, GivesBack, Retire, Holding, SameSession, Undone
    <2> QED
      BY <1>h, <2>Submits, <2>AsksForEnd, <2>Takes, <2>WaitsOn, <2>TurnedAway, <2>Overtaken, <2>Refused, <2>Owns, <2>GoesOn, <2>Starts, <2>Tells, <2>Undoes, <2>Finishes DEF HandlerStep
  <1> QED
    BY <1>Stays, <1>Learns, <1>Expires, <1>WatcherMoves, <1>WatcherTakes, <1>WatcherFinishes, <1>h DEF Step

\* A connect that has the runtime keeps its owner, and gets its session only from its own call.
LEMMA OwnsKept ==
  ASSUME Assumptions, DInv, Step
  PROVE  ConnectOwns'
  <1> USE DEF handlerVars, watcherVars, ConnectOwns, Connects, Pending, Goto, Answer, Calls, Waits, NoRequest
  <1>0. /\ pc \in [Handlers -> Labels] /\ request \in [Handlers -> Requests \cup {NoRequest}]
        /\ result \in [Handlers -> BOOLEAN]
    BY Typed
  <1>1. /\ \A g \in Handlers : pc[g] \in Calls \cup {"confirmStop"} <=> execution = g
        /\ wpc \in Holding <=> execution = Watcher
        /\ Watcher \notin Handlers /\ None \notin Handlers /\ None \notin Targets
    BY DEF DInv, LockIsHeld, Assumptions, TargetsAssumption, Holding
  <1>2. ConnectOwns /\ ConnectsOnce
    BY DEF DInv
  <1>3. \A g \in Handlers : pc[g] \in Waits \cup Calls /\ request[g].command = "connect" =>
          /\ request[g].target \in Targets
          /\ request[g] = [command |-> "connect", target |-> request[g].target]
    BY DEF DInv, RequestIsKept, Requests, TargetCommands, Commands
  <1>4. /\ active \in begun \cup {None} /\ host.session \in begun \cup {None}
        /\ \A g \in Handlers, t \in Targets : Connects(g, t) => t \in begun
        /\ \A f, g \in Handlers, t \in Targets : Connects(f, t) /\ Connects(g, t) => f = g
    BY DEF DInv, ConnectsOnce
  <1>Stays. CASE Stays
    BY <1>Stays, <1>0, <1>1, <1>2 DEF Stays
  <1>Learns. CASE Learns
    BY <1>Learns, <1>0, <1>1, <1>2 DEF Learns
  <1>Expires. CASE \E t \in Bound : Expires(t)
    BY <1>Expires, <1>0, <1>1, <1>2 DEF Expires
  <1>WatcherMoves. CASE WatcherMoves
    BY <1>WatcherMoves, <1>0, <1>1, <1>2 DEF WatcherMoves
  <1>WatcherTakes. CASE WatcherTakes
    BY <1>WatcherTakes, <1>0, <1>1, <1>2 DEF WatcherTakes
  <1>WatcherFinishes. CASE WatcherFinishes
    BY <1>WatcherFinishes, <1>0, <1>1, <1>2 DEF WatcherFinishes, GivesBack, Retire, Holding, SameSession, Undone
  <1>h. ASSUME NEW h \in Handlers, HandlerStep(h)
        PROVE  ConnectOwns'
    <2>Submits. CASE \E r \in Requests : Submits(h, r)
      BY <2>Submits, <1>0, <1>1, <1>2, <1>3, <1>4 DEF Submits
    <2>AsksForEnd. CASE \E t \in Bound : AsksForEnd(h, t)
      BY <2>AsksForEnd, <1>0, <1>1, <1>2 DEF AsksForEnd
    <2>Takes. CASE Takes(h)
      BY <2>Takes, <1>0, <1>1, <1>2, <1>3, <1>4 DEF Takes
    <2>WaitsOn. CASE WaitsOn(h)
      BY <2>WaitsOn, <1>0, <1>1, <1>2 DEF WaitsOn
    <2>TurnedAway. CASE TurnedAway(h)
      BY <2>TurnedAway, <1>0, <1>1, <1>2 DEF TurnedAway
    <2>Overtaken. CASE Overtaken(h)
      BY <2>Overtaken, <1>0, <1>1, <1>2 DEF Overtaken
    <2>Refused. CASE Refused(h)
      BY <2>Refused, <1>0, <1>1, <1>2 DEF Refused
    <2>Owns. CASE Owns(h)
      BY <2>Owns, <1>0, <1>1, <1>2, <1>3, <1>4 DEF Owns
    <2>GoesOn. CASE GoesOn(h)
      BY <2>GoesOn, <1>0, <1>1, <1>2 DEF GoesOn
    <2>Starts. CASE Starts(h)
      BY <2>Starts, <1>0, <1>1, <1>2, <1>3, <1>4 DEF Starts
    <2>Tells. CASE Tells(h)
      BY <2>Tells, <1>0, <1>1, <1>2 DEF Tells
    <2>Undoes. CASE Undoes(h)
      BY <2>Undoes, <1>0, <1>1, <1>2 DEF Undoes
    <2>Finishes. CASE Finishes(h)
      BY <2>Finishes, <1>0, <1>1, <1>2 DEF Finishes, GivesBack, Retire, Holding, SameSession, Undone
    <2> QED
      BY <1>h, <2>Submits, <2>AsksForEnd, <2>Takes, <2>WaitsOn, <2>TurnedAway, <2>Overtaken, <2>Refused, <2>Owns, <2>GoesOn, <2>Starts, <2>Tells, <2>Undoes, <2>Finishes DEF HandlerStep
  <1> QED
    BY <1>Stays, <1>Learns, <1>Expires, <1>WatcherMoves, <1>WatcherTakes, <1>WatcherFinishes, <1>h DEF Step

\* A host that is not idle has a session.
LEMMA IdleKept ==
  ASSUME Assumptions, DInv, Step
  PROVE  IdleHasNoSession'
  <1> USE DEF handlerVars, watcherVars, IdleHasNoSession, Sound, GivesBack
  <1>0. IdleHasNoSession
    BY DEF DInv
  <1>Stays. CASE Stays
    BY <1>Stays, <1>0 DEF Stays
  <1>Learns. CASE Learns
    BY <1>Learns, <1>0 DEF Learns
  <1>Expires. CASE \E t \in Bound : Expires(t)
    BY <1>Expires, <1>0 DEF Expires
  <1>WatcherMoves. CASE WatcherMoves
    BY <1>WatcherMoves, <1>0 DEF WatcherMoves
  <1>WatcherTakes. CASE WatcherTakes
    BY <1>WatcherTakes, <1>0 DEF WatcherTakes
  <1>WatcherFinishes. CASE WatcherFinishes
    BY <1>WatcherFinishes, <1>0 DEF WatcherFinishes
  <1>h. ASSUME NEW h \in Handlers, HandlerStep(h)
        PROVE  IdleHasNoSession'
    <2>Submits. CASE \E r \in Requests : Submits(h, r)
      BY <2>Submits, <1>0 DEF Submits
    <2>AsksForEnd. CASE \E t \in Bound : AsksForEnd(h, t)
      BY <2>AsksForEnd, <1>0 DEF AsksForEnd
    <2>Takes. CASE Takes(h)
      BY <2>Takes, <1>0 DEF Takes
    <2>WaitsOn. CASE WaitsOn(h)
      BY <2>WaitsOn, <1>0 DEF WaitsOn
    <2>TurnedAway. CASE TurnedAway(h)
      BY <2>TurnedAway, <1>0 DEF TurnedAway
    <2>Overtaken. CASE Overtaken(h)
      BY <2>Overtaken, <1>0 DEF Overtaken
    <2>Refused. CASE Refused(h)
      BY <2>Refused, <1>0 DEF Refused
    <2>Owns. CASE Owns(h)
      BY <2>Owns, <1>0 DEF Owns
    <2>GoesOn. CASE GoesOn(h)
      BY <2>GoesOn, <1>0 DEF GoesOn
    <2>Starts. CASE Starts(h)
      BY <2>Starts, <1>0 DEF Starts
    <2>Tells. CASE Tells(h)
      BY <2>Tells, <1>0 DEF Tells
    <2>Undoes. CASE Undoes(h)
      BY <2>Undoes, <1>0 DEF Undoes
    <2>Finishes. CASE Finishes(h)
      BY <2>Finishes, <1>0 DEF Finishes
    <2> QED
      BY <1>h, <2>Submits, <2>AsksForEnd, <2>Takes, <2>WaitsOn, <2>TurnedAway, <2>Overtaken, <2>Refused, <2>Owns, <2>GoesOn, <2>Starts, <2>Tells, <2>Undoes, <2>Finishes DEF HandlerStep
  <1> QED
    BY <1>Stays, <1>Learns, <1>Expires, <1>WatcherMoves, <1>WatcherTakes, <1>WatcherFinishes, <1>h DEF Step

\* A bound session keeps its owner.
LEMMA SessionKept ==
  ASSUME Assumptions, DInv, Step
  PROVE  SessionHasOwner'
  <1> USE DEF handlerVars, watcherVars, SessionHasOwner
  <1>0. SessionHasOwner
    BY DEF DInv
  <1>Stays. CASE Stays
    BY <1>Stays, <1>0 DEF Stays
  <1>Learns. CASE Learns
    BY <1>Learns, <1>0 DEF Learns
  <1>Expires. CASE \E t \in Bound : Expires(t)
    BY <1>Expires, <1>0 DEF Expires
  <1>WatcherMoves. CASE WatcherMoves
    BY <1>WatcherMoves, <1>0 DEF WatcherMoves
  <1>WatcherTakes. CASE WatcherTakes
    BY <1>WatcherTakes, <1>0 DEF WatcherTakes
  <1>WatcherFinishes. CASE WatcherFinishes
    BY <1>WatcherFinishes, <1>0, Sessions DEF WatcherFinishes, GivesBack, Retire, Holding, SameSession, Undone
  <1>h. ASSUME NEW h \in Handlers, HandlerStep(h)
        PROVE  SessionHasOwner'
    <2>Submits. CASE \E r \in Requests : Submits(h, r)
      BY <2>Submits, <1>0 DEF Submits
    <2>AsksForEnd. CASE \E t \in Bound : AsksForEnd(h, t)
      BY <2>AsksForEnd, <1>0 DEF AsksForEnd
    <2>Takes. CASE Takes(h)
      BY <2>Takes, <1>0 DEF Takes
    <2>WaitsOn. CASE WaitsOn(h)
      BY <2>WaitsOn, <1>0 DEF WaitsOn
    <2>TurnedAway. CASE TurnedAway(h)
      BY <2>TurnedAway, <1>0 DEF TurnedAway
    <2>Overtaken. CASE Overtaken(h)
      BY <2>Overtaken, <1>0 DEF Overtaken
    <2>Refused. CASE Refused(h)
      BY <2>Refused, <1>0 DEF Refused
    <2>Owns. CASE Owns(h)
      BY <2>Owns, <1>0, Sessions DEF Owns, GivesBack, Retire, Holding, SameSession, Undone
    <2>GoesOn. CASE GoesOn(h)
      BY <2>GoesOn, <1>0 DEF GoesOn
    <2>Starts. CASE Starts(h)
      BY <2>Starts, <1>0, Sessions, ConnectingOwns DEF Starts
    <2>Tells. CASE Tells(h)
      BY <2>Tells, <1>0 DEF Tells
    <2>Undoes. CASE Undoes(h)
      BY <2>Undoes, <1>0 DEF Undoes
    <2>Finishes. CASE Finishes(h)
      BY <2>Finishes, <1>0, Sessions DEF Finishes, GivesBack, Retire, Holding, SameSession, Undone
    <2> QED
      BY <1>h, <2>Submits, <2>AsksForEnd, <2>Takes, <2>WaitsOn, <2>TurnedAway, <2>Overtaken, <2>Refused, <2>Owns, <2>GoesOn, <2>Starts, <2>Tells, <2>Undoes, <2>Finishes DEF HandlerStep
  <1> QED
    BY <1>Stays, <1>Learns, <1>Expires, <1>WatcherMoves, <1>WatcherTakes, <1>WatcherFinishes, <1>h DEF Step

\* A bound owner keeps the running session for itself.
LEMMA OwnerKept ==
  ASSUME Assumptions, DInv, Step
  PROVE  OwnerHasSession'
  <1> USE DEF handlerVars, watcherVars, OwnerHasSession, Goto, Answer, BoundCommands
  <1>0. /\ pc \in [Handlers -> Labels] /\ request \in [Handlers -> Requests \cup {NoRequest}]
        /\ result \in [Handlers -> BOOLEAN]
    BY Typed
  <1>1. /\ \A g \in Handlers : pc[g] \in Calls \cup {"confirmStop"} <=> execution = g
        /\ wpc \in Holding <=> execution = Watcher
        /\ Watcher \notin Handlers /\ None \notin Handlers /\ None \notin Targets
    BY DEF DInv, LockIsHeld, Assumptions, TargetsAssumption, Holding
  <1>2. OwnerHasSession
    BY DEF DInv
  <1>Stays. CASE Stays
    BY <1>Stays, <1>0, <1>1, <1>2 DEF Stays
  <1>Learns. CASE Learns
    BY <1>Learns, <1>0, <1>1, <1>2 DEF Learns
  <1>Expires. CASE \E t \in Bound : Expires(t)
    BY <1>Expires, <1>0, <1>1, <1>2 DEF Expires
  <1>WatcherMoves. CASE WatcherMoves
    BY <1>WatcherMoves, <1>0, <1>1, <1>2 DEF WatcherMoves
  <1>WatcherTakes. CASE WatcherTakes
    BY <1>WatcherTakes, <1>0, <1>1, <1>2, Sessions DEF WatcherTakes, GivesBack, Retire, Holding, SameSession, Undone, Calls
  <1>WatcherFinishes. CASE WatcherFinishes
    BY <1>WatcherFinishes, <1>0, <1>1, <1>2, Sessions DEF WatcherFinishes, GivesBack, Retire, Holding, SameSession, Undone, Calls
  <1>h. ASSUME NEW h \in Handlers, HandlerStep(h)
        PROVE  OwnerHasSession'
    <2>Submits. CASE \E r \in Requests : Submits(h, r)
      BY <2>Submits, <1>0, <1>1, <1>2 DEF Submits
    <2>AsksForEnd. CASE \E t \in Bound : AsksForEnd(h, t)
      BY <2>AsksForEnd, <1>0, <1>1, <1>2 DEF AsksForEnd
    <2>Takes. CASE Takes(h)
      BY <2>Takes, <1>0, <1>1, <1>2, Sessions DEF Takes, GivesBack, Retire, Holding, SameSession, Undone, Calls
    <2>WaitsOn. CASE WaitsOn(h)
      BY <2>WaitsOn, <1>0, <1>1, <1>2 DEF WaitsOn
    <2>TurnedAway. CASE TurnedAway(h)
      BY <2>TurnedAway, <1>0, <1>1, <1>2 DEF TurnedAway
    <2>Overtaken. CASE Overtaken(h)
      BY <2>Overtaken, <1>0, <1>1, <1>2 DEF Overtaken
    <2>Refused. CASE Refused(h)
      BY <2>Refused, <1>0, <1>1, <1>2, Sessions DEF Refused, GivesBack, Retire, Holding, SameSession, Undone, Calls
    <2>Owns. CASE Owns(h)
      BY <2>Owns, <1>0, <1>1, <1>2, Sessions DEF Owns, GivesBack, Retire, Holding, SameSession, Undone, Calls
    <2>GoesOn. CASE GoesOn(h)
      BY <2>GoesOn, <1>0, <1>1, <1>2 DEF GoesOn
    <2>Starts. CASE Starts(h)
      BY <2>Starts, <1>0, <1>1, <1>2, Sessions, ConnectingOwns DEF Starts, Calls
    <2>Tells. CASE Tells(h)
      BY <2>Tells, <1>0, <1>1, <1>2, Sessions DEF Tells, GivesBack, Retire, Holding, SameSession, Undone, Calls
    <2>Undoes. CASE Undoes(h)
      BY <2>Undoes, <1>0, <1>1, <1>2, Sessions DEF Undoes, GivesBack, Retire, Holding, SameSession, Undone, Calls
    <2>Finishes. CASE Finishes(h)
      BY <2>Finishes, <1>0, <1>1, <1>2, Sessions DEF Finishes, GivesBack, Retire, Holding, SameSession, Undone, Calls
    <2> QED
      BY <1>h, <2>Submits, <2>AsksForEnd, <2>Takes, <2>WaitsOn, <2>TurnedAway, <2>Overtaken, <2>Refused, <2>Owns, <2>GoesOn, <2>Starts, <2>Tells, <2>Undoes, <2>Finishes DEF HandlerStep
  <1> QED
    BY <1>Stays, <1>Learns, <1>Expires, <1>WatcherMoves, <1>WatcherTakes, <1>WatcherFinishes, <1>h DEF Step

\* The result of a bound connect agrees with the session.
LEMMA ResultKept ==
  ASSUME Assumptions, DInv, Step
  PROVE  ResultIsSession'
  <1> USE DEF handlerVars, watcherVars, ResultIsSession, Goto, Answer, NoRequest, BoundCommands
  <1>0. /\ pc \in [Handlers -> Labels] /\ request \in [Handlers -> Requests \cup {NoRequest}]
        /\ result \in [Handlers -> BOOLEAN]
    BY Typed
  <1>1. /\ \A g \in Handlers : pc[g] \in Calls \cup {"confirmStop"} <=> execution = g
        /\ wpc \in Holding <=> execution = Watcher
        /\ Watcher \notin Handlers /\ None \notin Handlers /\ None \notin Targets
    BY DEF DInv, LockIsHeld, Assumptions, TargetsAssumption, Holding
  <1>2. ResultIsSession
    BY DEF DInv
  <1>3. \A g \in Handlers, t \in Targets : Pending(g, t) => host.session # t
    BY DEF DInv, ConnectOwns, Pending
  <1>Stays. CASE Stays
    BY <1>Stays, <1>0, <1>1, <1>2 DEF Stays
  <1>Learns. CASE Learns
    BY <1>Learns, <1>0, <1>1, <1>2 DEF Learns
  <1>Expires. CASE \E t \in Bound : Expires(t)
    BY <1>Expires, <1>0, <1>1, <1>2 DEF Expires
  <1>WatcherMoves. CASE WatcherMoves
    BY <1>WatcherMoves, <1>0, <1>1, <1>2 DEF WatcherMoves
  <1>WatcherTakes. CASE WatcherTakes
    BY <1>WatcherTakes, <1>0, <1>1, <1>2 DEF WatcherTakes
  <1>WatcherFinishes. CASE WatcherFinishes
    BY <1>WatcherFinishes, <1>0, <1>1, <1>2, Sessions DEF WatcherFinishes, GivesBack, Retire, Holding, SameSession, Undone, Calls
  <1>h. ASSUME NEW h \in Handlers, HandlerStep(h)
        PROVE  ResultIsSession'
    <2>Submits. CASE \E r \in Requests : Submits(h, r)
      BY <2>Submits, <1>0, <1>1, <1>2 DEF Submits
    <2>AsksForEnd. CASE \E t \in Bound : AsksForEnd(h, t)
      BY <2>AsksForEnd, <1>0, <1>1, <1>2 DEF AsksForEnd
    <2>Takes. CASE Takes(h)
      BY <2>Takes, <1>0, <1>1, <1>2 DEF Takes
    <2>WaitsOn. CASE WaitsOn(h)
      BY <2>WaitsOn, <1>0, <1>1, <1>2 DEF WaitsOn
    <2>TurnedAway. CASE TurnedAway(h)
      BY <2>TurnedAway, <1>0, <1>1, <1>2 DEF TurnedAway
    <2>Overtaken. CASE Overtaken(h)
      BY <2>Overtaken, <1>0, <1>1, <1>2 DEF Overtaken
    <2>Refused. CASE Refused(h)
      BY <2>Refused, <1>0, <1>1, <1>2 DEF Refused
    <2>Owns. CASE Owns(h)
      BY <2>Owns, <1>0, <1>1, <1>2 DEF Owns
    <2>GoesOn. CASE GoesOn(h)
      BY <2>GoesOn, <1>0, <1>1, <1>2 DEF GoesOn
    <2>Starts. CASE Starts(h)
      <3>1. Pending(h, request[h].target) /\ request[h].target \in Targets
        BY <2>Starts, ConnectingOwns DEF Starts, Pending, Connects, Calls, Waits
      <3> QED
        BY <2>Starts, <1>0, <1>1, <1>2, <1>3, <3>1 DEF Starts, Calls
    <2>Tells. CASE Tells(h)
      BY <2>Tells, <1>0, <1>1, <1>2 DEF Tells
    <2>Undoes. CASE Undoes(h)
      BY <2>Undoes, <1>0, <1>1, <1>2 DEF Undoes
    <2>Finishes. CASE Finishes(h)
      BY <2>Finishes, <1>0, <1>1, <1>2, Sessions DEF Finishes, GivesBack, Retire, Holding, SameSession, Undone, Calls
    <2> QED
      BY <1>h, <2>Submits, <2>AsksForEnd, <2>Takes, <2>WaitsOn, <2>TurnedAway, <2>Overtaken, <2>Refused, <2>Owns, <2>GoesOn, <2>Starts, <2>Tells, <2>Undoes, <2>Finishes DEF HandlerStep
  <1> QED
    BY <1>Stays, <1>Learns, <1>Expires, <1>WatcherMoves, <1>WatcherTakes, <1>WatcherFinishes, <1>h DEF Step

\* The snapshot is stale only during a call.
LEMMA SnapshotKept ==
  ASSUME Assumptions, DInv, Step
  PROVE  SnapshotIsStale'
  <1> USE DEF handlerVars, watcherVars, SnapshotIsStale, Goto, Answer
  <1>0. /\ pc \in [Handlers -> Labels] /\ request \in [Handlers -> Requests \cup {NoRequest}]
        /\ result \in [Handlers -> BOOLEAN]
    BY Typed
  <1>1. /\ \A g \in Handlers : pc[g] \in Calls \cup {"confirmStop"} <=> execution = g
        /\ wpc \in Holding <=> execution = Watcher
        /\ Watcher \notin Handlers /\ None \notin Handlers /\ None \notin Targets
    BY DEF DInv, LockIsHeld, Assumptions, TargetsAssumption, Holding
  <1>2. SnapshotIsStale
    BY DEF DInv
  <1>Stays. CASE Stays
    BY <1>Stays, <1>0, <1>1, <1>2 DEF Stays
  <1>Learns. CASE Learns
    BY <1>Learns, <1>0, <1>1, <1>2 DEF Learns
  <1>Expires. CASE \E t \in Bound : Expires(t)
    BY <1>Expires, <1>0, <1>1, <1>2 DEF Expires
  <1>WatcherMoves. CASE WatcherMoves
    BY <1>WatcherMoves, <1>0, <1>1, <1>2 DEF WatcherMoves
  <1>WatcherTakes. CASE WatcherTakes
    BY <1>WatcherTakes, <1>0, <1>1, <1>2 DEF WatcherTakes, GivesBack, Calls, Holding
  <1>WatcherFinishes. CASE WatcherFinishes
    BY <1>WatcherFinishes, <1>0, <1>1, <1>2 DEF WatcherFinishes, GivesBack, Calls, Holding
  <1>h. ASSUME NEW h \in Handlers, HandlerStep(h)
        PROVE  SnapshotIsStale'
    <2>Submits. CASE \E r \in Requests : Submits(h, r)
      BY <2>Submits, <1>0, <1>1, <1>2 DEF Submits, GivesBack, Calls, Holding
    <2>AsksForEnd. CASE \E t \in Bound : AsksForEnd(h, t)
      BY <2>AsksForEnd, <1>0, <1>1, <1>2 DEF AsksForEnd, GivesBack, Calls, Holding
    <2>Takes. CASE Takes(h)
      BY <2>Takes, <1>0, <1>1, <1>2 DEF Takes, GivesBack, Calls, Holding
    <2>WaitsOn. CASE WaitsOn(h)
      BY <2>WaitsOn, <1>0, <1>1, <1>2 DEF WaitsOn, GivesBack, Calls, Holding
    <2>TurnedAway. CASE TurnedAway(h)
      BY <2>TurnedAway, <1>0, <1>1, <1>2 DEF TurnedAway, GivesBack, Calls, Holding
    <2>Overtaken. CASE Overtaken(h)
      BY <2>Overtaken, <1>0, <1>1, <1>2 DEF Overtaken, GivesBack, Calls, Holding
    <2>Refused. CASE Refused(h)
      BY <2>Refused, <1>0, <1>1, <1>2 DEF Refused, GivesBack, Calls, Holding
    <2>Owns. CASE Owns(h)
      BY <2>Owns, <1>0, <1>1, <1>2 DEF Owns, GivesBack, Calls, Holding
    <2>GoesOn. CASE GoesOn(h)
      BY <2>GoesOn, <1>0, <1>1, <1>2 DEF GoesOn, GivesBack, Calls, Holding
    <2>Starts. CASE Starts(h)
      BY <2>Starts, <1>0, <1>1, <1>2 DEF Starts, GivesBack, Calls, Holding
    <2>Tells. CASE Tells(h)
      BY <2>Tells, <1>0, <1>1, <1>2 DEF Tells, GivesBack, Calls, Holding
    <2>Undoes. CASE Undoes(h)
      BY <2>Undoes, <1>0, <1>1, <1>2 DEF Undoes, GivesBack, Calls, Holding
    <2>Finishes. CASE Finishes(h)
      BY <2>Finishes, <1>0, <1>1, <1>2 DEF Finishes, GivesBack, Calls, Holding
    <2> QED
      BY <1>h, <2>Submits, <2>AsksForEnd, <2>Takes, <2>WaitsOn, <2>TurnedAway, <2>Overtaken, <2>Refused, <2>Owns, <2>GoesOn, <2>Starts, <2>Tells, <2>Undoes, <2>Finishes DEF HandlerStep
  <1> QED
    BY <1>Stays, <1>Learns, <1>Expires, <1>WatcherMoves, <1>WatcherTakes, <1>WatcherFinishes, <1>h DEF Step

\* What was retired, refused or called settled stays gone.
LEMMA RetiredKept ==
  ASSUME Assumptions, DInv, Step
  PROVE  RetiredIsGone'
  <1> USE DEF handlerVars, watcherVars, RetiredIsGone, Gone, Connects, Goto, Answer, Calls, Waits, NoRequest
  <1>0. /\ pc \in [Handlers -> Labels] /\ request \in [Handlers -> Requests \cup {NoRequest}]
        /\ result \in [Handlers -> BOOLEAN]
    BY Typed
  <1>1. /\ \A g \in Handlers : pc[g] \in Calls \cup {"confirmStop"} <=> execution = g
        /\ wpc \in Holding <=> execution = Watcher
        /\ Watcher \notin Handlers /\ None \notin Handlers /\ None \notin Targets
    BY DEF DInv, LockIsHeld, Assumptions, TargetsAssumption, Holding
  <1>2. RetiredIsGone
    BY DEF DInv
  <1>3. \A g \in Handlers : pc[g] \in Waits \cup Calls /\ request[g].command = "connect" =>
          /\ request[g].target \in Targets
          /\ request[g] = [command |-> "connect", target |-> request[g].target]
    BY DEF DInv, RequestIsKept, Requests, TargetCommands, Commands
  <1>4. /\ active \in begun \cup {None} /\ host.session \in begun \cup {None}
        /\ \A g \in Handlers, t \in Targets : Connects(g, t) =>
             /\ t \in begun
             /\ pc[g] \in {"run", "after", "undo"} => active = t
             /\ pc[g] \notin {"run", "after", "undo"} => active # t /\ host.session # t
        /\ \A f, g \in Handlers, t \in Targets : Connects(f, t) /\ Connects(g, t) => f = g
    BY DEF DInv, ConnectsOnce, ConnectOwns, Pending
  <1>Stays. CASE Stays
    BY <1>Stays, <1>0, <1>1, <1>2 DEF Stays
  <1>Learns. CASE Learns
    BY <1>Learns, <1>0, <1>1, <1>2 DEF Learns
  <1>Expires. CASE \E t \in Bound : Expires(t)
    BY <1>Expires, <1>0, <1>1, <1>2, <1>3, <1>4, Sessions DEF Expires, Pending
  <1>WatcherMoves. CASE WatcherMoves
    BY <1>WatcherMoves, <1>0, <1>1, <1>2 DEF WatcherMoves
  <1>WatcherTakes. CASE WatcherTakes
    BY <1>WatcherTakes, <1>0, <1>1, <1>2 DEF WatcherTakes
  <1>WatcherFinishes. CASE WatcherFinishes
    BY <1>WatcherFinishes, <1>0, <1>1, <1>2, <1>4, Sessions DEF WatcherFinishes, GivesBack, Retire, Holding, SameSession, Undone
  <1>h. ASSUME NEW h \in Handlers, HandlerStep(h)
        PROVE  RetiredIsGone'
    <2>Submits. CASE \E r \in Requests : Submits(h, r)
      BY <2>Submits, <1>0, <1>1, <1>2, <1>3, <1>4, Sessions DEF Submits, Pending
    <2>AsksForEnd. CASE \E t \in Bound : AsksForEnd(h, t)
      BY <2>AsksForEnd, <1>0, <1>1, <1>2 DEF AsksForEnd
    <2>Takes. CASE Takes(h)
      BY <2>Takes, <1>0, <1>1, <1>2 DEF Takes
    <2>WaitsOn. CASE WaitsOn(h)
      BY <2>WaitsOn, <1>0, <1>1, <1>2 DEF WaitsOn
    <2>TurnedAway. CASE TurnedAway(h)
      BY <2>TurnedAway, <1>0, <1>1, <1>2, <1>3, <1>4, Sessions DEF TurnedAway, Pending
    <2>Overtaken. CASE Overtaken(h)
      BY <2>Overtaken, <1>0, <1>1, <1>2 DEF Overtaken
    <2>Refused. CASE Refused(h)
      BY <2>Refused, <1>0, <1>1, <1>2, <1>3, <1>4, Sessions DEF Refused, Pending
    <2>Owns. CASE Owns(h)
      BY <2>Owns, <1>0, <1>1, <1>2, <1>3, <1>4, Sessions DEF Owns, Pending
    <2>GoesOn. CASE GoesOn(h)
      BY <2>GoesOn, <1>0, <1>1, <1>2 DEF GoesOn
    <2>Starts. CASE Starts(h)
      BY <2>Starts, <1>0, <1>1, <1>2, <1>3, <1>4, Sessions DEF Starts, Pending
    <2>Tells. CASE Tells(h)
      BY <2>Tells, <1>0, <1>1, <1>2 DEF Tells
    <2>Undoes. CASE Undoes(h)
      BY <2>Undoes, <1>0, <1>1, <1>2 DEF Undoes
    <2>Finishes. CASE Finishes(h)
      BY <2>Finishes, <1>0, <1>1, <1>2, <1>4, Sessions DEF Finishes, GivesBack, Retire, Holding, SameSession, Undone
    <2> QED
      BY <1>h, <2>Submits, <2>AsksForEnd, <2>Takes, <2>WaitsOn, <2>TurnedAway, <2>Overtaken, <2>Refused, <2>Owns, <2>GoesOn, <2>Starts, <2>Tells, <2>Undoes, <2>Finishes DEF HandlerStep
  <1> QED
    BY <1>Stays, <1>Learns, <1>Expires, <1>WatcherMoves, <1>WatcherTakes, <1>WatcherFinishes, <1>h DEF Step

\* The locks, the owner, the session and the threads keep their types.
LEMMA ControlKept ==
  ASSUME Assumptions, DInv, Step
  PROVE  ControlTypes'
  <1> USE DEF handlerVars, watcherVars, Goto, Answer, Watched
  <1>0. ControlTypes
    BY DEF DInv, TypeOK, ControlTypes, Labels
  <1>1. NoRequest \in Requests \cup {NoRequest}
    OBVIOUS
  <1>2. \A g \in Handlers : pc[g] \in Waits \cup Calls /\ request[g].command = "connect" =>
          request[g].target \in Targets
    BY DEF DInv, RequestIsKept, Requests, TargetCommands, Commands
  <1>3. ASSUME GivesBack
        PROVE  /\ execution' = None /\ active' \in Targets \cup {None}
               /\ stopped' \in Targets \cup {None} /\ snapshot' \in Phases \cup {"busy"}
               /\ host' \in Hosts /\ begun' \subseteq Targets /\ confirmed' \subseteq Targets
    <2>1. host' \in Hosts /\ snapshot' \in Phases
      BY <1>3 DEF GivesBack, Sound, Hosts
    <2>2. active' \in Targets \cup {None} /\ stopped' \in Targets \cup {None}
      BY <1>0, <1>3 DEF GivesBack, Retire, ControlTypes
    <2>3. confirmed' \subseteq Targets
      BY <1>0, <1>3, Sessions DEF GivesBack, ControlTypes
    <2> QED
      BY <1>0, <1>3, <2>1, <2>2, <2>3 DEF GivesBack, ControlTypes
  <1>Stays. CASE Stays
    BY <1>Stays, <1>0 DEF Stays, ControlTypes
  <1>Learns. CASE Learns
    BY <1>Learns, <1>0 DEF Learns, ControlTypes
  <1>Expires. CASE \E t \in Bound : Expires(t)
    BY <1>Expires, <1>0, Sessions DEF Expires, ControlTypes
  <1>WatcherMoves. CASE WatcherMoves
    BY <1>WatcherMoves, <1>0 DEF WatcherMoves, ControlTypes
  <1>WatcherTakes. CASE WatcherTakes
    BY <1>WatcherTakes, <1>0 DEF WatcherTakes, ControlTypes, Holding
  <1>WatcherFinishes. CASE WatcherFinishes
    BY <1>WatcherFinishes, <1>0, <1>1, <1>3 DEF WatcherFinishes, ControlTypes, Labels
  <1>h. ASSUME NEW h \in Handlers, HandlerStep(h)
        PROVE  ControlTypes'
    <2>Submits. CASE \E r \in Requests : Submits(h, r)
      BY <2>Submits, <1>0, <1>1 DEF Submits, ControlTypes, Labels
    <2>AsksForEnd. CASE \E t \in Bound : AsksForEnd(h, t)
      BY <2>AsksForEnd, <1>0, <1>1, Sessions DEF AsksForEnd, ControlTypes, Labels, Requests, TargetCommands
    <2>Takes. CASE Takes(h)
      BY <2>Takes, <1>0, <1>1 DEF Takes, ControlTypes, Labels
    <2>WaitsOn. CASE WaitsOn(h)
      BY <2>WaitsOn, <1>0, <1>1 DEF WaitsOn, ControlTypes, Labels
    <2>TurnedAway. CASE TurnedAway(h)
      BY <2>TurnedAway, <1>0, <1>2 DEF TurnedAway, ControlTypes, Labels, NoRequest, Calls, Waits
    <2>Overtaken. CASE Overtaken(h)
      BY <2>Overtaken, <1>0, <1>1 DEF Overtaken, ControlTypes, Labels
    <2>Refused. CASE Refused(h)
      BY <2>Refused, <1>0, <1>2 DEF Refused, ControlTypes, Labels, NoRequest, Calls, Waits
    <2>Owns. CASE Owns(h)
      BY <2>Owns, <1>0, <1>2 DEF Owns, ControlTypes, Labels, NoRequest, Calls, Waits
    <2>GoesOn. CASE GoesOn(h)
      BY <2>GoesOn, <1>0, Sessions DEF GoesOn, ControlTypes, Labels, Sound, Hosts
    <2>Starts. CASE Starts(h)
      BY <2>Starts, <1>0 DEF Starts, ControlTypes, Labels, Sound
    <2>Tells. CASE Tells(h)
      BY <2>Tells, <1>0 DEF Tells, ControlTypes, Labels
    <2>Undoes. CASE Undoes(h)
      BY <2>Undoes, <1>0, <1>1 DEF Undoes, ControlTypes, Labels
    <2>Finishes. CASE Finishes(h)
      BY <2>Finishes, <1>0, <1>1, <1>3 DEF Finishes, ControlTypes, Labels
    <2> QED
      BY <1>h, <2>Submits, <2>AsksForEnd, <2>Takes, <2>WaitsOn, <2>TurnedAway, <2>Overtaken, <2>Refused, <2>Owns, <2>GoesOn, <2>Starts, <2>Tells, <2>Undoes, <2>Finishes DEF HandlerStep
  <1> QED
    BY <1>Stays, <1>Learns, <1>Expires, <1>WatcherMoves, <1>WatcherTakes, <1>WatcherFinishes, <1>h DEF Step

-----------------------------------------------------------------------------
(* The operations.                                                         *)

\* At most one operation changes, and no leased one is handed over.
OperationStep ==
  \/ UNCHANGED op
  \/ \E t \in Targets, q \in Operations :
       /\ SetOp(t, q)
       /\ t \in Leased => q.handoff = op[t].handoff

\* Marking an operation keeps it one.
LEMMA MarkedFacts ==
  ASSUME NEW o \in Operations, NEW b \in BOOLEAN
  PROVE  /\ Continues(o, [o EXCEPT !.attempted = b]) /\ Continues(o, [o EXCEPT !.maintained = b])
         /\ Continues(o, [o EXCEPT !.dpiCut = b])
         /\ [o EXCEPT !.terminated = b] \in Operations
         /\ [o EXCEPT !.terminated = b].handoff = o.handoff
  <1>1. /\ [o EXCEPT !.attempted = b] \in Operations /\ [o EXCEPT !.maintained = b] \in Operations
        /\ [o EXCEPT !.dpiCut = b] \in Operations /\ [o EXCEPT !.terminated = b] \in Operations
    BY DEF Operations
  <1>2. ASSUME NEW q \in {[o EXCEPT !.attempted = b], [o EXCEPT !.maintained = b],
                          [o EXCEPT !.dpiCut = b]}
        PROVE  /\ q.handoff = o.handoff /\ q.revision = o.revision /\ q.promoted = o.promoted
               /\ q.terminated = o.terminated /\ q.cancelled = o.cancelled /\ q.expired = o.expired
    BY DEF Operations
  <1>3. [o EXCEPT !.terminated = b].handoff = o.handoff
    BY DEF Operations
  <1> QED
    BY <1>1, <1>2, <1>3 DEF Continues, Stopping

\* Setting an operation to one that continues it.
LEMMA ContinuesIsStep ==
  ASSUME NEW t \in Targets, NEW o, o = op[t], NEW q, Continues(o, q), SetOp(t, q)
  PROVE  OperationStep
  BY DEF Continues, OperationStep

LEMMA ProjectedStep ==
  ASSUME Assumptions, DInv, ProjectBoundState
  PROVE  OperationStep
  <1>1. CASE active = None
    BY <1>1 DEF ProjectBoundState, OperationStep
  <1>2. CASE active # None
    <2>1. active \in Targets /\ op[active] \in Operations
      BY <1>2, Sessions
    <2>2. SetOp(active, Projected(op[active], active))
      BY <1>2 DEF ProjectBoundState
    <2> QED
      BY <2>1, <2>2, ProjectedFacts, ContinuesIsStep
  <1> QED
    BY <1>1, <1>2

LEMMA AskingOperations ==
  ASSUME Assumptions, DInv, NEW h \in Handlers, Asks(h)
  PROVE  OperationStep
  <1>1. CASE Status(h)
    <2>1. CASE active = None
      BY <1>1, <2>1 DEF Status, OperationStep
    <2>2. CASE active # None
      <3>1. active \in Targets /\ op[active] \in Operations
        BY <2>2, Sessions
      <3> DEFINE q == Refreshed(op[active], active)
      <3>2. Continues(op[active], q) /\ q \in Operations
        BY <3>1, RefreshedFacts DEF Continues
      <3>3. SetOp(active, Projected(q, active))
        BY <1>1, <2>2 DEF Status
      <3> HIDE DEF q
      <3>4. Continues(op[active], Projected(q, active))
        BY <3>1, <3>2, ProjectedFacts, ContinuesIsTransitive
      <3> QED
        BY <3>1, <3>3, <3>4, ContinuesIsStep
    <2> QED
      BY <2>1, <2>2
  <1>2. ASSUME NEW t \in begun, Cancel(h, t)
        PROVE  OperationStep
    <2>1. t \in Targets /\ op[t] \in Operations
      BY Sessions DEF DInv, TypeOK
    <2> DEFINE q == Interrupt(op[t], "cancelled")
    <2>2. Continues(op[t], q) /\ q \in Operations
      BY <2>1, InterruptFacts DEF Continues, Causes
    <2>3. UNCHANGED op \/ SetOp(t, [q EXCEPT !.attempted = FALSE])
      BY <1>2 DEF Cancel
    <2> HIDE DEF q
    <2>4. Continues(op[t], [q EXCEPT !.attempted = FALSE])
      <3> DEFINE b == FALSE
      <3>1. b \in BOOLEAN
        OBVIOUS
      <3> HIDE DEF b
      <3>2. Continues(q, [q EXCEPT !.attempted = b])
        BY <2>2, <3>1, MarkedFacts
      <3> QED
        BY <2>2, <3>2, ContinuesIsTransitive DEF b
    <2> QED
      BY <2>1, <2>3, <2>4, ContinuesIsStep DEF OperationStep
  <1>3. ASSUME NEW t \in begun, CancelAndConfirm(h, t)
        PROVE  OperationStep
    <2>1. t \in Targets /\ op[t] \in Operations
      BY Sessions DEF DInv, TypeOK
    <2>2. Continues(op[t], Interrupt(op[t], "cancelled"))
      BY <2>1, InterruptFacts DEF Causes
    <2>3. UNCHANGED op \/ SetOp(t, Interrupt(op[t], "cancelled"))
      BY <1>3 DEF CancelAndConfirm
    <2> QED
      BY <2>1, <2>2, <2>3, ContinuesIsStep DEF OperationStep
  <1>4. ASSUME NEW r \in Requests, Submit(h, r)
        PROVE  OperationStep
    BY <1>4 DEF Submit, OperationStep
  <1> QED
    BY <1>1, <1>2, <1>3, <1>4 DEF Asks

\* A step that marks the operation of a target.
LEMMA MarkingStep ==
  ASSUME Assumptions, DInv, NEW t \in Targets, NEW q, Continues(op[t], q), NEW b \in BOOLEAN,
         \/ SetOp(t, [q EXCEPT !.attempted = b]) \/ SetOp(t, [q EXCEPT !.maintained = b])
         \/ SetOp(t, [q EXCEPT !.dpiCut = b]) \/ SetOp(t, [q EXCEPT !.terminated = b])
         \/ SetOp(t, Projected([q EXCEPT !.attempted = b], t))
  PROVE  OperationStep
  <1>1. q \in Operations /\ q.handoff = op[t].handoff
    BY DEF Continues
  <1>2. CASE SetOp(t, [q EXCEPT !.terminated = b])
    <2> DEFINE p == [q EXCEPT !.terminated = b]
    <2>1. p \in Operations /\ p.handoff = op[t].handoff
      BY <1>1, MarkedFacts
    <2>2. SetOp(t, p)
      BY <1>2
    <2> HIDE DEF p
    <2> QED
      BY <2>1, <2>2 DEF OperationStep
  <1>3. CASE SetOp(t, [q EXCEPT !.attempted = b])
    BY <1>1, <1>3, MarkedFacts, ContinuesIsTransitive, ContinuesIsStep
  <1>4. CASE SetOp(t, [q EXCEPT !.maintained = b])
    BY <1>1, <1>4, MarkedFacts, ContinuesIsTransitive, ContinuesIsStep
  <1>5. CASE SetOp(t, [q EXCEPT !.dpiCut = b])
    BY <1>1, <1>5, MarkedFacts, ContinuesIsTransitive, ContinuesIsStep
  <1>6. CASE SetOp(t, Projected([q EXCEPT !.attempted = b], t))
    <2> DEFINE p == [q EXCEPT !.attempted = b]
    <2>1. Continues(q, p)
      BY <1>1, MarkedFacts
    <2>2. p \in Operations
      BY <2>1 DEF Continues
    <2> HIDE DEF p
    <2>3. Continues(p, Projected(p, t))
      BY <2>2, ProjectedFacts
    <2>4. Continues(op[t], Projected(p, t))
      BY <2>1, <2>3, ContinuesIsTransitive
    <2> QED
      BY <1>6, <2>4, ContinuesIsStep DEF p
  <1> QED
    BY <1>2, <1>3, <1>4, <1>5, <1>6

\* Where a handler or the watcher works on an operation, it is one.
LEMMA Worked ==
  ASSUME Assumptions, DInv
  PROVE  /\ \A t \in Targets : op[t] \in Operations /\ Continues(op[t], op[t])
         /\ \A h \in Handlers : pc[h] \in Calls /\ request[h].command \in BoundCommands \cup {"connect"} =>
              request[h].target \in Targets
         /\ \A h \in Handlers : pc[h] = "confirmLock" => request[h].target \in Targets
         /\ wpc \in {"maintain", "maintainTry", "maintaining", "bound", "cleanLock"} => wop \in Targets
         /\ TRUE \in BOOLEAN /\ FALSE \in BOOLEAN
  <1>1. \A t \in Targets : op[t] \in Operations
    BY Sessions
  <1>2. \A h \in Handlers : pc[h] \in Calls /\ request[h].command \in BoundCommands \cup {"connect"} =>
              request[h].target \in Targets
    BY DEF DInv, RequestIsKept, Requests, TargetCommands, Commands, BoundCommands
  <1>3. \A h \in Handlers : pc[h] = "confirmLock" => request[h].target \in Targets
    BY DEF DInv, RequestIsKept, Assumptions, TargetsAssumption
  <1>4. wpc \in {"maintain", "maintainTry", "maintaining", "bound", "cleanLock"} => wop \in Targets
    BY DEF DInv, PickIsKept, Assumptions, TargetsAssumption
  <1> QED
    BY <1>1, <1>2, <1>3, <1>4 DEF Continues

\* The operation of an admitted connect.
LEMMA AdmittedFacts ==
  ASSUME Assumptions, DInv, NEW t \in Targets, NEW owned \in BOOLEAN
  PROVE  Admitted(t, owned) \in Operations /\ ~Admitted(t, owned).handoff
  <1> DEFINE x == owned /\ t \in Dpi
             y == owned /\ t \in Telegram
             z == t \in Replacing \/ host.armed
  <1>1. x \in BOOLEAN /\ y \in BOOLEAN /\ z \in BOOLEAN /\ revision \in 0..MaxEvents
    BY DEF DInv, TypeOK
  <1>2. NewOperation \in Operations
    BY DEF NewOperation, Operations, Causes, Assumptions, BoundsAssumption
  <1>3. Admitted(t, owned) = [NewOperation EXCEPT !.revision = revision, !.dpi = x,
                                                  !.telegram = y, !.protected = z]
    BY DEF Admitted
  <1> HIDE DEF x, y, z
  <1>4. [NewOperation EXCEPT !.revision = revision, !.dpi = x, !.telegram = y, !.protected = z]
          \in Operations
    BY <1>1, <1>2 DEF Operations
  <1>5. ~[NewOperation EXCEPT !.revision = revision, !.dpi = x, !.telegram = y,
                              !.protected = z].handoff
    BY DEF NewOperation
  <1> QED
    BY <1>3, <1>4, <1>5

LEMMA ConnectOperations ==
  ASSUME Assumptions, DInv, NEW h \in Handlers,
         RegisterConnect(h) \/ RunConnect(h) \/ AfterConnect(h) \/ UndoConnect(h)
  PROVE  OperationStep
  <1> DEFINE t == request[h].target
  <1>1. t \in Targets /\ op[t] \in Operations /\ Continues(op[t], op[t])
    BY Worked DEF RegisterConnect, RunConnect, AfterConnect, UndoConnect, Calls
  <1> HIDE DEF t
  <1>2. CASE RegisterConnect(h)
    <2>1. CASE Refuse(h)
      BY <2>1, ProjectedStep DEF Refuse
    <2>2. ASSUME NEW seen \in {FALSE, (t \in Dpi \cup Telegram)}, SetOp(t, Admitted(t, seen /\ alive[t]))
          PROVE  OperationStep
      <3> DEFINE owned == seen /\ alive[t]
      <3>1. owned \in BOOLEAN
        OBVIOUS
      <3>2. SetOp(t, Admitted(t, owned))
        BY <2>2
      <3> HIDE DEF owned
      <3>3. Admitted(t, owned) \in Operations /\ ~Admitted(t, owned).handoff
        BY <1>1, <3>1, AdmittedFacts
      <3>4. t \in Leased => ~op[t].handoff /\ op[t].handoff \in BOOLEAN /\ Admitted(t, owned).handoff \in BOOLEAN
        BY <1>1, <3>3 DEF DInv, LeasedKeepsLease, Operations
      <3>5. t \in Leased => Admitted(t, owned).handoff = op[t].handoff
        BY <3>3, <3>4
      <3> QED
        BY <1>1, <3>2, <3>3, <3>5 DEF OperationStep
    <2> QED
      BY <1>2, <2>1, <2>2 DEF RegisterConnect, t
  <1>3. CASE RunConnect(h)
    <2>1. UNCHANGED op \/ SetOp(t, Polled(op[t], t))
      BY <1>3 DEF RunConnect, t
    <2> QED
      BY <1>1, <2>1, PolledFacts, ContinuesIsStep DEF OperationStep
  <1>4. CASE AfterConnect(h)
    <2> DEFINE q == Settled(op[t], t)
               b == q.attempted \/ ~result[h]
    <2>1. Continues(op[t], q) /\ b \in BOOLEAN
      BY <1>1, PolledFacts
    <2>2. SetOp(t, q) \/ SetOp(t, Projected([q EXCEPT !.attempted = @ \/ ~result[h]], t))
      BY <1>4 DEF AfterConnect, t
    <2>3. q \in Operations
      BY <2>1 DEF Continues
    <2>4. [q EXCEPT !.attempted = @ \/ ~result[h]] = [q EXCEPT !.attempted = b]
      BY <2>3 DEF Operations
    <2>5. SetOp(t, q) \/ SetOp(t, Projected([q EXCEPT !.attempted = b], t))
      BY <2>2, <2>4
    <2> HIDE DEF q, b
    <2> QED
      BY <1>1, <2>1, <2>5, ContinuesIsStep, MarkingStep
  <1>5. CASE UndoConnect(h)
    <2> DEFINE b == TRUE
    <2>1. UNCHANGED op \/ SetOp(t, [op[t] EXCEPT !.attempted = b])
      BY <1>5 DEF UndoConnect, t
    <2>2. b \in BOOLEAN
      OBVIOUS
    <2> HIDE DEF b
    <2> QED
      BY <1>1, <2>1, <2>2, MarkingStep DEF OperationStep
  <1> QED
    BY <1>2, <1>3, <1>4, <1>5

LEMMA BoundOperations ==
  ASSUME Assumptions, DInv, NEW h \in Handlers,
         RegisterBound(h) \/ RunBound(h) \/ AfterBound(h) \/ UndoBound(h)
  PROVE  OperationStep
  <1> DEFINE t == request[h].target
             command == request[h].command
             q == Refreshed(op[t], t)
  <1>1. t \in Targets /\ op[t] \in Operations /\ Continues(op[t], op[t])
    BY Worked DEF RegisterBound, RunBound, AfterBound, UndoBound, Calls
  <1>2. Continues(op[t], q) /\ q \in Operations
    BY <1>1, RefreshedFacts DEF Continues
  <1>3. CASE RegisterBound(h)
    <2> DEFINE b == q.terminated \/ command = "terminate"
    <2>1. UNCHANGED op \/ SetOp(t, q) \/ SetOp(t, [q EXCEPT !.terminated = @ \/ command = "terminate"])
      BY <1>3 DEF RegisterBound
    <2> HIDE DEF q, t, command
    <2>2. [q EXCEPT !.terminated = @ \/ command = "terminate"] = [q EXCEPT !.terminated = b]
      BY <1>2 DEF Operations
    <2>3. b \in BOOLEAN
      OBVIOUS
    <2> HIDE DEF b
    <2> QED
      BY <1>1, <1>2, <2>1, <2>2, <2>3, MarkingStep, ContinuesIsStep DEF OperationStep
  <1>4. CASE RunBound(h)
    BY <1>4 DEF RunBound, ownerVars, OperationStep
  <1>5. CASE AfterBound(h)
    <2> DEFINE current == active = t /\ ~Stopping(q)
               x == q.promoted \/ command = "promote"
               y == q.handoff \/ (command = "configure" /\ t \notin Leased /\ result[h]
                                  /\ current /\ Admissible("configure", t))
               done == [q EXCEPT !.promoted = x, !.handoff = y]
    <2>1. [q EXCEPT !.promoted = @ \/ command = "promote",
                    !.handoff = @ \/ (command = "configure" /\ t \notin Leased /\ result[h]
                                      /\ current /\ Admissible("configure", t))] = done
      BY <1>2 DEF Operations
    <2>2. SetOp(t, q) \/ SetOp(t, done) \/ SetOp(t, Projected(done, t))
      BY <1>5, <2>1 DEF AfterBound
    <2>3. x \in BOOLEAN /\ y \in BOOLEAN /\ (t \in Leased /\ y => q.handoff)
      OBVIOUS
    <2> HIDE DEF x, y, q, t, command
    <2>4. done \in Operations /\ done.handoff = y
      BY <1>2, <2>3 DEF Operations
    <2>5. t \in Leased => ~y
      BY <1>1, <1>2, <2>3 DEF DInv, LeasedKeepsLease, Continues
    <2> HIDE DEF done
    <2>6. t \in Leased => op[t].handoff = FALSE /\ done.handoff = FALSE
      BY <1>1, <2>3, <2>4, <2>5 DEF DInv, LeasedKeepsLease, Operations
    <2>7. CASE SetOp(t, q)
      BY <1>1, <1>2, <2>7, ContinuesIsStep
    <2>8. CASE SetOp(t, done)
      BY <1>1, <2>4, <2>6, <2>8 DEF OperationStep
    <2>9. CASE SetOp(t, Projected(done, t))
      <3>1. Projected(done, t) \in Operations /\ Projected(done, t).handoff = done.handoff
        BY <1>1, <2>4, ProjectedFacts DEF Continues
      <3> QED
        BY <1>1, <2>6, <2>9, <3>1 DEF OperationStep
    <2> QED
      BY <2>2, <2>7, <2>8, <2>9
  <1>6. CASE UndoBound(h)
    <2> DEFINE b == TRUE
    <2>1. UNCHANGED op \/ SetOp(t, [op[t] EXCEPT !.attempted = b])
      BY <1>6 DEF UndoBound, ownerVars
    <2>2. b \in BOOLEAN
      OBVIOUS
    <2> HIDE DEF b, t
    <2> QED
      BY <1>1, <2>1, <2>2, MarkingStep DEF OperationStep
  <1> QED
    BY <1>3, <1>4, <1>5, <1>6

LEMMA OtherOperations ==
  ASSUME Assumptions, DInv, NEW h \in Handlers,
         \/ TryLock(h) \/ Contended(h) \/ Join(h) \/ ConfirmLock(h) \/ ConfirmStop(h)
         \/ RegisterOther(h) \/ RunOther(h)
  PROVE  OperationStep
  <1> DEFINE b == TRUE
  <1>0. b \in BOOLEAN
    OBVIOUS
  <1>1. CASE TryLock(h) \/ Join(h) \/ ConfirmStop(h)
    BY <1>1 DEF TryLock, Join, ConfirmStop, ownerVars, OperationStep
  <1>2. CASE Contended(h)
    <2>1. \/ UNCHANGED op \/ ProjectBoundState
          \/ active # None /\ SetOp(active, [op[active] EXCEPT !.dpiCut = b])
      BY <1>2 DEF Contended, MaintainedNow
    <2> HIDE DEF b
    <2>2. CASE active # None /\ SetOp(active, [op[active] EXCEPT !.dpiCut = b])
      BY <1>0, <2>2, Sessions, Worked, MarkingStep
    <2> QED
      BY <2>1, <2>2, ProjectedStep DEF OperationStep
  <1>3. CASE ConfirmLock(h)
    <2> DEFINE t == request[h].target
    <2>1. UNCHANGED op \/ SetOp(t, [op[t] EXCEPT !.attempted = b])
      BY <1>3 DEF ConfirmLock
    <2>2. t \in Targets /\ Continues(op[t], op[t])
      BY <1>3, Worked DEF ConfirmLock
    <2> HIDE DEF b, t
    <2> QED
      BY <1>0, <2>1, <2>2, MarkingStep DEF OperationStep
  <1>4. CASE RegisterOther(h)
    BY <1>4, ProjectedStep DEF RegisterOther, Refuse, OperationStep
  <1>5. CASE RunOther(h)
    <2>1. \/ UNCHANGED op \/ ProjectBoundState
          \/ active # None /\ SetOp(active, Projected([op[active] EXCEPT !.attempted = b], active))
      BY <1>5 DEF RunOther
    <2> HIDE DEF b
    <2>2. CASE active # None /\ SetOp(active, Projected([op[active] EXCEPT !.attempted = b], active))
      BY <1>0, <2>2, Sessions, Worked, MarkingStep
    <2> QED
      BY <2>1, <2>2, ProjectedStep DEF OperationStep
  <1> QED
    BY <1>1, <1>2, <1>3, <1>4, <1>5

LEMMA WatcherOperations ==
  ASSUME Assumptions, DInv, Watches \/ CleanLock
  PROVE  OperationStep
  <1>1. CASE Pick \/ Clean \/ CheckRunningEgress \/ TryEgress \/ Checked
    BY <1>1 DEF Pick, Clean, CheckRunningEgress, TryEgress, Checked, ownerVars, OperationStep
  <1>2. CASE Maintain
    <2> DEFINE q == Refreshed(op[wop], wop)
               b == (active = wop /\ ~closing) /\ q.dpi
    <2>1. wop \in Targets /\ op[wop] \in Operations
      BY <1>2, Worked DEF Maintain
    <2>2. Continues(op[wop], q) /\ b \in BOOLEAN
      BY <2>1, RefreshedFacts DEF Continues, Operations
    <2>3. SetOp(wop, [q EXCEPT !.maintained = b])
      BY <1>2 DEF Maintain
    <2> HIDE DEF q, b
    <2> QED
      BY <2>1, <2>2, <2>3, MarkingStep
  <1>3. CASE TryMaintain
    <2> DEFINE b == FALSE
    <2>1. UNCHANGED op \/ SetOp(wop, [op[wop] EXCEPT !.maintained = b])
      BY <1>3 DEF TryMaintain
    <2>2. wop \in Targets /\ Continues(op[wop], op[wop]) /\ b \in BOOLEAN
      BY <1>3, Worked DEF TryMaintain
    <2> HIDE DEF b
    <2> QED
      BY <2>1, <2>2, MarkingStep DEF OperationStep
  <1>4. CASE Maintaining
    <2> DEFINE fresh == Refreshed(op[wop], wop)
               polled == IF op[wop].dpi /\ host.dpi
                         THEN InterruptIf(fresh, Overdue(fresh, wop), "deadline") ELSE op[wop]
               b == FALSE
               o == [polled EXCEPT !.maintained = b]
               c == TRUE
    <2>1. wop \in Targets /\ op[wop] \in Operations /\ Continues(op[wop], op[wop])
          /\ b \in BOOLEAN /\ c \in BOOLEAN
      BY <1>4, Worked DEF Maintaining
    <2>2. SetOp(wop, o) \/ SetOp(wop, [o EXCEPT !.attempted = c])
      BY <1>4 DEF Maintaining
    <2>3. Continues(op[wop], fresh) /\ fresh \in Operations
      BY <2>1, RefreshedFacts DEF Continues
    <2> HIDE DEF fresh, b, c
    <2>4. Continues(fresh, InterruptIf(fresh, Overdue(fresh, wop), "deadline"))
      BY <2>3, InterruptIfFacts DEF Causes
    <2>5. Continues(op[wop], polled)
      BY <2>1, <2>3, <2>4, ContinuesIsTransitive
    <2> HIDE DEF polled
    <2>6. Continues(polled, o)
      BY <2>1, <2>5, MarkedFacts DEF Continues
    <2> HIDE DEF o
    <2>7. Continues(op[wop], o)
      BY <2>5, <2>6, ContinuesIsTransitive
    <2> QED
      BY <2>1, <2>2, <2>7, ContinuesIsStep, MarkingStep
  <1>5. CASE WatchBound
    <2> DEFINE t == IF wpc = "wait" THEN active ELSE wop
               q == Refreshed(op[t], t)
    <2>1. SetOp(t, InterruptIf(q, Overdue(op[t], t), "deadline"))
      BY <1>5 DEF WatchBound
    <2>2. t \in Targets
      BY <1>5, Worked DEF WatchBound, Assumptions, TargetsAssumption
    <2> HIDE DEF t
    <2>3. op[t] \in Operations
      BY <2>2, Worked
    <2>4. Continues(op[t], q) /\ q \in Operations
      BY <2>2, <2>3, RefreshedFacts DEF Continues
    <2> HIDE DEF q
    <2>5. Continues(q, InterruptIf(q, Overdue(op[t], t), "deadline"))
      BY <2>4, InterruptIfFacts DEF Causes
    <2> QED
      BY <2>1, <2>2, <2>4, <2>5, ContinuesIsTransitive, ContinuesIsStep
  <1>6. CASE CleanLock
    <2> DEFINE b == TRUE
    <2>1. UNCHANGED op \/ SetOp(wop, [op[wop] EXCEPT !.attempted = b])
      BY <1>6 DEF CleanLock
    <2>2. wop \in Targets /\ Continues(op[wop], op[wop]) /\ b \in BOOLEAN
      BY <1>6, Worked DEF CleanLock
    <2> HIDE DEF b
    <2> QED
      BY <2>1, <2>2, MarkingStep DEF OperationStep
  <1> QED
    BY <1>1, <1>2, <1>3, <1>4, <1>5, <1>6 DEF Watches

LEMMA OperationKinds ==
  ASSUME Assumptions, DInv, [Next]_vars
  PROVE  OperationStep
  <1>1. CASE \E h \in Handlers : Asks(h) \/ Handles(h) \/ ConfirmLock(h) \/ Join(h)
    BY <1>1, AskingOperations, ConnectOperations, BoundOperations, OtherOperations DEF Handles
  <1>2. CASE Watches \/ CleanLock
    BY <1>2, WatcherOperations
  <1>3. CASE World
    BY <1>3 DEF World, OwnerDies, DeadlinePasses, LeaseLapses, NetworkChanges, ServiceStops, Close,
       Event, Frame, ownerVars, OperationStep
  <1>4. CASE UNCHANGED vars
    BY <1>4 DEF vars, ownerVars, OperationStep
  <1> QED
    BY <1>1, <1>2, <1>3, <1>4 DEF Next, Destroyed

LEMMA OperationsKept ==
  ASSUME DInv, OperationStep
  PROVE  op' \in [Targets -> Operations] /\ LeasedKeepsLease'
  <1>0. op \in [Targets -> Operations] /\ LeasedKeepsLease
    BY DEF DInv, TypeOK
  <1>1. CASE UNCHANGED op
    BY <1>0, <1>1 DEF LeasedKeepsLease
  <1>2. ASSUME NEW t \in Targets, NEW q \in Operations, SetOp(t, q),
               t \in Leased => q.handoff = op[t].handoff
        PROVE  op' \in [Targets -> Operations] /\ LeasedKeepsLease'
    <2>1. op' \in [Targets -> Operations]
      BY <1>0, <1>2 DEF SetOp
    <2>2. ASSUME NEW u \in Leased
          PROVE  ~op'[u].handoff
      <3>1. CASE u = t
        BY <1>0, <1>2, <3>1 DEF SetOp, LeasedKeepsLease
      <3>2. CASE u # t
        <4>1. op'[u] = op[u]
          BY <1>0, <1>2, <3>2 DEF SetOp
        <4> QED
          BY <1>0, <4>1 DEF LeasedKeepsLease
      <3> QED
        BY <3>1, <3>2
    <2> QED
      BY <2>1, <2>2 DEF LeasedKeepsLease
  <1> QED
    BY <1>1, <1>2 DEF OperationStep

-----------------------------------------------------------------------------
(* The world, the state lock and the egress check.                         *)

WorldTypes ==
  /\ stateHeld \in BOOLEAN /\ closing \in BOOLEAN /\ stopEvent \in BOOLEAN
  /\ egress \in {"none", "running", "cancelled"}
  /\ alive \in [Targets -> BOOLEAN] /\ late \in [Targets -> BOOLEAN]
  /\ lapsed \in [Targets -> BOOLEAN] /\ revision \in 0..MaxEvents
  /\ events \in 0..MaxEvents /\ asked \in 0..MaxRequests

LEMMA WorldKept ==
  ASSUME Assumptions, DInv, [Next]_vars
  PROVE  WorldTypes' /\ RevisionIsCounted'
  <1>0. WorldTypes /\ RevisionIsCounted /\ MaxEvents \in Nat /\ MaxRequests \in Nat
    BY DEF DInv, TypeOK, WorldTypes, Assumptions, BoundsAssumption
  <1> USE DEF worldVars, lockVars
  <1>1. ASSUME UNCHANGED <<stateHeld, closing, egress, worldVars, asked>>
        PROVE  WorldTypes' /\ RevisionIsCounted'
    BY <1>0, <1>1 DEF WorldTypes, RevisionIsCounted
  <1>2. ASSUME NEW h \in Handlers, Asks(h)
        PROVE  WorldTypes' /\ RevisionIsCounted'
    <2>1. \E r : Arrives(h, r)
      BY <1>2 DEF Asks, Status, Cancel, CancelAndConfirm, Submit
    <2> QED
      BY <1>0, <2>1 DEF Arrives, WorldTypes, RevisionIsCounted
  <1>3. ASSUME NEW h \in Handlers, Contended(h)
        PROVE  WorldTypes' /\ RevisionIsCounted'
    BY <1>0, <1>3 DEF Contended, WorldTypes, RevisionIsCounted
  <1>4. ASSUME NEW h \in Handlers,
               \/ TryLock(h) \/ Join(h) \/ ConfirmLock(h) \/ ConfirmStop(h)
               \/ RegisterConnect(h) \/ RunConnect(h) \/ AfterConnect(h) \/ UndoConnect(h)
               \/ RegisterBound(h) \/ RunBound(h) \/ AfterBound(h) \/ UndoBound(h)
               \/ RegisterOther(h) \/ RunOther(h)
        PROVE  WorldTypes' /\ RevisionIsCounted'
    <2>1. UNCHANGED <<stateHeld, closing, egress, worldVars, asked>>
      BY <1>4 DEF TryLock, Join, ConfirmLock, ConfirmStop, RegisterConnect, RunConnect,
         AfterConnect, UndoConnect, RegisterBound, RunBound, AfterBound, UndoBound,
         RegisterOther, RunOther
    <2> QED
      BY <1>1, <2>1
  <1>5. CASE Pick \/ Maintain \/ TryMaintain \/ Maintaining \/ WatchBound \/ Clean \/ CleanLock
    <2>1. UNCHANGED <<stateHeld, closing, egress, worldVars, asked>>
      BY <1>5 DEF Pick, Maintain, TryMaintain, Maintaining, WatchBound, Clean, CleanLock, Idle
    <2> QED
      BY <1>1, <2>1
  <1>6. CASE CheckRunningEgress \/ TryEgress \/ Checked
    BY <1>0, <1>6 DEF CheckRunningEgress, TryEgress, Checked, WorldTypes, RevisionIsCounted
  <1>7. CASE World
    <2>1. ASSUME NEW t \in Targets, OwnerDies(t) \/ DeadlinePasses(t) \/ LeaseLapses(t)
          PROVE  WorldTypes' /\ RevisionIsCounted'
      <3>1. /\ UNCHANGED <<stateHeld, closing, stopEvent, egress, asked, revision>>
            /\ events < MaxEvents /\ events' = events + 1
        BY <2>1 DEF OwnerDies, DeadlinePasses, LeaseLapses, Event, Frame
      <3>2. /\ alive' \in [Targets -> BOOLEAN] /\ late' \in [Targets -> BOOLEAN]
            /\ lapsed' \in [Targets -> BOOLEAN]
        BY <1>0, <2>1 DEF OwnerDies, DeadlinePasses, LeaseLapses, WorldTypes
      <3>3. events' \in 0..MaxEvents /\ revision \in 0..MaxEvents /\ revision <= events'
        BY <1>0, <3>1 DEF WorldTypes, RevisionIsCounted
      <3> QED
        BY <1>0, <3>1, <3>2, <3>3 DEF WorldTypes, RevisionIsCounted
    <2>2. CASE NetworkChanges
      BY <1>0, <2>2 DEF NetworkChanges, Event, Frame, WorldTypes, RevisionIsCounted
    <2>3. CASE ServiceStops
      BY <1>0, <2>3 DEF ServiceStops, Frame, WorldTypes, RevisionIsCounted
    <2>4. CASE Close
      BY <1>0, <2>4 DEF Close, WorldTypes, RevisionIsCounted
    <2> QED
      BY <1>7, <2>1, <2>2, <2>3, <2>4 DEF World
  <1>8. CASE UNCHANGED vars
    BY <1>1, <1>8 DEF vars
  <1> QED
    BY <1>2, <1>3, <1>4, <1>5, <1>6, <1>7, <1>8 DEF Next, Handles, Watches, Destroyed

-----------------------------------------------------------------------------
(* The invariant.                                                          *)

LEMMA InitiallyInv ==
  ASSUME Assumptions, Init
  PROVE  DInv
  <1> USE DEF Assumptions, TargetsAssumption, BoundsAssumption, Init
  <1>1. TypeOK
    <2>1. op \in [Targets -> Operations]
      BY DEF NewOperation, Operations, Causes
    <2>2. host \in Hosts
      <3>1. PICK armed \in BOOLEAN : host = [phase |-> "idle", session |-> None, armed |-> armed,
                                             dpi |-> FALSE, telegram |-> FALSE,
                                             dropped |-> FALSE]
        OBVIOUS
      <3> QED
        BY <3>1 DEF Hosts, Phases
    <2>3. /\ alive \in [Targets -> BOOLEAN] /\ late \in [Targets -> BOOLEAN]
          /\ lapsed \in [Targets -> BOOLEAN] /\ result \in [Handlers -> BOOLEAN]
          /\ stateHeld \in BOOLEAN /\ closing \in BOOLEAN /\ stopEvent \in BOOLEAN
          /\ watchBound \in BOOLEAN
      OBVIOUS
    <2>4. /\ revision \in 0..MaxEvents /\ events \in 0..MaxEvents /\ asked \in 0..MaxRequests
      OBVIOUS
    <2> QED
      BY <2>1, <2>2, <2>3, <2>4 DEF TypeOK, Phases
  <1>2. /\ RevisionIsCounted /\ LockIsHeld /\ RequestIsKept /\ PickIsKept
        /\ ConfirmOwns /\ OwnerHasSession /\ ResultIsSession
    BY DEF RevisionIsCounted, LockIsHeld, RequestIsKept, PickIsKept, ConfirmOwns, OwnerHasSession,
       ResultIsSession, Waits, Calls, NoRequest
  <1>3. IdleHasNoSession /\ SessionHasOwner /\ SnapshotIsStale
    BY DEF IdleHasNoSession, SessionHasOwner, SnapshotIsStale
  <1>4. ConnectsOnce /\ ConnectOwns
    BY DEF ConnectsOnce, ConnectOwns, Connects, Waits, Calls
  <1>5. RetiredIsGone
    BY DEF RetiredIsGone
  <1>6. LeasedKeepsLease
    BY DEF LeasedKeepsLease, NewOperation
  <1> QED
    BY <1>1, <1>2, <1>3, <1>4, <1>5, <1>6 DEF DInv

LEMMA InvariantKept ==
  ASSUME Assumptions, DInv, [Next]_vars
  PROVE  DInv'
  <1>1. Step
    BY Kinds
  <1>2. op' \in [Targets -> Operations] /\ LeasedKeepsLease'
    BY OperationKinds, OperationsKept
  <1>3. WorldTypes' /\ RevisionIsCounted'
    BY WorldKept
  <1>4. ControlTypes'
    BY <1>1, ControlKept
  <1>5. TypeOK'
    BY <1>2, <1>3, <1>4 DEF TypeOK, ControlTypes, WorldTypes, Labels
  <1> QED
    BY <1>1, <1>2, <1>3, <1>5, LockKept, RequestKept, PickKept, ConfirmKept, OnceKept, OwnsKept,
       IdleKept, SessionKept, OwnerKept, ResultKept, SnapshotKept, RetiredKept DEF DInv

\* What clients are shown, in a state of the invariant.
LEMMA InvariantShows ==
  ASSUME Assumptions, DInv
  PROVE  SessionIsOwned /\ ShownIsTrue
  <1>1. None \notin Handlers /\ Watcher \notin Handlers /\ None \notin Targets /\ Leased \subseteq Bound
    BY DEF Assumptions, TargetsAssumption
  <1>2. SnapshotIsPublished
    BY <1>1 DEF SnapshotIsPublished, DInv, SnapshotIsStale
  <1>3. ConfirmedIsStoppedOrGuarded
    BY DEF ConfirmedIsStoppedOrGuarded, LeftGuarded, DInv, RetiredIsGone, Gone, IdleHasNoSession
  <1>4. BoundSessionIsWatched
    BY DEF BoundSessionIsWatched, LeftGuarded, DInv, SessionHasOwner, IdleHasNoSession
  <1>5. CleanupHitsItsOwner
    <2>1. ASSUME wpc = "clean", host.phase = "running"
          PROVE  host.session = wop
      <3>1. active = wop /\ wop \in Bound /\ execution = Watcher
        BY <2>1 DEF DInv, PickIsKept, LockIsHeld
      <3> QED
        BY <1>1, <2>1, <3>1, OwnersSession
    <2>2. ASSUME NEW h \in Handlers, pc[h] = "confirmStop", host.phase = "running"
          PROVE  host.session = request[h].target
      <3>1. /\ active = request[h].target /\ request[h].target \in Bound /\ execution = h
            /\ request[h].command # "connect"
        BY <2>2 DEF DInv, ConfirmOwns, LockIsHeld, RequestIsKept
      <3> QED
        BY <2>2, <3>1, OwnersSession
    <2> QED
      BY <2>1, <2>2 DEF CleanupHitsItsOwner
  <1>6. LeaseShownIsLive
    <2> DEFINE fresh == Refreshed(op[active], active)
               o == Projected(fresh, active)
    <2>1. SUFFICES ASSUME execution = None, active # None, ShownLease(o, active, snapshot)
                   PROVE  /\ host.phase = "running" /\ host.session = active
                          /\ ~lapsed[active] /\ o.revision = revision
      BY DEF LeaseShownIsLive
    <2>2. active \in Leased /\ active \in Bound /\ active \in Targets /\ op[active] \in Operations
      BY <1>1, <2>1, Sessions DEF ShownLease
    <2>3. Continues(op[active], fresh) /\ fresh \in Operations
      BY <2>2, RefreshedFacts DEF Continues
    <2> HIDE DEF fresh
    <2>4. /\ Continues(fresh, o)
          /\ ~Stopping(o) => fresh.revision = revision /\ ~Overdue(fresh, active)
      BY <2>2, <2>3, ProjectedFacts
    <2> HIDE DEF o
    <2>5. snapshot = host.phase
      BY <1>2, <2>1 DEF SnapshotIsPublished
    <2>6. o.promoted /\ snapshot = "running" /\ ~Stopping(o)
      BY <2>1, <2>2 DEF ShownLease, ShownPhase
    <2>7. fresh.promoted /\ ~fresh.handoff
      BY <2>2, <2>3, <2>4, <2>6 DEF Continues, DInv, LeasedKeepsLease
    <2>8. ~lapsed[active] /\ o.revision = revision
      BY <2>2, <2>4, <2>6, <2>7 DEF Overdue, Continues
    <2>9. host.session = active
      BY <1>1, <2>1, <2>2, <2>5, <2>6, OwnersSession
    <2> QED
      BY <2>5, <2>6, <2>8, <2>9
  <1> QED
    BY <1>2, <1>3, <1>4, <1>5, <1>6 DEF SessionIsOwned, ShownIsTrue, DInv

\* DInv is inductive, so every reachable state of the dispatcher has it.
THEOREM Invariance ==
  ASSUME TargetsAssumption, BoundsAssumption
  PROVE  Spec => []DInv
  <1>1. Assumptions
    BY DEF Assumptions
  <1>2. Init => DInv
    BY <1>1, InitiallyInv
  <1>3. DInv /\ [Next]_vars => DInv'
    BY <1>1, InvariantKept
  <1> QED
    BY <1>2, <1>3, PTL DEF Spec

\* However connects, cancellations, the other commands and the watcher race for
\* the two locks, and whichever calls of the guard fail: a bound session that runs
\* has an owner that is watched, no cleanup stops another invocation's session,
\* and an invocation some client was told has settled has no session, then or
\* later; but for a session whose connect or undo the guard failed, while the
\* guard counts as armed.
THEOREM SessionsAreOwned ==
  ASSUME TargetsAssumption, BoundsAssumption
  PROVE  Spec => []SessionIsOwned
  <1>1. DInv => SessionIsOwned
    BY InvariantShows DEF Assumptions
  <1> QED
    BY <1>1, Invariance, PTL

\* The snapshot read without execution_lock_ is the host's phase whenever the
\* lock is free, and a transport lease that is shown is one that lives.
THEOREM ShownTruly ==
  ASSUME TargetsAssumption, BoundsAssumption
  PROVE  Spec => []ShownIsTrue
  <1>1. DInv => ShownIsTrue
    BY InvariantShows DEF Assumptions
  <1> QED
    BY <1>1, Invariance, PTL

=============================================================================

--------------------------- MODULE WindowsRunner ---------------------------
(***************************************************************************)
(* The window of the Windows application as the owner of a connection      *)
(* (flutter_window.cpp): method calls of Dart are queued for one worker    *)
(* (runtime_task_runner.cpp), their completions run later on the window's  *)
(* thread, and a bound connect belongs to the window until the service has *)
(* confirmed that it is stopped.  The worker's call is WindowsServiceClient*)
(* and the service WindowsDispatcher; both are reduced to their outcomes.  *)
(***************************************************************************)
EXTENDS Integers, Sequences, TLC

CONSTANTS
  MaxRequests,  \* bound: connection requests, each with an id of its own
  Profiles,     \* digests of the profiles that are staged
  MaxQueue,     \* tasks that wait for the worker (16)
  MaxTasks      \* bound: tasks that are submitted

RunnerAssumption == {MaxRequests, MaxQueue, MaxTasks} \subseteq Nat \ {0} /\ 0 \notin Profiles

Requests == 1..MaxRequests

VARIABLES
  owner,   \* pending_connect_ with its id, bound and promoted
  stopped, \* stopped_connect_request_id_
  intent,  \* expected_profile_digest_, 0 when empty
  req,     \* every request: its control, its state in the service, what Dart knows
  tasks,   \* the worker's queue
  running, \* the task it runs
  ready,   \* completions not yet drained
  window,  \* "open", "ending" while other workers are joined, "closing" while
           \* this one is, "closed"
  count,   \* tasks submitted
  last     \* the profile staged last, and the profiles a stop was asked under

vars == <<owner, stopped, intent, req, tasks, running, ready, window, count, last>>

NoOwner == [c |-> 0, id |-> 0, bound |-> FALSE, promoted |-> FALSE]
NoTask == [cmd |-> "none", c |-> 0, intent |-> 0]
NoRequest == [kind |-> "none", cancel |-> FALSE, completed |-> FALSE, target |-> FALSE,
              svc |-> "none", interrupted |-> FALSE, tried |-> FALSE, lease |-> FALSE,
              told |-> {}, asked |-> FALSE, waits |-> 0]

Init ==
  /\ owner = NoOwner /\ stopped = 0 /\ intent = 0 /\ req = [c \in Requests |-> NoRequest]
  /\ tasks = <<>> /\ running = NoTask /\ ready = <<>> /\ window = "open" /\ count = 0
  /\ last = [profile |-> 0, stops |-> {}]

Open == window = "open"
BoundOwner == owner.bound /\ owner.c # 0

Fits == Len(tasks) < MaxQueue

\* Submit: the task waits for the worker.
Submit(cmd, c) ==
  /\ count < MaxTasks /\ count' = count + 1
  /\ tasks' = Append(tasks, [cmd |-> cmd, c |-> c, intent |-> intent])

-----------------------------------------------------------------------------
(* Method calls, on the window's thread *)

\* What a queued start, stop or profile change does to the request before it:
\* it is cancelled, and loses its id unless it is bound.
Superseded(requests) ==
  IF owner.c = 0 THEN requests ELSE [requests EXCEPT ![owner.c].cancel = TRUE]
WithoutId == IF owner.bound THEN owner ELSE [owner EXCEPT !.id = 0]

\* A start, a profile change or an initialisation is refused beside a bound owner.
FreeToStart == ~BoundOwner

\* stageManagedProfile, applyWarp, or invalidateManagedProfile for profile 0.
StageProfile(p) ==
  /\ Open /\ FreeToStart /\ Fits /\ Submit("stage", 0)
  /\ req' = Superseded(req) /\ owner' = WithoutId
  /\ intent' = p /\ last' = [last EXCEPT !.profile = p]
  /\ UNCHANGED <<stopped, running, ready, window>>

\* The new request replaces the one before.
NewOwner(c, kind) ==
  /\ owner' = [c |-> c, id |-> c, bound |-> (kind = "bound"), promoted |-> FALSE]
  /\ req' = [Superseded(req) EXCEPT ![c].kind = kind]

Fresh(c) == req[c].kind = "none" /\ \A d \in 1..(c - 1) : req[d].kind # "none"

\* connect and connectWithCoreIdentity.
Connect(c, kind) ==
  /\ Open /\ FreeToStart /\ Fits /\ Fresh(c)
  /\ kind = "bound" => intent # 0
  /\ Submit(kind, c) /\ NewOwner(c, kind)
  /\ UNCHANGED <<stopped, intent, running, ready, window, last>>

\* replaceManagedProfile: an ordinary start that brings its profile.
Replace(c, p) ==
  /\ Open /\ FreeToStart /\ Fits /\ Fresh(c)
  /\ Submit("plain", c) /\ NewOwner(c, "plain")
  /\ intent' = p /\ last' = [last EXCEPT !.profile = p]
  /\ UNCHANGED <<stopped, running, ready, window>>

\* A bound request that is not queued is settled at once.
NotDispatched(c) ==
  /\ Open /\ Fresh(c) /\ (~FreeToStart \/ ~Fits \/ intent = 0)
  /\ req' = [req EXCEPT ![c].kind = "bound", ![c].told = {"settled"}]
  /\ UNCHANGED <<owner, stopped, intent, tasks, running, ready, window, count, last>>

\* The owner a lease or a runtime control is for: established and not cancelled.
Usable(c) ==
  BoundOwner /\ owner.id = c /\ req[c].completed /\ ~req[c].cancel /\ req[c].target

\* promoteBoundTransportLease, revokeBoundTransportLease and
\* configureBoundSmartAccessRuntimeControl.
AskOwner(c, cmd) ==
  /\ Open /\ Fits /\ Usable(c) /\ (cmd # "control" => intent # 0) /\ Submit(cmd, c)
  /\ UNCHANGED <<owner, stopped, intent, req, running, ready, window, last>>

\* cancelAndConfirmConnectStopped of the owner: the flag is raised at once, the
\* settlement is queued behind what the worker does.
ConfirmStopped(c) ==
  /\ Open /\ BoundOwner /\ owner.id = c
  /\ req' = [req EXCEPT ![c].cancel = TRUE, ![c].asked = TRUE,
                        ![c].waits = IF Fits THEN @ + 1 ELSE @]
  /\ last' = [last EXCEPT !.stops = @ \cup {intent}]
  /\ IF Fits THEN Submit("confirm", c) ELSE UNCHANGED <<tasks, count>>
  /\ UNCHANGED <<owner, stopped, intent, running, ready, window>>

\* Of another request: only the one stopped last is known.
ConfirmKnown(c) ==
  /\ Open /\ ~(BoundOwner /\ owner.id = c) /\ stopped = c
  /\ req' = [req EXCEPT ![c].told = @ \cup {"settled"}]
  /\ UNCHANGED <<owner, stopped, intent, tasks, running, ready, window, count, last>>

\* cancelConnectRequest.
CancelRequest(c) ==
  /\ Open /\ owner.c # 0 /\ owner.id = c /\ (~owner.bound => ~req[c].completed)
  /\ req' = [req EXCEPT ![c].cancel = TRUE, ![c].asked = TRUE]
  /\ IF owner.bound /\ Fits THEN Submit("cancel", c) ELSE UNCHANGED <<tasks, count>>
  /\ UNCHANGED <<owner, stopped, intent, running, ready, window, last>>

Disconnect ==
  /\ Open /\ Fits /\ Submit("disconnect", 0)
  /\ LET asked == [c \in Requests |-> [req[c] EXCEPT !.asked = @ \/ c = owner.c]]
     IN req' = Superseded(asked)
  /\ owner' = WithoutId /\ last' = [last EXCEPT !.stops = @ \cup {intent}]
  /\ UNCHANGED <<stopped, intent, running, ready, window>>

\* snapshot, clockSnapshot and the other calls that only ask the service.
Ask ==
  /\ Open /\ Fits /\ Submit("ask", 0)
  /\ UNCHANGED <<owner, stopped, intent, req, running, ready, window, last>>

-----------------------------------------------------------------------------
(* The worker and the service *)

\* Faulty: a task whose control is cancelled is skipped.
PickUncancelled ==
  /\ window # "closed" /\ running = NoTask /\ tasks # <<>>
  /\ LET t == Head(tasks)
     IN running' = IF t.c # 0 /\ req[t.c].cancel THEN NoTask ELSE t
  /\ tasks' = Tail(tasks)
  /\ UNCHANGED <<owner, stopped, intent, req, ready, window, count, last>>

Pick ==
  /\ window # "closed" /\ running = NoTask /\ tasks # <<>>
  /\ running' = Head(tasks) /\ tasks' = Tail(tasks)
  /\ UNCHANGED <<owner, stopped, intent, req, ready, window, count, last>>

Runs(cmd) == running.cmd = cmd
Starts == Runs("bound") \/ Runs("plain")

\* The invocation is over and its completion queued.
Return(result, requests) ==
  /\ running' = NoTask /\ ready' = Append(ready, [task |-> running, result |-> result])
  /\ req' = IF running.c = 0 THEN requests
            ELSE [requests EXCEPT ![running.c].completed = @ \/ Starts]
  /\ UNCHANGED <<owner, stopped, intent, tasks, window, count, last>>

\* A start is written unless it is cancelled or the service cannot be reached;
\* the target of a bound one is published first.
Write ==
  /\ Starts /\ ~req[running.c].cancel /\ req[running.c].svc = "none"
  /\ req' = [req EXCEPT ![running.c].svc = "starting", ![running.c].target = Runs("bound")]
  /\ UNCHANGED <<owner, stopped, intent, tasks, running, ready, window, count, last>>

NotWritten == Starts /\ req[running.c].svc = "none" /\ Return("failed", req)

\* The service ends a start, one at a time; an interrupted one does not succeed.
ServiceEnds(c, well) ==
  /\ req[c].svc = "starting"
  /\ well => ~req[c].interrupted /\ \A d \in Requests : req[d].svc # "up"
  /\ req' = [req EXCEPT ![c].svc = IF well THEN "up" ELSE "ended"]
  /\ UNCHANGED <<owner, stopped, intent, tasks, running, ready, window, count, last>>

\* The watcher stops what was interrupted.
ServiceStops(c) ==
  /\ req[c].svc = "up" /\ req[c].interrupted
  /\ req' = [req EXCEPT ![c].svc = "ended"]
  /\ UNCHANGED <<owner, stopped, intent, tasks, running, ready, window, count, last>>

Answered ==
  /\ Starts /\ req[running.c].svc \in {"up", "ended"}
  /\ Return(IF req[running.c].svc = "up" THEN "ok" ELSE "failed", req)

\* An exact cancellation: asked for, and perhaps heard.
Cancelled(c, heard) ==
  [req EXCEPT ![c].cancel = TRUE, ![c].tried = TRUE,
              ![c].interrupted = @ \/ (heard /\ req[c].svc \in {"starting", "up"})]

\* No answer, or none that can be used: the client cancels its request.
Lost(heard) ==
  Starts /\ req[running.c].svc # "none" /\ Return("failed", Cancelled(running.c, heard))

\* kCancelConnectAndConfirm under the target, or no target and nothing written.
Confirm(result, heard) ==
  /\ Runs("confirm")
  /\ LET c == running.c
     IN /\ ~req[c].target => result = "stopped"
        /\ Return(result,
                  IF ~req[c].target THEN req
                  ELSE [Cancelled(c, heard) EXCEPT
                          ![c].svc = IF result = "stopped" THEN "ended" ELSE @])

ExactCancel(heard) ==
  /\ Runs("cancel")
  /\ Return(IF heard THEN "ok" ELSE "failed",
            IF req[running.c].target THEN Cancelled(running.c, heard) ELSE req)

\* The service takes the lease of a live owner, or gives it up; its answer may be lost.
Lease(took, answered) ==
  /\ Runs("promote") \/ Runs("revoke") \/ Runs("control")
  /\ took => req[running.c].svc = "up" /\ ~req[running.c].interrupted
  /\ Return(IF took /\ answered THEN "ok" ELSE "failed",
            [req EXCEPT ![running.c].lease = IF took /\ ~Runs("control") THEN Runs("promote") ELSE @])

\* A disconnect stops what runs; it fails, or the answer is lost.
DisconnectRuns(done) ==
  /\ Runs("disconnect")
  /\ Return(IF done THEN "ok" ELSE "failed",
            [c \in Requests |-> [req[c] EXCEPT !.svc = IF done /\ @ \in {"starting", "up"}
                                                       THEN "ended" ELSE @]])

Other == (Runs("ask") \/ Runs("stage")) /\ Return("ok", req)

-----------------------------------------------------------------------------
(* Completions, on the window's thread *)

Completion == Head(ready)
C == Completion.task.c
Drains(cmd) == Open /\ ready # <<>> /\ Completion.task.cmd = cmd /\ ready' = Tail(ready)
Reply(c, what) == req' = [req EXCEPT ![c].told = @ \cup what, ![c].waits = @ - 1]
Tell(c, what) == req' = [req EXCEPT ![c].told = @ \cup {what}]

\* Only the live owner is told that it is connected.
DrainBound ==
  /\ Drains("bound")
  /\ Tell(C, IF owner.id # C \/ owner.c = 0 \/ req[C].cancel THEN "cancelled"
             ELSE IF Completion.result = "ok" THEN "connected" ELSE "failed")
  /\ UNCHANGED <<owner, stopped, intent, tasks, running, window, count, last>>

DrainPromote ==
  /\ Drains("promote")
  /\ IF BoundOwner /\ owner.id = C /\ ~req[C].cancel /\ Completion.result = "ok"
     THEN owner' = [owner EXCEPT !.promoted = TRUE] /\ Tell(C, "promoted")
     ELSE UNCHANGED <<owner, req>>
  /\ UNCHANGED <<stopped, intent, tasks, running, window, count, last>>

\* Faulty: a settlement releases whoever owns the window by then.
DrainConfirmAnyOwner(clean) ==
  /\ Drains("confirm")
  /\ Reply(C, IF Completion.result = "stopped" THEN {"settled"} ELSE {})
  /\ IF Completion.result = "stopped"
     THEN /\ stopped' = C /\ owner' = NoOwner
          /\ intent' = IF clean /\ intent = Completion.task.intent THEN 0 ELSE intent
     ELSE UNCHANGED <<stopped, owner, intent>>
  /\ UNCHANGED <<tasks, running, window, count, last>>

\* The settlement releases its owner, and the intent it was asked under if the
\* service's state is clean.
DrainConfirm(clean) ==
  /\ Drains("confirm")
  /\ Reply(C, IF Completion.result = "stopped" THEN {"settled"} ELSE {})
  /\ IF Completion.result = "stopped" /\ owner.c = C
     THEN /\ stopped' = C /\ owner' = NoOwner
          /\ intent' = IF clean /\ intent = Completion.task.intent THEN 0 ELSE intent
     ELSE UNCHANGED <<stopped, owner, intent>>
  /\ UNCHANGED <<tasks, running, window, count, last>>

\* A clean stop clears the intent it was asked under.
DrainDisconnect(clean) ==
  /\ Drains("disconnect")
  /\ intent' = IF clean /\ Completion.result = "ok" /\ intent = Completion.task.intent
               THEN 0 ELSE intent
  /\ UNCHANGED <<owner, stopped, req, tasks, running, window, count, last>>

DrainOther ==
  /\ \E cmd \in {"plain", "stage", "ask", "cancel", "revoke", "control"} : Drains(cmd)
  /\ UNCHANGED <<owner, stopped, intent, req, tasks, running, window, count, last>>

-----------------------------------------------------------------------------
(* OnDestroy *)

Flagged(who) == req' = [c \in Requests |-> [req[c] EXCEPT !.cancel = @ \/ c \in who]]

\* An owner without a confirmed lease is cancelled.  The diagnostic worker is
\* joined first, and this one goes on meanwhile.
Destroy ==
  /\ Open /\ window' = "ending"
  /\ Flagged(IF BoundOwner /\ ~owner.promoted THEN {owner.c} ELSE {})
  /\ UNCHANGED <<owner, stopped, intent, tasks, running, ready, count, last>>

\* RuntimeTaskRunner::Shutdown: the queue is dropped and the running call
\* abandoned, which raises the flag of its control.
Shutdown ==
  /\ window = "ending" /\ window' = "closing" /\ tasks' = <<>>
  /\ Flagged(IF running.cmd \in {"bound", "plain", "confirm", "cancel"} THEN {running.c} ELSE {})
  /\ UNCHANGED <<owner, stopped, intent, running, ready, count, last>>

\* After the join: the exact cancellation of an owner without a lease, or of one
\* that was told to stop.
LastCancel(heard) ==
  IF BoundOwner /\ (~owner.promoted \/ req[owner.c].cancel) /\ req[owner.c].target
  THEN Cancelled(owner.c, heard) ELSE req

Destroyed(heard) ==
  /\ window = "closing" /\ running = NoTask
  /\ window' = "closed" /\ ready' = <<>> /\ owner' = NoOwner /\ req' = LastCancel(heard)
  /\ UNCHANGED <<stopped, intent, tasks, running, count, last>>

-----------------------------------------------------------------------------
MethodCall ==
  \/ \E p \in Profiles \cup {0} : StageProfile(p)
  \/ \E c \in Requests :
       \/ \E kind \in {"bound", "plain"} : Connect(c, kind)
       \/ \E p \in Profiles : Replace(c, p)
       \/ \E cmd \in {"promote", "revoke", "control"} : AskOwner(c, cmd)
       \/ NotDispatched(c) \/ ConfirmStopped(c) \/ ConfirmKnown(c) \/ CancelRequest(c)
  \/ Disconnect \/ Ask
WorkerStep ==
  \/ Pick \/ Write \/ NotWritten \/ Answered \/ Other
  \/ \E b \in BOOLEAN :
       \/ Lost(b) \/ ExactCancel(b) \/ DisconnectRuns(b)
       \/ \E r \in {"stopped", "unsettled", "failed"} : Confirm(r, b)
       \/ \E a \in BOOLEAN : Lease(b, a)
ServiceStep ==
  \E c \in Requests : ServiceStops(c) \/ \E b \in BOOLEAN : ServiceEnds(c, b)
DrainStep ==
  \/ DrainBound \/ DrainPromote \/ DrainOther \/ Shutdown
  \/ \E b \in BOOLEAN : DrainConfirm(b) \/ DrainDisconnect(b) \/ Destroyed(b)

\* The window closes, or Dart asks for nothing more.
Rests == (~Open \/ count = MaxTasks) /\ UNCHANGED vars

Next == MethodCall \/ WorkerStep \/ ServiceStep \/ DrainStep \/ Destroy \/ Rests
Spec == Init /\ [][Next]_vars

\* The worker and the window's thread run on; calls are bounded in time.
Fairness == WF_vars(WorkerStep) /\ WF_vars(DrainStep)

-----------------------------------------------------------------------------
TypeOK ==
  /\ owner \in [c : 0..MaxRequests, id : 0..MaxRequests, bound : BOOLEAN, promoted : BOOLEAN]
  /\ stopped \in 0..MaxRequests /\ intent \in Profiles \cup {0}
  /\ window \in {"open", "ending", "closing", "closed"}
  /\ Len(tasks) <= MaxQueue
  /\ \A c \in Requests :
       /\ req[c].svc \in {"none", "starting", "up", "ended"}
       /\ req[c].told \subseteq {"connected", "failed", "cancelled", "promoted", "settled"}
  /\ owner.promoted => owner.bound
  /\ owner.id # 0 => owner.id = owner.c

Waits(c) == running.c = c \/ \E i \in DOMAIN tasks : tasks[i].c = c
Live(c) == req[c].kind = "bound" /\ req[c].svc \in {"starting", "up"}

\* When Dart is told that a bound request is settled, it is: it neither runs in
\* the service nor waits to be written, then and later.
SettledIsStopped ==
  \A c \in Requests : "settled" \in req[c].told =>
    ~Live(c) /\ (req[c].svc = "none" => running.cmd # "bound" \/ running.c # c)

\* A bound request the service may still run belongs to the open window: no
\* other start, stop, failure or lost answer takes it away before a settlement.
OwnerIsKept == Open => \A c \in Requests : Live(c) => owner.c = c /\ owner.bound

\* A window that is gone has asked the service to stop a request it leaves
\* behind, unless its lease was confirmed.
ClosedHasAsked ==
  window = "closed" => \A c \in Requests :
    Live(c) => req[c].tried \/ "promoted" \in req[c].told

\* A lease that was confirmed ends by a stop that Dart has asked for: closing
\* the window, or any other call, does not interrupt it.
LeaseIsKept ==
  \A c \in Requests : "promoted" \in req[c].told /\ req[c].interrupted => req[c].asked

\* Of several ordinary requests only the newest one can still start.
NewestStarts ==
  \A c \in Requests :
    Waits(c) /\ req[c].kind = "plain" /\ req[c].svc = "none" /\ ~req[c].cancel => owner.c = c

\* The profile the window means is the one staged last; only a stop that was
\* asked for under this profile clears it.  (A profile that is staged again has
\* the digest it had, so a stop asked for in between clears it too.)
IntentIsNewest == intent # last.profile => intent = 0 /\ last.profile \in last.stops

\* What the window believes of its requests, the worker's queue and the service
\* agree, in whatever order answers, stops, leases and the end of the window come.
RequestsAreOwned ==
  /\ TypeOK /\ SettledIsStopped /\ OwnerIsKept /\ ClosedHasAsked
  /\ LeaseIsKept /\ NewestStarts /\ IntentIsNewest

\* Whoever asks for a settlement is answered, or the window closes.
SettlementIsAnswered ==
  \A c \in Requests : req[c].waits > 0 ~> (~Open \/ req[c].waits = 0)

\* A window that closes gets past its workers.
CloseEnds == ~Open ~> window = "closed"
=============================================================================

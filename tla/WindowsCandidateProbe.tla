----------------------- MODULE WindowsCandidateProbe -----------------------
(***************************************************************************)
(* Candidate probes on Windows from the method channel to the Core and     *)
(* back: the window's table of pending candidates and its workers          *)
(* (flutter_window.cpp, runtime_task_runner.cpp), the calls they make, and *)
(* the dispatcher's table of active probes (service_dispatcher.cpp).  The  *)
(* window's thread runs the handlers and the completions; every worker,    *)
(* every session of the service and every cancelling companion is another  *)
(* thread.  The details of a call are in WindowsServiceClient.             *)
(***************************************************************************)
EXTENDS Integers, Sequences, FiniteSets, FiniteSetsExt

CONSTANTS
  Ids,         \* probe ids
  MaxWorkers,  \* workers of the window (4)
  MaxProbes,   \* probes the service runs at a time (4)
  MaxCalls,    \* bound: probes that are started
  MaxNet       \* bound: networks

ProbeAssumption ==
  {MaxWorkers, MaxProbes, MaxCalls, MaxNet} \subseteq Nat \ {0} /\ Ids # {}

Calls == 1..MaxCalls
Workers == 1..MaxWorkers

VARIABLES
  pending,  \* pending_candidates_: the call of an id, or 0
  lost,     \* candidate_settlement_lost_
  worker,   \* each worker's tasks, the call that runs, and its completions
  window,   \* 0 while open; then the worker that is shut down; then MaxWorkers + 1
  call,     \* every call: the client's and the service's view
  net,      \* the network
  forgiven  \* calls not settled when the latch was cleared (for the properties)

vars == <<pending, lost, worker, window, call, net, forgiven>>

\* flag: cancel_requested; at: where the client is; svc: where the service is.
NoCall == [id |-> CHOOSE i \in Ids : TRUE, worker |-> 1, flag |-> FALSE, at |-> "free",
           answer |-> "none", svc |-> "none", cancelled |-> FALSE, expected |-> 1,
           seen |-> 0, changed |-> FALSE, result |-> "none", waiters |-> 0, told |-> "none"]

Init ==
  /\ pending = [i \in Ids |-> 0] /\ lost = FALSE
  /\ worker = [w \in Workers |-> [tasks |-> <<>>, running |-> 0, ready |-> <<>>]]
  /\ window = 0 /\ call = [c \in Calls |-> NoCall] /\ net = 1 /\ forgiven = {}

Open == window = 0
Pending == {pending[i] : i \in Ids} \ {0}

-----------------------------------------------------------------------------
(* The window *)

\* The workers no pending candidate uses.
Free == Workers \ {call[c].worker : c \in Pending}

\* probeCandidate: refused while a settlement is lost, the id is active or no
\* worker is free.
ProbeCandidate(i, ref) ==
  /\ Open /\ ~lost /\ pending[i] = 0 /\ Free # {}
  /\ \E c \in Calls :
       /\ call[c].at = "free" /\ \A d \in 1..(c - 1) : call[d].at # "free"
       /\ pending' = [pending EXCEPT ![i] = c]
       /\ call' = [call EXCEPT ![c] = [NoCall EXCEPT !.id = i, !.worker = Min(Free),
                                                     !.at = "queued", !.expected = ref]]
       /\ worker' = [worker EXCEPT ![Min(Free)].tasks = Append(@, c)]
  /\ UNCHANGED <<lost, window, net, forgiven>>

\* cancelCandidateProbe of a pending candidate: answered with its completion.
\* Without one it is answered at once, as long as no settlement is lost.
CancelPending(i) ==
  /\ Open /\ pending[i] # 0 /\ call[pending[i]].waiters = 0
  /\ call' = [call EXCEPT ![pending[i]].flag = TRUE, ![pending[i]].waiters = 1]
  /\ UNCHANGED <<pending, lost, worker, window, net, forgiven>>

Active(c) == call[c].svc \in {"sent", "listed", "core", "back", "judged"}

\* candidateNetwork: an accepted read clears the latch if no candidate is pending.
CandidateNetwork ==
  /\ Open /\ lost /\ Pending = {}
  /\ lost' = FALSE /\ forgiven' = forgiven \cup {c \in Calls : Active(c)}
  /\ UNCHANGED <<pending, worker, window, call, net>>

Told(c) == IF call[c].answer = "lost" THEN "unconfirmed" ELSE "settled"

\* The completion of a probe: the entry of its id is erased and whoever waits
\* for it is told.
Complete(w, latch, told, waiters) ==
  LET c == Head(worker[w].ready)
  IN /\ Open /\ worker[w].ready # <<>>
     /\ worker' = [worker EXCEPT ![w].ready = Tail(@)]
     /\ IF pending[call[c].id] = 0 THEN UNCHANGED <<pending, lost, call>>
        ELSE /\ pending' = [pending EXCEPT ![call[c].id] = 0]
             /\ lost' = (lost \/ (latch /\ call[c].answer = "lost"))
             /\ call' = [call EXCEPT ![c].told = told, ![c].waiters = waiters]
     /\ UNCHANGED <<window, net, forgiven>>

\* Faulty: whatever comes back counts as settled.
DrainTrusting(w) == worker[w].ready # <<>> /\ Complete(w, TRUE, "settled", 0)

\* Faulty: the cancellations that wait are erased with the entry.
DrainSilent(w) ==
  /\ worker[w].ready # <<>>
  /\ Complete(w, TRUE, Told(Head(worker[w].ready)), call[Head(worker[w].ready)].waiters)

\* The completion message is handled.
Drain(w) == worker[w].ready # <<>> /\ Complete(w, TRUE, Told(Head(worker[w].ready)), 0)

\* OnDestroy raises every flag and shuts the workers down one after the other:
\* the tasks are dropped, the running call is abandoned and joined, and the
\* completions are discarded.
ShutDown(w, from) == [from EXCEPT ![w].tasks = <<>>]

Destroy ==
  /\ Open /\ window' = 1
  /\ call' = [c \in Calls |-> [call[c] EXCEPT !.flag = @ \/ c \in Pending]]
  /\ worker' = ShutDown(1, worker)
  /\ UNCHANGED <<pending, lost, net, forgiven>>

DestroyNext ==
  /\ window \in Workers /\ worker[window].running = 0
  /\ window' = window + 1
  /\ LET emptied == [worker EXCEPT ![window].ready = <<>>]
     IN worker' = IF window = MaxWorkers THEN emptied ELSE ShutDown(window + 1, emptied)
  /\ pending' = IF window = MaxWorkers THEN [i \in Ids |-> 0] ELSE pending
  /\ UNCHANGED <<lost, call, net, forgiven>>

-----------------------------------------------------------------------------
(* A worker and its call *)

Stopping(w) == window # 0 /\ window >= w

Pick(w) ==
  /\ ~Stopping(w) /\ worker[w].running = 0 /\ worker[w].tasks # <<>>
  /\ LET c == Head(worker[w].tasks)
     IN /\ worker' = [worker EXCEPT ![w].tasks = Tail(@), ![w].running = c]
        /\ call' = [call EXCEPT ![c].at = "invoked"]
  /\ UNCHANGED <<pending, lost, window, net, forgiven>>

\* The call returns and its completion is queued, for a worker that is shut
\* down too.
Return(c, answer) ==
  /\ call' = [call EXCEPT ![c].at = "over", ![c].answer = answer]
  /\ worker' = [worker EXCEPT ![call[c].worker].running = 0,
                              ![call[c].worker].ready = Append(@, c)]

\* The request is written, unless the call is cancelled or abandoned before.
Send(c) ==
  /\ call[c].at = "invoked" /\ ~call[c].flag /\ ~Stopping(call[c].worker)
  /\ call' = [call EXCEPT ![c].at = "waiting", ![c].svc = "sent"]
  /\ UNCHANGED <<pending, lost, worker, window, net, forgiven>>

\* Nothing is sent: a cancelled probe is withdrawn, another one is unconfirmed.
NotSent(c) ==
  /\ call[c].at = "invoked" /\ Return(c, IF call[c].flag THEN "settled" ELSE "lost")
  /\ UNCHANGED <<pending, lost, window, net, forgiven>>

Answered(c) ==
  /\ call[c].at = "waiting" /\ call[c].svc = "retired" /\ Return(c, "settled")
  /\ UNCHANGED <<pending, lost, window, net, forgiven>>

\* The time is over, the wait abandoned or the pipe broken.
NoAnswer(c) ==
  /\ call[c].at = "waiting"
  /\ call' = [call EXCEPT ![c].at = "lost", ![c].flag = TRUE]
  /\ UNCHANGED <<pending, lost, worker, window, net, forgiven>>

\* The companion's last cancellation, and the join.
GiveUp(c) ==
  /\ call[c].at = "lost" /\ Return(c, "lost")
  /\ UNCHANGED <<pending, lost, window, net, forgiven>>

\* The companion's cancellation reaches the service while the probe is listed.
CancelCandidateProbe(c) ==
  /\ call[c].at \in {"waiting", "lost"} /\ call[c].flag /\ ~call[c].cancelled
  /\ call[c].svc \in {"listed", "core", "back", "judged"}
  /\ call' = [call EXCEPT ![c].cancelled = TRUE]
  /\ UNCHANGED <<pending, lost, worker, window, net, forgiven>>

-----------------------------------------------------------------------------
(* The service *)

Listed == {c \in Calls : call[c].svc \in {"listed", "core", "back", "judged"}}
Service(c, what) == call' = [call EXCEPT ![c] = what]
                    /\ UNCHANGED <<pending, lost, worker, window, net, forgiven>>

\* The table takes four probes of different ids; another one is answered.
Admit(c) ==
  /\ call[c].svc = "sent"
  /\ Service(c, IF Cardinality(Listed) >= MaxProbes \/ \E d \in Listed : call[d].id = call[c].id
                THEN [call[c] EXCEPT !.svc = "retired", !.result = "failed"]
                ELSE [call[c] EXCEPT !.svc = "listed"])

\* There must be a Core and the network the caller expects.
ReadNetwork(c, core) ==
  /\ call[c].svc = "listed"
  /\ Service(c, IF core /\ call[c].expected = net
                THEN [call[c] EXCEPT !.svc = "core", !.seen = net]
                ELSE [call[c] EXCEPT !.svc = "judged", !.result = "failed"])

\* The Core's answer; an interruption it polls for may come too late for it.
CoreProbe(c, success) ==
  /\ call[c].svc = "core"
  /\ Service(c, [call[c] EXCEPT !.svc = "back", !.result = IF success THEN "success" ELSE "failed"])

\* A late success is rejected when the network changed or the probe was cancelled.
Judge(c) ==
  /\ call[c].svc = "back"
  /\ Service(c, [call[c] EXCEPT !.svc = "judged",
                   !.result = IF call[c].seen # net \/ call[c].cancelled THEN "failed" ELSE @])

\* The probe leaves the table, and only then is the answer written.
Retire(c) == call[c].svc = "judged" /\ Service(c, [call[c] EXCEPT !.svc = "retired"])

NetworkChanges ==
  /\ net < MaxNet /\ net' = net + 1
  /\ call' = [c \in Calls |-> [call[c] EXCEPT !.changed = @ \/ call[c].svc \in {"core", "back"}]]
  /\ UNCHANGED <<pending, lost, worker, window, forgiven>>

-----------------------------------------------------------------------------
WindowStep ==
  \/ \E i \in Ids : CancelPending(i) \/ \E ref \in 1..net : ProbeCandidate(i, ref)
  \/ CandidateNetwork \/ Destroy
DrainStep == DestroyNext \/ \E w \in Workers : Drain(w)
WorkerStep ==
  \/ \E w \in Workers : Pick(w)
  \/ \E c \in Calls : Send(c) \/ NotSent(c) \/ Answered(c) \/ NoAnswer(c) \/ GiveUp(c)
ServiceStep ==
  \E c \in Calls :
    \/ Admit(c) \/ Judge(c) \/ Retire(c) \/ CancelCandidateProbe(c)
    \/ \E b \in BOOLEAN : ReadNetwork(c, b) \/ CoreProbe(c, b)

\* The window closes, or nobody asks for another probe.
Rests == (~Open \/ \A c \in Calls : call[c].at = "over") /\ UNCHANGED vars

Next == WindowStep \/ DrainStep \/ WorkerStep \/ ServiceStep \/ NetworkChanges \/ Rests
Spec == Init /\ [][Next]_vars

\* The window's messages are handled, threads run on, a call is bounded in time
\* and the Core polls for interruption.
Fairness ==
  /\ WF_vars(DrainStep) /\ WF_vars(WorkerStep)
  /\ \A c \in Calls :
       /\ WF_vars(Admit(c)) /\ WF_vars(\E b \in BOOLEAN : ReadNetwork(c, b))
       /\ WF_vars(\E b \in BOOLEAN : CoreProbe(c, b)) /\ WF_vars(Judge(c)) /\ WF_vars(Retire(c))

-----------------------------------------------------------------------------
TypeOK ==
  /\ pending \in [Ids -> 0..MaxCalls] /\ lost \in BOOLEAN /\ forgiven \subseteq Calls
  /\ window \in 0..(MaxWorkers + 1) /\ net \in 1..MaxNet
  /\ \A w \in Workers :
       /\ worker[w].running \in 0..MaxCalls
       /\ {worker[w].tasks, worker[w].ready} \subseteq Seq(Calls)
  /\ \A c \in Calls :
       /\ call[c].at \in {"free", "queued", "invoked", "waiting", "lost", "over"}
       /\ call[c].svc \in {"none", "sent", "listed", "core", "back", "judged", "retired"}
       /\ call[c].told \in {"none", "settled", "unconfirmed"}
  /\ Cardinality(Listed) <= MaxProbes

\* A probe never waits behind another one: each pending candidate has a worker
\* of its own, and its worker has nothing else to do.
WorkerPerCandidate ==
  Open => \A w \in Workers :
    Len(worker[w].tasks) + (IF worker[w].running = 0 THEN 0 ELSE 1) + Len(worker[w].ready) <= 1

\* A caller that is told that its probe, or its cancellation, is settled can
\* rely on it: the service has closed that probe.
SettledIsRetired ==
  \A c \in Calls : call[c].told = "settled" => call[c].svc \in {"none", "retired"}

\* A probe the service may still run and the window does not track any more
\* keeps the latch set, until a network read clears it.
WatchedOrLatched ==
  \A c \in Calls : Active(c) => \/ pending[call[c].id] = c \/ lost
                                \/ ~Open \/ c \in forgiven

\* A success the service answers was measured on one network, the one the
\* caller asked for.
SuccessOnOneNetwork ==
  \A c \in Calls : call[c].svc = "retired" /\ call[c].result = "success" =>
    ~call[c].changed /\ call[c].seen = call[c].expected

\* What is believed of a candidate probe is so, on the side of the window and on
\* that of the service.
ProbesAreTracked ==
  TypeOK /\ WorkerPerCandidate /\ SettledIsRetired /\ WatchedOrLatched /\ SuccessOnOneNetwork

\* Every cancellation is answered while the window is open.
CancelIsAnswered ==
  \A c \in Calls : call[c].waiters > 0 ~> (call[c].waiters = 0 \/ ~Open)

\* A window that closes joins all its workers.
CloseEnds == ~Open ~> window > MaxWorkers

=============================================================================

------------------------ MODULE WindowsServiceClient ------------------------
(***************************************************************************)
(* One cancellable call of the service by the user interface               *)
(* (service_client.cpp): Exchange with its handshake, its request and its  *)
(* companion thread that carries a cancellation, InvokeService's check of  *)
(* the answer, the exact cancellation and the settlement of a bound        *)
(* connect.  Any exchange may be lost on either way.  The service is       *)
(* external: one operation that the request starts, as WindowsDispatcher   *)
(* treats it.                                                              *)
(***************************************************************************)
CONSTANT Kinds   \* the calls tried: subset of {"connect", "bound", "probe"}

KindsAssumption == Kinds \subseteq {"connect", "bound", "probe"}

VARIABLES
  kind,       \* which command the call sends
  owned,      \* the caller passed a ServiceCallControl
  call,       \* where Exchange and InvokeService are
  control,    \* ServiceCallControl: cancel_requested, abandon_wait, completed,
              \* and whether bound_cancellation_target is set
  finished,   \* `finished`, that the companion looks at
  companion,  \* the companion thread
  tried,      \* a cancellation of the request was sent
  outcome,    \* what the call returned
  receipt,    \* what the last settlement said
  request,    \* the request on its way: "none", "sent", "read", "dropped"
  op,         \* the operation in the service
  reply       \* its answer on the way back

vars == <<kind, owned, call, control, finished, companion, tried, outcome, receipt,
          request, op, reply>>
client == <<kind, owned, finished, companion, outcome, receipt>>
service == <<request, op, reply>>

NewControl == [cancel |-> FALSE, abandon |-> FALSE, completed |-> FALSE, target |-> FALSE]
NewOperation == [at |-> "unseen", interrupted |-> FALSE]

Init ==
  /\ kind \in Kinds /\ owned \in BOOLEAN /\ (kind = "bound" => owned)
  /\ call = "begin" /\ control = NewControl /\ finished = FALSE
  /\ companion = [at |-> "none", done |-> FALSE] /\ tried = FALSE
  /\ outcome = "none" /\ receipt = "none"
  /\ request = "none" /\ op = NewOperation /\ reply = "none"

Cancelled == owned /\ control.cancel
Abandoned == owned /\ control.abandon

\* A candidate probe that was cancelled before it was sent says so.
Unsent == IF kind = "probe" /\ Cancelled THEN "withdrawn" ELSE "unsent"

\* What a call returns that has no answer to its request.
Lost == "lost"

Return(what) ==
  /\ call' = "returned" /\ outcome' = what
  /\ control' = [control EXCEPT !.completed = TRUE]

-----------------------------------------------------------------------------
(* The service *)

\* The session reads the request and the dispatcher makes it its operation.
ServiceReads ==
  /\ request = "sent" /\ request' = "read"
  /\ op' = [op EXCEPT !.at = "running"]
  /\ UNCHANGED <<client, call, control, tried, reply>>

\* The client's end is closed before the session has read the request.
RequestDropped ==
  /\ request = "sent" /\ call \notin {"wait", "write"}
  /\ request' = "dropped"
  /\ UNCHANGED <<client, call, control, tried, op, reply>>

\* A start ends: well, if nothing interrupted it, or not.  Only a bound
\* connect and its owner stay behind.
ServiceEnds(well) ==
  /\ op.at = "running" /\ (well => ~op.interrupted)
  /\ op' = [op EXCEPT !.at = IF well /\ kind # "probe" THEN "up" ELSE "ended"]
  /\ reply' = IF well THEN "done" ELSE "failed"
  /\ UNCHANGED <<client, call, control, tried, request>>

\* The watcher stops an established bound connect that was cancelled.
ServiceStops ==
  /\ op.at = "up" /\ op.interrupted /\ kind = "bound"
  /\ op' = [op EXCEPT !.at = "ended"]
  /\ UNCHANGED <<client, call, control, tried, request, reply>>

\* A cancel reaches the service while its target is active there.
Active == op.at = "running" \/ (op.at = "up" /\ kind = "bound")
Interrupt == op' = IF Active THEN [op EXCEPT !.interrupted = TRUE] ELSE op

-----------------------------------------------------------------------------
(* Exchange *)

\* Nothing is sent for a call that is cancelled or abandoned.
Begin ==
  /\ call = "begin"
  /\ IF Abandoned \/ (Cancelled /\ kind # "probe") THEN Return(Unsent)
     ELSE call' = "open" /\ UNCHANGED <<control, outcome>>
  /\ UNCHANGED <<kind, owned, finished, companion, tried, receipt, service>>

\* A step of the handshake: nothing is sent yet that would have to be cancelled.
Step(here, there, ok) ==
  /\ call = here
  /\ IF ok THEN call' = there /\ UNCHANGED <<control, outcome>> ELSE Return(Unsent)
  /\ UNCHANGED <<kind, owned, finished, companion, tried, receipt, service>>

\* The pipe is waited for and opened.
OpenNamedPipeClient(ok) == Step("open", "trust", ok)

\* The process behind the pipe is the registered service, by its id and path.
IsExpectedServer(ok) == Step("trust", "hello", ok)

\* The hellos are exchanged and the capabilities of the command compared.
Hello(ok) == Step("hello", "limit", ok)

\* A bound connect whose time is over, or has not begun, is not sent.
BoundIpcWait(ok) == (~ok => kind = "bound") /\ Step("limit", "publish", ok)

\* The last look at the flag; a bound connect publishes its target before a
\* byte of it is written.
Publish ==
  /\ call = "publish"
  /\ IF Cancelled THEN Return(Unsent)
     ELSE /\ call' = "write" /\ control' = [control EXCEPT !.target = (kind = "bound")]
          /\ UNCHANGED outcome
  /\ UNCHANGED <<kind, owned, finished, companion, tried, receipt, service>>

\* The request is written and the companion started.
Write ==
  /\ call = "write" /\ ~Abandoned
  /\ request' = "sent" /\ call' = "wait"
  /\ companion' = [companion EXCEPT !.at = IF owned THEN "look" ELSE "none"]
  /\ UNCHANGED <<kind, owned, control, finished, tried, outcome, receipt, op, reply>>

\* The write fails, which does not say that the service has not got it.
WriteFails(got) ==
  /\ call = "write"
  /\ request' = (IF got THEN "sent" ELSE "none") /\ call' = "cancel"
  /\ UNCHANGED <<client, control, tried, op, reply>>

\* The answer comes, of the service's end or of another thing than asked.
Answered(strange) ==
  /\ call = "wait" /\ reply # "none"
  /\ call' = IF strange THEN "strange" ELSE reply
  /\ UNCHANGED <<client, control, tried, service>>

\* Faulty: completion is published before the cancellation.
NoAnswerLate ==
  /\ call = "wait"
  /\ finished' = TRUE
  /\ call' = "lost"
  /\ UNCHANGED <<kind, owned, companion, outcome, receipt, control, tried, service>>

\* No answer: the time is over, the wait abandoned or the pipe broken.  The
\* cancellation is published before the completion.
NoAnswer ==
  /\ call = "wait"
  /\ control' = [control EXCEPT !.cancel = owned \/ @]
  /\ call' = "lost"
  /\ UNCHANGED <<client, tried, service>>

\* finished = true, and the companion is joined.
Finish ==
  /\ call \in {"done", "failed", "strange", "lost"} /\ ~finished
  /\ finished' = TRUE
  /\ UNCHANGED <<kind, owned, companion, outcome, receipt, call, control, tried, service>>

\* A snapshot that cannot be read or is of another profile or Core makes the
\* call cancel its request.
Verdict(intact, accepted) ==
  /\ CASE call = "lost" /\ owned -> Return(Lost)
       [] call = "failed" /\ (intact \/ kind = "probe") -> Return("failed")
       [] call = "done" /\ (intact \/ kind = "probe") ->
            Return(IF kind = "probe" /\ ~intact THEN Lost ELSE accepted)
       [] OTHER -> call' = "cancel" /\ UNCHANGED <<control, outcome>>
  /\ UNCHANGED <<kind, owned, finished, companion, tried, receipt, service>>

\* The companion is joined, the pipe closed and the answer judged.
Judge(intact) ==
  /\ call \in {"done", "failed", "strange", "lost"} /\ finished
  /\ companion.at \in {"none", "ended"}
  /\ Verdict(intact, "accepted")

\* One cancellation of exactly this request, heard or not; then the call ends.
CancelOnce(heard) ==
  /\ call = "cancel"
  /\ tried' = TRUE
  /\ IF heard THEN Interrupt ELSE UNCHANGED op
  /\ Return(Lost)
  /\ UNCHANGED <<kind, owned, finished, companion, receipt, request, reply>>

-----------------------------------------------------------------------------
(* The companion thread *)

\* It looks at finished first and at the flag second.
CompanionLooks ==
  /\ companion.at = "look"
  /\ companion' = [at |-> "flag", done |-> finished]
  /\ UNCHANGED <<kind, owned, call, control, finished, tried, outcome, receipt, service>>

\* Faulty: it ends when the service has taken the cancellation, not before.
CompanionActsUntilTaken(heard) ==
  /\ companion.at = "flag"
  /\ IF Cancelled
     THEN /\ tried' = TRUE
          /\ companion' = [companion EXCEPT !.at = IF heard /\ Active THEN "ended" ELSE "look"]
          /\ IF heard THEN Interrupt ELSE UNCHANGED op
     ELSE /\ companion' = [companion EXCEPT !.at = IF companion.done THEN "ended" ELSE "look"]
          /\ UNCHANGED <<tried, op>>
  /\ UNCHANGED <<kind, owned, call, control, finished, outcome, receipt, request, reply>>

\* It sends the cancellation until the service takes it, and once more when the
\* call is over; without one it ends with the call.
CompanionActs(heard) ==
  /\ companion.at = "flag"
  /\ IF Cancelled
     THEN /\ tried' = TRUE
          /\ companion' = [companion EXCEPT !.at =
                             IF (heard /\ Active) \/ companion.done \/ finished
                             THEN "ended" ELSE "look"]
          /\ IF heard THEN Interrupt ELSE UNCHANGED op
     ELSE /\ companion' = [companion EXCEPT !.at = IF companion.done THEN "ended" ELSE "look"]
          /\ UNCHANGED <<tried, op>>
  /\ UNCHANGED <<kind, owned, call, control, finished, outcome, receipt, request, reply>>

-----------------------------------------------------------------------------
(* The owner of the control *)

\* The flag is raised; at shutdown the wait is abandoned with it.
Wish(abandon) ==
  /\ owned /\ ~control.cancel
  /\ control' = [control EXCEPT !.cancel = TRUE, !.abandon = abandon]
  /\ UNCHANGED <<client, call, tried, service>>

\* CancelInstalledServiceConnect: the exact lookup, of a target if there is one.
ExactCancel(heard) ==
  /\ kind = "bound"
  /\ control' = [control EXCEPT !.cancel = TRUE]
  /\ IF control.target
     THEN tried' = TRUE /\ (IF heard THEN Interrupt ELSE UNCHANGED op)
     ELSE UNCHANGED <<tried, op>>
  /\ UNCHANGED <<client, call, request, reply>>

\* What kCancelConnectAndConfirm settles: the operation it has stopped.
Settled == op.at = "ended"

\* ConfirmStoppedConnect before the call has completed answers nothing; without
\* a target it answers for the request that was never written.
ConfirmUnwritten ==
  /\ kind = "bound" /\ receipt # "stopped"
  /\ control' = [control EXCEPT !.cancel = TRUE]
  /\ ~control.completed \/ ~control.target
  /\ receipt' = IF control.completed THEN "stopped" ELSE "none"
  /\ UNCHANGED <<kind, owned, call, finished, companion, tried, outcome, service>>

\* kCancelConnectAndConfirm: the service waits for the start, stops it and says
\* whether the network is as before; it may fail to, or not answer.
ConfirmAnswered(stopped) ==
  /\ kind = "bound" /\ control.completed /\ control.target /\ receipt # "stopped"
  /\ control' = [control EXCEPT !.cancel = TRUE] /\ tried' = TRUE
  /\ op' = IF Active THEN [at |-> IF stopped THEN "ended" ELSE op.at, interrupted |-> TRUE] ELSE op
  /\ receipt' = IF stopped /\ (Active \/ Settled) THEN "stopped" ELSE "unsettled"
  /\ UNCHANGED <<kind, owned, call, finished, companion, outcome, request, reply>>

-----------------------------------------------------------------------------
CallStep ==
  \/ Begin \/ Publish \/ Write \/ NoAnswer \/ Finish
  \/ \E b \in BOOLEAN :
       \/ OpenNamedPipeClient(b) \/ IsExpectedServer(b) \/ Hello(b) \/ BoundIpcWait(b)
       \/ WriteFails(b) \/ Answered(b) \/ Judge(b) \/ CancelOnce(b)
CompanionStep == CompanionLooks \/ \E heard \in BOOLEAN : CompanionActs(heard)
ServiceStep == ServiceReads \/ RequestDropped \/ ServiceStops \/ \E well \in BOOLEAN : ServiceEnds(well)
OwnerStep ==
  \/ \E b \in BOOLEAN : Wish(b) \/ ExactCancel(b) \/ ConfirmAnswered(b)
  \/ ConfirmUnwritten

\* The call is over and nobody asks about it any more.
Rests == call = "returned" /\ UNCHANGED vars

Next == CallStep \/ CompanionStep \/ ServiceStep \/ OwnerStep \/ Rests

Spec == Init /\ [][Next]_vars

\* Transfers are bounded in time, and so is a settlement: the threads move on.
\* The owner of a bound connect that was not accepted asks until it is settled,
\* and the service answers again and again.
Fairness ==
  /\ WF_vars(CallStep) /\ WF_vars(CompanionStep)
  /\ WF_vars(ServiceStep) /\ WF_vars(ConfirmUnwritten /\ control.completed)
  /\ SF_vars(outcome # "accepted" /\ ConfirmAnswered(TRUE))

-----------------------------------------------------------------------------
TypeOK ==
  /\ kind \in Kinds /\ {owned, finished, tried} \subseteq BOOLEAN
  /\ call \in {"begin", "open", "trust", "hello", "limit", "publish", "write", "wait", "done", "failed", "strange",
               "lost", "cancel", "returned"}
  /\ control \in [{"cancel", "abandon", "completed", "target"} -> BOOLEAN]
  /\ companion \in [at : {"none", "look", "flag", "ended"}, done : BOOLEAN]
  /\ outcome \in {"none", "unsent", "withdrawn", "lost", "failed", "accepted"}
  /\ receipt \in {"none", "unsettled", "stopped"}
  /\ request \in {"none", "sent", "read", "dropped"}
  /\ op \in [at : {"unseen", "running", "up", "ended"}, interrupted : BOOLEAN]
  /\ reply \in {"none", "done", "failed"}

\* A call that ends without an answer to the request it may have sent has tried
\* to cancel exactly that request: the companion does not miss a lost answer,
\* and a failed write is not taken for an unsent request.
LostIsCancelled ==
  outcome = "lost" /\ request # "none" /\ (kind = "probe" => op.at # "ended") => tried

\* A probe that is said to be cancelled before dispatch never runs.
WithdrawnNeverRuns == outcome = "withdrawn" => request = "none" /\ op.at = "unseen"

\* The companion uses the call's own variables and is gone when it returns.
CompanionJoined == call \in {"cancel", "returned"} => companion.at \in {"none", "ended"}

\* A bound call that has completed without a published target has sent nothing,
\* so that "stopped" may be answered for it without asking the service.
NoTargetNothingSent ==
  kind = "bound" /\ control.completed /\ ~control.target => request = "none"

\* Once a settlement says that the connect is stopped it stays so: no request
\* is still on its way that could start it.
StoppedStaysStopped ==
  receipt = "stopped" => op.at # "up" /\ op.at # "running" /\ request # "sent"

\* Whatever is lost, cancelled or withdrawn between the call, its companion, the
\* owner and the service, no operation goes on that its owner takes for ended.
NothingRunsUnseen ==
  /\ TypeOK /\ LostIsCancelled /\ WithdrawnNeverRuns /\ CompanionJoined
  /\ NoTargetNothingSent /\ StoppedStaysStopped

\* A call whose flag is raised while it waits ends, and its companion with it.
CallEnds == call = "wait" ~> call = "returned"

\* A bound connect that was not accepted is settled in the end, for an owner
\* that keeps asking: the operation never stays up.
UnacceptedIsSettled ==
  (kind = "bound" /\ outcome \in {"unsent", "lost", "failed"})
    ~> (receipt = "stopped" \/ request \in {"none", "dropped"})
=============================================================================

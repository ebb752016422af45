-------------------------- MODULE WindowsEgressProbe --------------------------
(***************************************************************************)
(* AuthenticatedEgressProbe::Verify and its callers VerifyEgress and       *)
(* RecheckEgress: up to three attempts at an owned responder and its       *)
(* reserve, each a DNS query over the TUN, a TCP connection, a TLS         *)
(* handshake and one or two HTTP exchanges on that connection.  A periodic *)
(* check shares one owner deadline between the two responders; the startup *)
(* check has none.  A clock variable is the time that is left: every wait  *)
(* ends by its answer, its own timeout, the slice of the target or the     *)
(* owner.                                                                  *)
(***************************************************************************)
EXTENDS Naturals, FiniteSets

CONSTANTS
  Kinds,      \* of checks: "startup", "periodic"
  Budgets,    \* time left of a periodic check's deadline when it starts
  IoTime,     \* 3 s: DNS, connect, TLS, send
  HeadTime,   \* 6 s: a response, and each piece of a body
  Gap,        \* 0.9 s: the first retry wait, and what the primary leaves over
  LongGap,    \* 1.5 s: the second retry wait
  NoTime      \* no limit, more than any of these

Times ==
  /\ NoTime \in Nat /\ {IoTime, HeadTime, Gap, LongGap} \subseteq 1..(NoTime - 1)
  /\ Budgets \subseteq 0..(NoTime - 1)

VARIABLES
  kind,
  reserve,     \* reserve # kNone: a second target exists
  deadline,    \* left of deadline_tick, in a periodic check
  slice,       \* left of target_deadline
  attempt, pc,
  io,          \* left of the current wait
  obs,         \* ProbeObservation
  seen,        \* what the connection has carried, a history variable
  failure,     \* of the last attempt; "ok", an empty text in the code, is success
  invalid,     \* invalid_proof_response
  refused,     \* a responder's proof was refused, a history variable
  last,        \* last_observation_: stage and outcome
  ioLast,      \* the last observation that is not of a retry wait, history
  budget,      \* deadline when the check started, history
  left,        \* deadline when the reserve was first tried, history
  cancelled,   \* interrupted() == kCancelled
  verdict,     \* what Verify returned
  validated    \* core_egress_validated_

vars == <<kind, reserve, budget, deadline, slice, attempt, pc, io, obs, seen, failure,
          invalid, refused, last, ioLast, left, cancelled, verdict, validated>>
fixed == <<kind, reserve, budget>>

NoRecord == [stage |-> "none", outcome |-> "none"]
FreshObs == [stage |-> "tun_dns", timed_out |-> FALSE]

Init ==
  /\ kind = "startup" /\ budget = NoTime /\ reserve = FALSE /\ deadline = NoTime
  /\ slice = NoTime /\ attempt = 0 /\ pc = "idle" /\ io = NoTime /\ obs = FreshObs
  /\ seen = {} /\ failure = "none" /\ invalid = FALSE /\ refused = FALSE /\ last = NoRecord
  /\ ioLast = NoRecord /\ left = NoTime /\ cancelled = FALSE /\ verdict = "none"
  /\ validated = FALSE

\* The two interruptions: of the owner, and of the target's slice.
Interrupted == cancelled \/ deadline = 0
TargetInterrupted == Interrupted \/ slice = 0
Count == IF reserve THEN 2 ELSE 1
Index(a) == IF a < Count THEN a ELSE Count - 1

\* RecordObservation: an interruption outweighs what the exchange came to.
Recorded(o, succeeded, interrupted) ==
  [stage |-> o.stage,
   outcome |-> IF cancelled THEN "cancelled"
               ELSE IF interrupted THEN "deadline"
               ELSE IF succeeded THEN "succeeded"
               ELSE IF o.timed_out THEN "timeout" ELSE "failed"]

Record(o, succeeded) ==
  /\ last' = Recorded(o, succeeded, TargetInterrupted) /\ ioLast' = last'

ObservedFailure(o) ==
  CASE o.timed_out /\ o.stage = "tls" -> "tls_timeout"
    [] o.timed_out /\ o.stage = "response" -> "response_timeout"
    [] o.timed_out /\ o.stage \notin {"tls", "response"} -> "timeout"
    [] ~o.timed_out /\ o.stage = "connect" -> "connect_failed"
    [] ~o.timed_out /\ o.stage = "tls" -> "tls_failed"
    [] ~o.timed_out /\ o.stage = "proof" -> "probe_unavailable"
    [] OTHER -> "probe_failed"

-----------------------------------------------------------------------------
(* Verify's loop.                                                          *)

Start(k) ==
  /\ pc = "idle" /\ kind' = k /\ reserve' \in BOOLEAN
  /\ deadline' \in (IF k = "periodic" THEN Budgets ELSE {NoTime})
  /\ budget' = deadline' /\ attempt' = 0 /\ pc' = "attempt" /\ slice' = NoTime /\ io' = NoTime
  /\ obs' = FreshObs /\ seen' = {} /\ failure' = "probe_failed" /\ invalid' = FALSE
  /\ refused' = FALSE
  /\ last' = NoRecord /\ ioLast' = NoRecord /\ left' = NoTime
  /\ cancelled' = FALSE /\ verdict' = "none"
  /\ UNCHANGED validated

\* The primary's share of a periodic check's time.
Slice ==
  IF kind = "periodic" /\ attempt = 0 /\ Count > 1
  THEN ((IF deadline > Gap THEN deadline - Gap ELSE 0) * 3) \div 4
  ELSE deadline

Attempt ==
  /\ pc = "attempt"
  /\ IF attempt < 3 /\ ~Interrupted
     THEN /\ pc' = "dns_setup" /\ slice' = Slice /\ obs' = FreshObs /\ seen' = {}
          /\ left' = IF left = NoTime /\ Index(attempt) = 1 THEN deadline ELSE left
          /\ UNCHANGED verdict
     ELSE /\ pc' = "done" /\ UNCHANGED <<slice, obs, seen, left>>
          /\ verdict' = IF invalid THEN "probe_unavailable"
                        ELSE IF Interrupted THEN "probe_failed" ELSE failure
  /\ UNCHANGED <<fixed, deadline, attempt, io, failure, invalid, refused, last, ioLast, cancelled, validated>>

\* Startup checks and repeats of one target are spaced out.
Waits == attempt < 2 /\ (kind = "startup" \/ Index(attempt) + 1 >= Count)

\* Faulty: only the last attempt's response counts.
InvalidLastOnly == failure = "probe_unavailable"

InvalidAfter == invalid \/ failure = "probe_unavailable"

\* An attempt has ended: success returns, anything else counts against the three.
Judge ==
  /\ pc = "judge"
  /\ IF failure = "ok" /\ ~Interrupted
     THEN /\ pc' = "done" /\ verdict' = "ok" /\ UNCHANGED <<attempt, io, invalid>>
     ELSE /\ invalid' = InvalidAfter
          /\ UNCHANGED verdict
          /\ IF Waits
             THEN /\ pc' = "gap" /\ UNCHANGED attempt
                  /\ io' = (IF attempt = 0 THEN Gap ELSE LongGap)
             ELSE pc' = "attempt" /\ attempt' = attempt + 1 /\ UNCHANGED io
  /\ UNCHANGED <<fixed, deadline, slice, obs, seen, failure, refused, last, ioLast, left,
                 cancelled, validated>>

\* An interrupted retry wait is recorded as an event; the snapshot keeps the
\* failed exchange before it.
WaitRecord ==
  IF last # NoRecord /\ last.outcome # "succeeded" THEN last
  ELSE Recorded([FreshObs EXCEPT !.stage = "retry_wait"], FALSE, Interrupted)

RetryWait ==
  /\ pc = "gap" /\ (io = 0 \/ Interrupted)
  /\ last' = IF Interrupted THEN WaitRecord ELSE last
  /\ pc' = "attempt" /\ attempt' = attempt + 1
  /\ UNCHANGED <<fixed, deadline, slice, io, obs, seen, failure, invalid, refused, ioLast, left,
                 cancelled, verdict, validated>>

-----------------------------------------------------------------------------
(* ProbeOnce.                                                              *)

EndAttempt(f) == pc' = "judge" /\ failure' = f

\* The exchange stops at obs.stage, after an error or at the time limit.
Stop(o, f) == EndAttempt(f) /\ Record(o, FALSE) /\ obs' = o

TimedOut == [obs EXCEPT !.timed_out = TRUE]

\* FindTunDns and QueryProbeAddress up to the request sent.
DnsSetup ==
  /\ pc = "dns_setup"
  /\ \/ /\ \E s \in {"tun_dns", "dns_setup", "dns_send"} :
             Stop([obs EXCEPT !.stage = s], "dns_failed")
        /\ UNCHANGED io
     \/ /\ ~TargetInterrupted /\ pc' = "dns_wait" /\ io' = IoTime
        /\ obs' = [obs EXCEPT !.stage = "dns_wait"]
        /\ UNCHANGED <<failure, last, ioLast>>
  /\ UNCHANGED <<fixed, deadline, slice, attempt, seen, invalid, refused, left, cancelled, verdict,
                 validated>>

\* The reply of the TUN's own resolver: accepted, refused, or not in time.
DnsWait ==
  LET replied == [obs EXCEPT !.stage = "dns_reply"]
  IN /\ pc = "dns_wait"
     /\ \/ /\ ~TargetInterrupted /\ io > 0
           /\ pc' = "connect" /\ io' = IoTime /\ UNCHANGED failure
           /\ Record(replied, TRUE)
           /\ obs' = [FreshObs EXCEPT !.stage = "connect"] /\ seen' = {"dns"}
        \/ /\ ~TargetInterrupted /\ io > 0 /\ Stop(replied, "dns_failed")
           /\ UNCHANGED <<io, seen>>
        \/ /\ TargetInterrupted \/ io = 0
           /\ Stop([obs EXCEPT !.timed_out = io = 0], "dns_failed")
           /\ UNCHANGED <<io, seen>>
  /\ UNCHANGED <<fixed, deadline, slice, attempt, invalid, refused, left, cancelled, verdict, validated>>

\* EgressConnection's waits: a stage fails with an error, is interrupted, or
\* runs out of its own time.
StageFails ==
  \/ /\ ~TargetInterrupted /\ io > 0 /\ Stop(obs, ObservedFailure(obs))
  \/ /\ TargetInterrupted /\ Stop(obs, ObservedFailure(obs))
  \/ /\ ~TargetInterrupted /\ io = 0 /\ Stop(TimedOut, ObservedFailure(TimedOut))

Goes(next, stage, time, fact) ==
  /\ ~TargetInterrupted /\ io > 0
  /\ pc' = next /\ io' = time /\ obs' = [obs EXCEPT !.stage = stage]
  /\ seen' = seen \cup fact
  /\ UNCHANGED <<failure, refused, last, ioLast>>

\* Connect: the OS route must have led through the TUN.
Connect ==
  /\ pc = "connect"
  /\ \/ Goes("tls", "tls", IoTime, {"tun"})
     \/ StageFails /\ UNCHANGED <<io, seen, refused>>

Handshake ==
  /\ pc = "tls"
  /\ \/ Goes("send", "sending", IoTime, {"tls"})
     \/ StageFails /\ UNCHANGED <<io, seen, refused>>

Write ==
  /\ pc = "send"
  /\ \/ Goes("response", "response", HeadTime, {})
     \/ StageFails /\ UNCHANGED <<io, seen, refused>>

\* Which request the response on this connection answers.
Request == IF "proof" \in seen THEN "data" ELSE "proof"

\* ReadProof: the headers, checked at stage proof; for the data request the
\* body in pieces, each with its own time.
ReadProof ==
  /\ pc = "response"
  /\ \/ StageFails /\ UNCHANGED <<io, seen, refused>>
     \/ /\ ~TargetInterrupted /\ io > 0 /\ UNCHANGED <<io, seen>>
        /\ refused' = TRUE
        /\ Stop([obs EXCEPT !.stage = "proof"], "probe_unavailable")
     \/ Request = "data" /\ Goes("body", "response", HeadTime, {})
     \/ Request = "proof" /\ Goes("proved", "proof", HeadTime, {"proof"})

ReadBody ==
  /\ pc = "body"
  /\ \/ StageFails /\ UNCHANGED <<io, seen, refused>>
     \/ Goes("body", "response", HeadTime, {"part"}) /\ "part" \notin seen
     \/ Goes("proved", "proof", HeadTime, {"data"})

\* After each response: the observation, then the interruption check, and the
\* second request of a startup check on the same connection.
Proved ==
  /\ pc = "proved" /\ Record(obs, ~TargetInterrupted)
  /\ IF TargetInterrupted THEN EndAttempt(ObservedFailure(obs))
     ELSE pc' = "observed" /\ UNCHANGED failure
  /\ UNCHANGED <<io, obs, seen, refused>>

Observed ==
  /\ pc = "observed" /\ UNCHANGED <<seen, last, ioLast, refused>>
  /\ IF ~TargetInterrupted /\ kind = "startup" /\ "data" \notin seen
     THEN /\ pc' = "send" /\ io' = IoTime /\ UNCHANGED failure
          /\ obs' = [obs EXCEPT !.stage = "sending"]
     ELSE /\ EndAttempt(IF TargetInterrupted THEN ObservedFailure(obs) ELSE "ok")
          /\ UNCHANGED <<io, obs>>

Exchange ==
  /\ Connect \/ Handshake \/ Write \/ ReadProof \/ ReadBody \/ Proved \/ Observed
  /\ UNCHANGED <<fixed, deadline, slice, attempt, invalid, left, cancelled, verdict, validated>>

-----------------------------------------------------------------------------
\* VerifyEgress in ConnectImpl, and RecheckEgress: a cancelled recheck leaves
\* the health of the session alone, a deadline makes it unconfirmed.
ValidatedAfter ==
  IF kind = "periodic" /\ cancelled THEN validated ELSE verdict = "ok" /\ ~Interrupted

Finish ==
  /\ pc = "done" /\ pc' = "idle" /\ validated' = ValidatedAfter
  /\ UNCHANGED <<fixed, deadline, slice, attempt, io, obs, seen, failure, invalid, refused, last,
                 ioLast, left, cancelled, verdict>>

Less(t) == IF t = NoTime \/ t = 0 THEN t ELSE t - 1
Waiting == pc \in {"dns_wait", "connect", "tls", "send", "response", "body", "gap"}

\* Time passes; a wait that is over ends before it does (the loops poll).
Tick ==
  /\ pc \notin {"idle", "done"}
  /\ Waiting => io > 0 /\ ~(IF pc = "gap" THEN Interrupted ELSE TargetInterrupted)
  /\ ~Waiting => ~TargetInterrupted /\ pc \in {"proved", "observed"}
  /\ deadline' = Less(deadline) /\ slice' = Less(slice) /\ io' = Less(io)
  /\ UNCHANGED <<fixed, attempt, pc, obs, seen, failure, invalid, refused, last, ioLast, left,
                 cancelled, verdict, validated>>

Cancel ==
  /\ pc # "idle" /\ ~cancelled /\ cancelled' = TRUE
  /\ UNCHANGED <<fixed, deadline, slice, attempt, pc, io, obs, seen, failure, invalid, refused, last,
                 ioLast, left, verdict, validated>>

Step == Attempt \/ Judge \/ RetryWait \/ DnsSetup \/ DnsWait \/ Exchange \/ Finish
Next == (\E k \in Kinds : Start(k)) \/ Step \/ Tick \/ Cancel
Spec == Init /\ [][Next]_vars

\* A wait that is over: nothing but its end is left to happen.
Over == ~Waiting \/ io = 0 \/ (IF pc = "gap" THEN Interrupted ELSE TargetInterrupted)

\* The network need never answer: time passes, and what is over ends.
Fairness == WF_vars(Tick) /\ WF_vars(Over /\ Step)

-----------------------------------------------------------------------------
\* A check passes only on one connection that left through the TUN, to an
\* address the TUN's resolver gave, with the proof and, at startup, the data.
SuccessIsProven ==
  verdict = "ok" => {"dns", "tun", "tls", "proof"} \cup
                  (IF kind = "startup" THEN {"data"} ELSE {}) \subseteq seen

\* A primary that uses all it is given leaves the reserve its share: the gap
\* that was set aside, or all there was when there was less than that.
ReserveGetsItsShare ==
  left # NoTime /\ kind = "periodic"
    => left >= Gap \/ left = budget

\* The snapshot of a failed check shows the exchange that failed, not the retry
\* wait that was interrupted after it.
WaitKeepsTheCause ==
  pc = "done" /\ verdict # "ok" /\ ioLast.outcome \in {"failed", "timeout", "deadline"}
    => last = ioLast

\* "If every attempt fails after a responder returns an invalid HTTP proof, the
\* service reports core_egress_probe_unavailable", whatever failed afterwards.
InvalidProofIsReported ==
  pc = "done" /\ refused /\ verdict # "ok" => verdict = "probe_unavailable"

\* Success is a proof, time is shared, and a failure is reported with its cause.
VerdictIsFounded ==
  SuccessIsProven /\ ReserveGetsItsShare /\ WaitKeepsTheCause /\ InvalidProofIsReported

\* Every check returns, also when no responder ever answers.
CheckReturns == pc # "idle" ~> pc = "idle"
================================================================================

---------------------------- MODULE WindowsProbes ----------------------------
(***************************************************************************)
(* What the Windows service tries out before it relies on it, side by      *)
(* side: candidate transports, the Core's egress, the local DPI engine and *)
(* the control hosts that prove it.  Each serves its own caller and keeps  *)
(* its own specification.                                                  *)
(***************************************************************************)
CONSTANTS
  Ids, MaxWorkers, MaxProbes, MaxCalls, MaxNet,                   \* WindowsCandidateProbe
  Checks, Budgets, IoTime, HeadTime, Gap, LongGap, NoTime,        \* WindowsEgressProbe
  Services, Networks, None, MaxGen, MaxMisses, MaxHints,          \* WindowsLocalDpi
  Hosts, Budget, ObserveTime, MaxResponse                         \* WindowsControlProof

VARIABLES
  pending, lost, worker, window, probe, net, forgiven,            \* WindowsCandidateProbe
  check, reserve, budget, deadline, slice, attempt, pc, io, obs, seen, failure, invalid,
  refused, last, ioLast, left, cancelled, verdict, validated,     \* WindowsEgressProbe
  core, exec, valid, owner, runtime, hints, step, locals, child, proofs, misses,
                                                                  \* WindowsLocalDpi
  proves, index, remaining, wait, at, guard, socket, permit, syn, tls, sent, response, code,
  error, share, current                                           \* WindowsControlProof

candidateVars == <<pending, lost, worker, window, probe, net, forgiven>>
egressVars == <<check, reserve, budget, deadline, slice, attempt, pc, io, obs, seen, failure,
                invalid, refused, last, ioLast, left, cancelled, verdict, validated>>
dpiVars == <<core, exec, valid, owner, runtime, hints, step, locals, child, proofs, misses>>
proofVars == <<proves, index, remaining, wait, at, guard, socket, permit, syn, tls, sent,
               response, code, error, share, current>>

Candidate == INSTANCE WindowsCandidateProbe WITH call <- probe
Egress == INSTANCE WindowsEgressProbe WITH Kinds <- Checks, kind <- check
Dpi == INSTANCE WindowsLocalDpi WITH
  MaxFaults <- MaxMisses, window <- valid, host <- runtime, pc <- step, call <- locals,
  faults <- misses
Proof == INSTANCE WindowsControlProof WITH
  kind <- proves, left <- remaining, io <- wait, pc <- at, failure <- error, status <- code

\* What the window, its workers and the service believe of a candidate probe is so
\* (service_dispatcher.cpp; see ProbesAreTracked in WindowsCandidateProbe).
ProbesAreTracked == Candidate!ProbesAreTracked

\* A check of the egress ends in a verdict that what it saw supports
\* (service_egress_probe.cpp; see VerdictIsFounded in WindowsEgressProbe).
VerdictIsFounded == Egress!VerdictIsFounded

\* Traffic goes to the child of the local DPI engine only while it runs and was
\* proved, and an engine that is disabled leaves nothing published
\* (service_local_dpi.cpp; see PublishedIsServed and DisabledIsOnVpn in
\* WindowsLocalDpi).
DpiPublishedIsServed == Dpi!PublishedIsServed /\ Dpi!DisabledIsOnVpn

\* A proof of the control hosts reports what the hosts answered, and leaves nothing
\* behind (service_local_dpi_probe.cpp; see ProofIsExact in WindowsControlProof).
ProofIsExact == Proof!ProofIsExact
=============================================================================

--------------------------- MODULE MCWindowsProbes ---------------------------
(* What the Windows service tries out before it relies on it, for TLC:       *)
(* candidate transports, the Core's egress, the local DPI engine and the     *)
(* control hosts that prove it. Each serves its own caller, so a behaviour    *)
(* runs one of them and leaves the others in their initial state. All but the *)
(* last have a wide instance for safety and a narrow one for liveness.        *)
EXTENDS WindowsProbes, Naturals, Sequences

VARIABLE runs                                            \* the one that runs

\* Two calls on one network; Candidate has the second network, for one call.
TwoCalls == INSTANCE WindowsCandidateProbe WITH MaxNet <- 1, call <- probe

\* A periodic check that its own deadline ends; Egress has both kinds of checks
\* and the timeouts of single waits.
Hasty == INSTANCE WindowsEgressProbe WITH
  Kinds <- {"periodic"}, IoTime <- 10, HeadTime <- 20, kind <- check

\* One service on two networks, and two calls that fail; Dpi has two services.
OneService == INSTANCE WindowsLocalDpi WITH
  Services <- <<"video">>, Networks <- {"home", "cafe"}, MaxFaults <- MaxMisses,
  window <- valid, host <- runtime, pc <- step, call <- locals, faults <- misses
TwoFaults == INSTANCE WindowsLocalDpi WITH
  Services <- <<"video">>, MaxFaults <- 2,
  window <- valid, host <- runtime, pc <- step, call <- locals, faults <- misses
MCServices == <<"video", "music">>

ASSUME /\ Candidate!ProbeAssumption /\ TwoCalls!ProbeAssumption /\ Egress!Times /\ Hasty!Times
       /\ Dpi!DpiAssumption /\ OneService!DpiAssumption /\ TwoFaults!DpiAssumption
       /\ Proof!Sizes

Init ==
  /\ runs \in {"twoCalls", "candidate", "hasty", "egress", "dpi", "oneService", "twoFaults",
              "proof"}
  /\ Candidate!Init /\ Egress!Init /\ Proof!Init
  /\ CASE runs = "oneService" -> OneService!Init
       [] runs = "twoFaults" -> TwoFaults!Init
       [] OTHER -> Dpi!Init

\* One call is made, and nobody asks for another.
OneCall ==
  \/ Candidate!Next /\ probe'[2] = probe[2]
  \/ probe[1].at = "over" /\ UNCHANGED candidateVars

Next ==
  \/ /\ \/ runs = "twoCalls" /\ TwoCalls!Next
        \/ runs = "candidate" /\ OneCall
     /\ UNCHANGED <<runs, egressVars, dpiVars, proofVars>>
  \/ /\ \/ runs = "hasty" /\ Hasty!Next
        \/ runs = "egress" /\ Egress!Next
     /\ UNCHANGED <<runs, candidateVars, dpiVars, proofVars>>
  \/ /\ \/ runs = "dpi" /\ Dpi!Next
        \/ runs = "oneService" /\ OneService!Next
        \/ runs = "twoFaults" /\ TwoFaults!Next
     /\ UNCHANGED <<runs, candidateVars, egressVars, proofVars>>
  \/ /\ runs = "proof" /\ Proof!Next
     /\ UNCHANGED <<runs, candidateVars, egressVars, dpiVars>>

\* The fairness of each module, while its narrow instance runs.
Fairness ==
  /\ WF_candidateVars(runs = "candidate" /\ Candidate!DrainStep)
  /\ WF_candidateVars(runs = "candidate" /\ Candidate!WorkerStep)
  /\ \A c \in Candidate!Calls :
       /\ WF_candidateVars(runs = "candidate" /\ Candidate!Admit(c))
       /\ WF_candidateVars(runs = "candidate" /\ \E b \in BOOLEAN : Candidate!ReadNetwork(c, b))
       /\ WF_candidateVars(runs = "candidate" /\ \E b \in BOOLEAN : Candidate!CoreProbe(c, b))
       /\ WF_candidateVars(runs = "candidate" /\ Candidate!Judge(c))
       /\ WF_candidateVars(runs = "candidate" /\ Candidate!Retire(c))
  /\ WF_egressVars(runs = "egress" /\ Egress!Tick)
  /\ WF_egressVars(runs = "egress" /\ Egress!Over /\ Egress!Step)
  /\ WF_dpiVars(runs = "twoFaults" /\ TwoFaults!Operation)
  /\ WF_dpiVars(runs = "twoFaults" /\ TwoFaults!Watch)
  /\ WF_proofVars(runs = "proof" /\ Proof!Tick)
  /\ WF_proofVars(runs = "proof" /\ (Proof!NextHost \/ Proof!Exchange \/ Proof!Judge)
                                 /\ (Proof!Waiting => ~Proof!InTime))

Spec ==
  Init /\ [][Next]_<<runs, candidateVars, egressVars, dpiVars, proofVars>> /\ Fairness

\* Cancellations are answered and closing windows join their workers; a check
\* and a proof return although nobody answers; a dead child is withdrawn and a
\* session on an expired catalog ends (the liveness properties of the modules).
ProbesEnd ==
  /\ runs = "candidate" => Candidate!CancelIsAnswered /\ Candidate!CloseEnds
  /\ runs = "egress" => Egress!CheckReturns
  /\ runs = "twoFaults" => TwoFaults!DeadChildIsWithdrawn /\ TwoFaults!ExpiredCatalogEnds
  /\ runs = "proof" => Proof!ProofEnds
================================================================================

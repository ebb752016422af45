-------------------------- MODULE NetworkReference --------------------------
(***************************************************************************)
(* What the services' network observers promise about the references they *)
(* give out: at any time at most one reference is valid, a change of the   *)
(* network makes it invalid, and an invalid reference never comes back.    *)
(* References are numbered in the order they are made; 0 is none.          *)
(***************************************************************************)
EXTENDS Naturals

VARIABLES
  valid,      \* the reference that names the network of this moment, or 0
  issued      \* references made so far

vars == <<valid, issued>>

TypeOK == valid \in Nat /\ issued \in Nat /\ valid <= issued

Init == valid = 0 /\ issued = 0

\* A new reference; the network may have changed while it was made.
Issue ==
  /\ valid = 0
  /\ issued' = issued + 1
  /\ valid' \in {0, issued'}

\* The network has changed, or can no longer be observed.
Invalidate ==
  /\ valid # 0
  /\ valid' = 0
  /\ UNCHANGED issued

Next == Issue \/ Invalidate

Spec == Init /\ [][Next]_vars

\* A reference that was invalid does not become valid: what a step makes valid
\* is newer than everything made before it.
NeverReissued == [][valid' = valid \/ valid' = 0 \/ valid' > issued]_vars

=============================================================================

------------------------ MODULE MCLinuxProfileStore ------------------------
(* Two payloads are enough to replace a profile by a different one.        *)
EXTENDS LinuxProfileStore, TLC

CONSTANTS p1, p2

\* Nothing tells one payload from another.
Payloads == Permutations({p1, p2})
=============================================================================

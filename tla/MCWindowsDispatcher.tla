------------------------- MODULE MCWindowsDispatcher ------------------------
(* WindowsDispatcher for TLC. All its clients at once are out of reach, so  *)
(* a behaviour has one of three sets of them: those that compete for a      *)
(* bound session (Competing), those that use its lease (Leasing), and those *)
(* with profiles of the older commands (Helping). The variables are the     *)
(* same, and so are the invariants: a set of clients makes some of the      *)
(* requests that WindowsDispatcher allows. A fourth set, small enough for   *)
(* liveness, is in MCWindowsRuntimeHost.                                    *)
EXTENDS WindowsDispatcher, TLC

CONSTANTS b1, b2, p1, r1

VARIABLE clients     \* which set of clients a behaviour has

Competing == INSTANCE WindowsDispatcher WITH
  Targets <- {b1, b2}, Bound <- {b1, b2}, Leased <- {b1}, Replacing <- {},
  Dpi <- {b1}, Telegram <- {}, MaxRequests <- 3,
  Offered <- {"connect", "cancel", "confirm", "promote", "disconnect"}

Leasing == INSTANCE WindowsDispatcher WITH
  Targets <- {b1}, Bound <- {b1}, Leased <- {b1}, Replacing <- {},
  Dpi <- {b1}, Telegram <- {b1}, MaxRequests <- 3,
  Offered <- {"connect", "promote", "revoke", "terminate", "configure", "status", "catalog"}

Helping == INSTANCE WindowsDispatcher WITH
  Targets <- {p1, r1}, Bound <- {}, Leased <- {}, Replacing <- {r1},
  Dpi <- {p1}, Telegram <- {r1}, MaxRequests <- 2,
  Offered <- {"connect", "disconnect", "stage", "catalog", "leases", "confirm"}

ASSUME
  /\ TargetsAssumption /\ BoundsAssumption
  /\ Competing!TargetsAssumption /\ Competing!BoundsAssumption
  /\ Leasing!TargetsAssumption /\ Leasing!BoundsAssumption
  /\ Helping!TargetsAssumption /\ Helping!BoundsAssumption

MCInit == clients \in {"competing", "leasing", "helping"} /\ Init

MCNext ==
  \/ clients = "competing" /\ Competing!Next /\ UNCHANGED clients
  \/ clients = "leasing" /\ Leasing!Next /\ UNCHANGED clients
  \/ clients = "helping" /\ Helping!Next /\ UNCHANGED clients

MCVars == <<vars, clients>>

MCSpec == MCInit /\ [][MCNext]_MCVars

HandlerSymmetry == Permutations(Handlers)
=============================================================================

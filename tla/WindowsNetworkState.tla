------------------------ MODULE WindowsNetworkState -------------------------
(***************************************************************************)
(* The snapshot of the POKROV adapter and its restoration on Windows:      *)
(* service/service_network_state.cpp.                                      *)
(*                                                                         *)
(* Capture and Restore are sequences of system calls on one adapter, each  *)
(* of which may fail; the service may die between any two, and the adapter *)
(* may vanish under them.  The journal (WindowsRuntimeHost) calls Restore  *)
(* again until it succeeds.  A setting is the user's, the Core's, or       *)
(* cleared; addresses and routes are sets.                                 *)
(***************************************************************************)
EXTENDS Naturals, FiniteSets

CONSTANTS
  UserAddresses, CoreAddresses,
  UserRoutes, CoreRoutes,
  OnLink,           \* the route Windows makes with an address
  Families,
  None,
  MaximumAddresses, MaximumRoutes,    \* kMaximumAddresses, kMaximumRoutes
  MaxFaults         \* failed calls, crashes, adapters that vanish

Addresses == UserAddresses \cup CoreAddresses
Routes == UserRoutes \cup CoreRoutes

VARIABLES
  adapter,      \* the adapter taken for the service's, or None
  snapshot,     \* what Capture made and the journal keeps, or None
  pc,           \* of the call under way
  draft,        \* the snapshot Capture is making
  todo,         \* what is left of the present loop of Capture or Restore
  session,      \* "none", "captured", "core", "rollback", "restored"
  user,         \* the adapter as the user had it
  twin,         \* another adapter has the name
  faults

vars == <<adapter, snapshot, pc, draft, todo, session, user, twin, faults>>

Owners == {"user", "core", "clear"}
Adapters == [interface : [Families -> Owners], addresses : SUBSET Addresses,
             routes : SUBSET Routes, dns : [Families -> Owners]]

StateAssumption ==
  /\ IsFiniteSet(Addresses) /\ IsFiniteSet(Routes)
  /\ OnLink \in [Addresses -> Routes] /\ MaxFaults \in Nat
  /\ MaximumAddresses \in Nat /\ MaximumRoutes \in Nat
  /\ \A a \in UserAddresses : OnLink[a] \in UserRoutes
  /\ None \notin Adapters

UserAdapter ==
  [interface |-> [f \in Families |-> "user"], addresses |-> UserAddresses,
   routes |-> UserRoutes, dns |-> [f \in Families |-> "user"]]
CoreAdapter ==
  [interface |-> [f \in Families |-> "core"], addresses |-> CoreAddresses,
   routes |-> CoreRoutes, dns |-> [f \in Families |-> "core"]]
BlankAdapter ==
  [interface |-> [f \in Families |-> "user"], addresses |-> {}, routes |-> {},
   dns |-> [f \in Families |-> "clear"]]

\* An adapter the user has named POKROV.
Namesake == UserAdapter

\* NetworkSnapshot: whether the adapter was there, and what was read of it.
AbsentSnapshot == [existed |-> FALSE, of |-> BlankAdapter]
Snapshots == [existed : BOOLEAN, of : Adapters]

Labels == {"idle", "captureAddresses", "captureRoutes", "captureDns",
           "find", "routes", "addresses", "dns", "interface",
           "makeAddresses", "makeRoutes", "setDns"}

TypeOK ==
  /\ adapter \in Adapters \cup {None} /\ snapshot \in Snapshots \cup {None}
  /\ pc \in Labels /\ draft \in Adapters
  /\ todo \in SUBSET (Addresses \cup Routes \cup Families)
  /\ session \in {"none", "captured", "core", "rollback", "restored"}
  /\ user \in Adapters \cup {None} /\ twin \in BOOLEAN /\ faults \in 0..MaxFaults

Fault == faults < MaxFaults /\ faults' = faults + 1
Goto(label, left) == pc' = label /\ todo' = left

-----------------------------------------------------------------------------
(* Capture.                                                                *)

Keep(s) ==
  /\ snapshot' = s /\ session' = "captured"
  /\ Goto("idle", {})

\* The interface fields of both families.
CaptureInterface(a) == [BlankAdapter EXCEPT !.interface = a.interface]

\* FindOwnedAdapter looks by GUID and by name.  Two adapters are an error; one
\* that only has the name is taken for the service's own.
Ambiguous == twin /\ adapter # None
Found == IF twin THEN Namesake ELSE adapter

Capture ==
  /\ session = "none" /\ pc = "idle" /\ ~Ambiguous
  /\ IF Found = None
     THEN Keep(AbsentSnapshot) /\ UNCHANGED <<adapter, user, twin, draft>>
     ELSE /\ adapter' = Found /\ twin' = FALSE /\ draft' = CaptureInterface(Found)
          /\ user' = IF twin THEN Found ELSE user
          /\ Goto("captureAddresses", {})
          /\ UNCHANGED <<snapshot, session>>
  /\ UNCHANGED faults

\* The tables hold every adapter's rows: one that has vanished has none.
CaptureAddresses ==
  /\ pc = "captureAddresses"
  /\ LET rows == IF adapter = None THEN {} ELSE adapter.addresses IN
     IF Cardinality(rows) > MaximumAddresses
     THEN Goto("idle", {}) /\ UNCHANGED draft
     ELSE draft' = [draft EXCEPT !.addresses = rows] /\ Goto("captureRoutes", {})
  /\ UNCHANGED <<adapter, snapshot, session, user, twin, faults>>

CaptureRoutes ==
  /\ pc = "captureRoutes"
  /\ LET rows == IF adapter = None THEN {} ELSE adapter.routes IN
     IF Cardinality(rows) > MaximumRoutes
     THEN Goto("idle", {}) /\ UNCHANGED draft
     ELSE draft' = [draft EXCEPT !.routes = rows] /\ Goto("captureDns", {})
  /\ UNCHANGED <<adapter, snapshot, session, user, twin, faults>>

\* The name servers are asked of the adapter itself, last of all.
CaptureDns ==
  /\ pc = "captureDns"
  /\ \/ /\ adapter # None
        /\ Keep([existed |-> TRUE, of |-> [draft EXCEPT !.dns = adapter.dns]])
     \/ /\ adapter = None
        /\ Goto("idle", {}) /\ UNCHANGED <<snapshot, session>>
  /\ UNCHANGED <<adapter, draft, user, twin, faults>>

\* ParseSnapshot of what Serialize wrote: the limits of Capture, once more.
ParseSnapshot(s) ==
  ~s.existed \/ (Cardinality(s.of.addresses) <= MaximumAddresses
                 /\ Cardinality(s.of.routes) <= MaximumRoutes)

-----------------------------------------------------------------------------
(* Between the calls: the Core, and the journal's decision to roll back.   *)

CoreStarts ==
  /\ session = "captured"
  /\ session' = "core"
  /\ adapter' \in {CoreAdapter, adapter}
  /\ UNCHANGED <<snapshot, pc, draft, todo, user, twin, faults>>

\* The Core has stopped; Wintun takes its adapter away or leaves it.
RollbackBegins ==
  /\ session \in {"captured", "core"}
  /\ session' = "rollback"
  /\ adapter' \in {adapter, None}
  /\ UNCHANGED <<snapshot, pc, draft, todo, user, twin, faults>>

\* Windows removes the adapter at any other moment.
AdapterVanishes ==
  /\ Fault /\ adapter # None /\ session # "restored"
  /\ adapter' = None
  /\ UNCHANGED <<snapshot, pc, draft, todo, session, user, twin>>

\* An adapter with the name, and not the service's, appears or goes.
TwinChanges ==
  /\ Fault /\ twin' = ~twin
  /\ UNCHANGED <<adapter, snapshot, pc, draft, todo, session, user>>

\* The call under way ends with an error, or with the service.
CallFails ==
  /\ Fault /\ pc # "idle"
  /\ Goto("idle", {})
  /\ UNCHANGED <<adapter, snapshot, draft, session, user, twin>>

-----------------------------------------------------------------------------
(* Restore.                                                                *)

Target == snapshot.of
Unchanged == UNCHANGED <<snapshot, draft, user, twin, faults>>

Settle == session' = "restored" /\ Goto("idle", {})

\* A snapshot that can be read; then the adapter, by GUID or by name.
Restore ==
  /\ session = "rollback" /\ pc = "idle" /\ ParseSnapshot(snapshot)
  /\ Goto("find", {})
  /\ UNCHANGED <<adapter, session>> /\ Unchanged

Finds(a) == adapter' = a /\ twin' = FALSE /\ Goto("routes", a.routes) /\ UNCHANGED session
FindFails == Goto("idle", {}) /\ UNCHANGED <<adapter, twin, session>>

\* Faulty: an adapter that is not there is an error in every case.
FindOwnedAdapterAlways ==
  /\ pc = "find"
  /\ IF Ambiguous \/ Found = None THEN FindFails ELSE Finds(Found)
  /\ UNCHANGED <<snapshot, draft, user, faults>>

FindOwnedAdapter ==
  /\ pc = "find"
  /\ \/ Ambiguous /\ FindFails                         \* owner_ambiguous
     \/ /\ Found = None
        /\ IF snapshot.existed THEN FindFails
                               ELSE Settle /\ UNCHANGED <<adapter, twin>>
     \/ ~Ambiguous /\ Found # None /\ Finds(Found)
  /\ UNCHANGED <<snapshot, draft, user, faults>>

\* Where the adapter is gone, a call on it fails.
OnAdapter == adapter # None

\* DeleteOwnedRoutes, one call for each row of the table it read.
DeleteOwnedRoutes ==
  /\ pc = "routes" /\ OnAdapter
  /\ IF todo = {} THEN Goto("addresses", adapter.addresses) /\ UNCHANGED adapter
     ELSE \E r \in todo :
            /\ adapter' = [adapter EXCEPT !.routes = @ \ {r}]
            /\ Goto("routes", todo \ {r})
  /\ UNCHANGED session /\ Unchanged

\* Faulty: the addresses of the Core stay.
DeleteNoAddresses ==
  /\ pc = "addresses" /\ OnAdapter
  /\ Goto("dns", Families)
  /\ UNCHANGED <<adapter, session>> /\ Unchanged

DeleteOwnedAddresses ==
  /\ pc = "addresses" /\ OnAdapter
  /\ IF todo = {} THEN Goto("dns", Families) /\ UNCHANGED adapter
     ELSE \E a \in todo :
            /\ adapter' = [adapter EXCEPT !.addresses = @ \ {a},
                                          !.routes = @ \ {OnLink[a]}]
            /\ Goto("addresses", todo \ {a})
  /\ UNCHANGED session /\ Unchanged

\* ClearDns; an adapter that was not there before gets nothing else.
ClearDns ==
  /\ pc = "dns" /\ OnAdapter
  /\ IF todo = {}
     THEN /\ UNCHANGED adapter
          /\ IF snapshot.existed THEN Goto("interface", Families) /\ UNCHANGED session
                                 ELSE Settle
     ELSE \E f \in todo :
            /\ adapter' = [adapter EXCEPT !.dns[f] = "clear"]
            /\ Goto("dns", todo \ {f}) /\ UNCHANGED session
  /\ Unchanged

RestoreInterface ==
  /\ pc = "interface" /\ OnAdapter
  /\ IF todo = {} THEN Goto("makeAddresses", Target.addresses) /\ UNCHANGED adapter
     ELSE \E f \in todo :
            /\ adapter' = [adapter EXCEPT !.interface[f] = Target.interface[f]]
            /\ Goto("interface", todo \ {f})
  /\ UNCHANGED session /\ Unchanged

\* An address that exists is as good; Windows adds its on-link route.
RestoreAddress ==
  /\ pc = "makeAddresses" /\ OnAdapter
  /\ IF todo = {} THEN Goto("makeRoutes", Target.routes) /\ UNCHANGED adapter
     ELSE \E a \in todo :
            /\ adapter' = [adapter EXCEPT !.addresses = @ \cup {a},
                                          !.routes = @ \cup {OnLink[a]}]
            /\ Goto("makeAddresses", todo \ {a})
  /\ UNCHANGED session /\ Unchanged

RestoreRoute ==
  /\ pc = "makeRoutes" /\ OnAdapter
  /\ IF todo = {} THEN Goto("setDns", Families) /\ UNCHANGED adapter
     ELSE \E r \in todo :
            /\ adapter' = [adapter EXCEPT !.routes = @ \cup {r}]
            /\ Goto("makeRoutes", todo \ {r})
  /\ UNCHANGED session /\ Unchanged

ApplyDns ==
  /\ pc = "setDns" /\ OnAdapter
  /\ IF todo = {} THEN Settle /\ UNCHANGED adapter
     ELSE \E f \in todo :
            /\ adapter' = [adapter EXCEPT !.dns[f] = Target.dns[f]]
            /\ Goto("setDns", todo \ {f}) /\ UNCHANGED session
  /\ Unchanged

\* A call on an adapter that is gone ends Restore with an error.
CallMisses ==
  /\ pc \notin {"idle", "captureAddresses", "captureRoutes", "captureDns", "find"}
  /\ ~OnAdapter
  /\ Goto("idle", {})
  /\ UNCHANGED <<adapter, session>> /\ Unchanged

-----------------------------------------------------------------------------
\* The adapter is not there, is a fresh one, or is left from before with the
\* user's settings, which may be too many for a snapshot.
Init ==
  /\ adapter \in {None, UserAdapter, BlankAdapter,
                 [UserAdapter EXCEPT !.addresses = Addresses, !.routes = Routes]}
  /\ user = adapter
  /\ snapshot = None /\ pc = "idle" /\ draft = BlankAdapter /\ todo = {}
  /\ session = "none" /\ twin = FALSE /\ faults = 0

Captures == Capture \/ CaptureAddresses \/ CaptureRoutes \/ CaptureDns

Restores ==
  \/ Restore \/ FindOwnedAdapter \/ DeleteOwnedRoutes \/ DeleteOwnedAddresses
  \/ ClearDns \/ RestoreInterface \/ RestoreAddress \/ RestoreRoute \/ ApplyDns
  \/ CallMisses

\* The transaction is over, or no snapshot can be made of what is there.
Rests == session \in {"none", "restored"} /\ pc = "idle" /\ UNCHANGED vars

Next ==
  \/ Captures \/ CoreStarts \/ RollbackBegins \/ AdapterVanishes \/ TwinChanges
  \/ CallFails \/ Restores \/ Rests

Spec == Init /\ [][Next]_vars

-----------------------------------------------------------------------------
(* Properties.                                                             *)

\* What Capture saved is the whole of what the user had, never a part of it: an
\* adapter that vanished half way or a table that is too long is an error.
SnapshotIsWhole ==
  snapshot # None => (snapshot.existed => snapshot.of = user)

\* Whatever Capture accepted, Restore can read.
SnapshotCanBeRead == snapshot # None => ParseSnapshot(snapshot)

\* A Restore that reports success, after any number of failed and repeated
\* attempts, has left nothing of the Core on the adapter, and everything of the
\* user where the snapshot has it.
RestoredIsTheUsers ==
  session = "restored" =>
    IF snapshot.existed THEN adapter = snapshot.of
    ELSE adapter # None =>
           /\ adapter.addresses = {} /\ adapter.routes = {}
           /\ \A f \in Families : adapter.dns[f] = "clear"

\* The adapter is given back as the user had it: the snapshot is whole and can be
\* read, and what Restore reports is there.
AdapterIsTheUsers ==
  TypeOK /\ SnapshotIsWhole /\ SnapshotCanBeRead /\ RestoredIsTheUsers

\* A rollback ends, unless the adapter of the snapshot is gone or has a namesake.
RollbackEnds ==
  session = "rollback" ~>
    session = "restored" \/ Ambiguous \/ (adapter = None /\ snapshot # None /\ snapshot.existed)

=============================================================================

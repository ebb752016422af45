----------------------- MODULE WindowsNetworkObserver -----------------------
(***************************************************************************)
(* The network observer of the Windows service:                           *)
(* service/service_network_observer.cpp.                                   *)
(*                                                                         *)
(* Threads of the dispatcher (Readers) sample the adapters, which takes    *)
(* several system calls, while notifications of Windows raise `revision'   *)
(* at any moment and without a lock.  The machine's network is what the    *)
(* sample can tell apart: `lan' (adapters, addresses, routes; changes are  *)
(* notified), `wifi' (notified once ReadWifi has registered) and `dns'     *)
(* (part of the sample, but Windows notifies nobody).  The salt of         *)
(* selection keys is a file made once.                                     *)
(***************************************************************************)
EXTENDS Naturals, FiniteSets

CONSTANTS
  Readers, None, Unreadable,
  MaxChanges,     \* of the network, owned adapter included
  MaxReads,       \* calls of ReadContext and ReadCandidateContext
  MaxRestarts     \* starts of the service after the first

Networks == [lan : BOOLEAN, wifi : BOOLEAN, dns : BOOLEAN]

ObserverAssumption ==
  /\ None \notin Readers \cup Nat \cup Networks /\ Unreadable \notin Nat \cup {None}
  /\ MaxChanges \in Nat /\ MaxReads \in Nat /\ MaxRestarts \in Nat

VARIABLES
  revision, ready, previous, retained,   \* ServiceNetworkObserver::State
  wlan,                                  \* wlan_notifications
  sampling, referring,                   \* holders of sample_lock, reference_lock
  pc, before, seen, captured, candidate, \* of every reader
  route,                                 \* what ReadCandidateContext read
  minted,                                \* references made
  salt, saltFile, pendingFile,           \* selection_salt and its files
  network, tun, pending,                 \* the machine, and notifications under way
  samples, given, candidates,            \* what readers were told
  changes, reads, restarts

stateVars == <<revision, ready, previous, retained, wlan, minted>>
lockVars == <<sampling, referring>>
readerVars == <<pc, before, seen, captured, candidate, route>>
saltVars == <<salt, saltFile, pendingFile>>
worldVars == <<network, tun, pending, changes>>
toldVars == <<samples, given, candidates>>
vars == <<stateVars, lockVars, readerVars, saltVars, worldVars, toldVars, reads, restarts>>

Contexts == [revision : Nat, reference : Nat]
NoContext == [revision |-> 0, reference |-> 0]
Labels == {"idle", "adapters", "register", "wifi", "check", "exchange", "refer",
           "mint", "return", "routes", "routesCheck"}

TypeOK ==
  /\ revision \in Nat \ {0} /\ ready \in BOOLEAN /\ wlan \in BOOLEAN
  /\ previous \in Networks \cup {None} /\ retained \in Contexts
  /\ minted \in Nat
  /\ sampling \in Readers \cup {None} /\ referring \in Readers \cup {None}
  /\ pc \in [Readers -> Labels] /\ before \in [Readers -> Nat]
  /\ seen \in [Readers -> Networks] /\ captured \in [Readers -> Nat]
  /\ candidate \in [Readers -> BOOLEAN] /\ route \in [Readers -> Networks]
  /\ salt \in Nat \cup {None} /\ saltFile \in Nat \cup {None, Unreadable}
  /\ pendingFile \in BOOLEAN
  /\ network \in Networks /\ tun \in BOOLEAN /\ pending \in Nat
  /\ changes \in Nat /\ reads \in Nat /\ restarts \in Nat

-----------------------------------------------------------------------------
(* Notifications.                                                          *)

\* Changed and WifiChanged: any number of threads, no lock.
Notified ==
  /\ pending > 0
  /\ pending' = pending - 1
  /\ revision' = revision + 1
  /\ UNCHANGED <<ready, previous, retained, wlan, minted, lockVars, readerVars, saltVars,
                 network, tun, changes, toldVars, reads, restarts>>

Changes(next, notified) ==
  /\ changes < MaxChanges
  /\ changes' = changes + 1
  /\ network' = next
  /\ pending' = IF notified THEN pending + 1 ELSE pending
  /\ UNCHANGED <<stateVars, lockVars, readerVars, saltVars, toldVars, reads, restarts>>

LanChanges == Changes([network EXCEPT !.lan = ~@], ready) /\ UNCHANGED tun
WifiChanges == Changes([network EXCEPT !.wifi = ~@], wlan) /\ UNCHANGED tun
DnsChanges == Changes([network EXCEPT !.dns = ~@], FALSE) /\ UNCHANGED tun

\* The Core's own adapter comes or goes: IsOwned keeps it out of both.
TunChanges == Changes(network, FALSE) /\ tun' = ~tun

-----------------------------------------------------------------------------
(* Sample.                                                                 *)

Goto(r, label) == pc' = [pc EXCEPT ![r] = label]

\* The reader returns nullopt.
Fails(r) == Goto(r, "idle")

SampleBegins(r, wantsCandidate) ==
  /\ pc[r] = "idle" /\ reads < MaxReads /\ ready /\ sampling = None
  /\ reads' = reads + 1
  /\ sampling' = r
  /\ before' = [before EXCEPT ![r] = revision]
  /\ candidate' = [candidate EXCEPT ![r] = wantsCandidate]
  /\ Goto(r, "adapters")
  /\ UNCHANGED <<stateVars, referring, seen, captured, route, saltVars, worldVars,
                 toldVars, restarts>>

\* ReadAdapters, up to the Wi-Fi part.
ReadAdapters(r) ==
  /\ pc[r] = "adapters"
  /\ seen' = [seen EXCEPT ![r].lan = network.lan, ![r].dns = network.dns]
  /\ Goto(r, IF wlan THEN "wifi" ELSE "register")
  /\ UNCHANGED <<stateVars, lockVars, before, captured, candidate, route, saltVars,
                 worldVars, toldVars, reads, restarts>>

\* ReadWifi registers before it reads.
RegisterWlan(r) ==
  /\ pc[r] = "register"
  /\ wlan' = TRUE
  /\ Goto(r, "wifi")
  /\ UNCHANGED <<revision, ready, previous, retained, minted, lockVars, before, seen,
                 captured, candidate, route, saltVars, worldVars, toldVars, reads, restarts>>

ReadWifi(r) ==
  /\ pc[r] = "wifi"
  /\ seen' = [seen EXCEPT ![r].wifi = network.wifi]
  /\ Goto(r, "check")
  /\ UNCHANGED <<stateVars, lockVars, before, captured, candidate, route, saltVars,
                 worldVars, toldVars, reads, restarts>>

\* A system call failed, or the revision moved: the next sample starts afresh.
SampleFails(r) ==
  /\ \/ pc[r] \in {"adapters", "register", "wifi"}
     \/ pc[r] = "check" /\ before[r] # revision
  /\ revision' = revision + 1
  /\ previous' = None
  /\ sampling' = None
  /\ Fails(r)
  /\ UNCHANGED <<ready, retained, wlan, minted, referring, before, seen, captured,
                 candidate, route, saltVars, worldVars, toldVars, reads, restarts>>

\* The sample is good for the revision `number'.
Sampled(r, number) ==
  /\ previous' = seen[r]
  /\ captured' = [captured EXCEPT ![r] = number]
  /\ samples' = samples \cup {[revision |-> number, network |-> seen[r]]}
  /\ sampling' = None
  /\ Goto(r, "refer")

\* Faulty: a sample that differs is good for the revision it began with.
SampleChecksSame(r) ==
  /\ pc[r] = "check" /\ before[r] = revision
  /\ Sampled(r, before[r])
  /\ UNCHANGED <<revision, ready, retained, wlan, minted, referring, before, seen,
                 candidate, route, saltVars, worldVars, given, candidates, reads, restarts>>

SampleChecks(r) ==
  /\ pc[r] = "check" /\ before[r] = revision
  /\ IF previous \in {None, seen[r]}
     THEN Sampled(r, before[r])
     ELSE /\ Goto(r, "exchange")
          /\ UNCHANGED <<previous, captured, samples, sampling>>
  /\ UNCHANGED <<revision, ready, retained, wlan, minted, referring, before, seen,
                 candidate, route, saltVars, worldVars, given, candidates, reads, restarts>>

\* The network differs from the previous sample without a notification:
\* compare_exchange_strong makes it a revision of its own.
SampleExchanges(r) ==
  /\ pc[r] = "exchange"
  /\ \/ /\ revision = before[r]
        /\ revision' = before[r] + 1
        /\ Sampled(r, before[r] + 1)
     \/ /\ revision # before[r]
        /\ previous' = None
        /\ sampling' = None
        /\ Fails(r)
        /\ UNCHANGED <<revision, captured, samples>>
  /\ UNCHANGED <<ready, retained, wlan, minted, referring, before, seen, candidate,
                 route, saltVars, worldVars, given, candidates, reads, restarts>>

-----------------------------------------------------------------------------
(* ReadContext and ReadCandidateContext.                                   *)

IsCurrent(number) == ready /\ revision = number

\* reference_lock is taken; an old revision gets no reference.
Refers(r) ==
  /\ pc[r] = "refer" /\ referring = None
  /\ IF IsCurrent(captured[r]) THEN referring' = r /\ Goto(r, "mint")
                               ELSE Fails(r) /\ UNCHANGED referring
  /\ UNCHANGED <<stateVars, sampling, before, seen, captured, candidate, route, saltVars,
                 worldVars, toldVars, reads, restarts>>

\* Faulty: the retained reference is given to every revision.
MintsOnce(r) ==
  /\ pc[r] = "mint"
  /\ IF retained = NoContext
     THEN /\ minted' = minted + 1
          /\ retained' = [revision |-> captured[r], reference |-> minted + 1]
     ELSE retained' = [retained EXCEPT !.revision = captured[r]] /\ UNCHANGED minted
  /\ Goto(r, "return")
  /\ UNCHANGED <<revision, ready, previous, wlan, lockVars, before, seen, captured,
                 candidate, route, saltVars, worldVars, toldVars, reads, restarts>>

\* The retained reference, or a new one for a new revision.
Mints(r) ==
  /\ pc[r] = "mint"
  /\ IF retained.revision = captured[r]
     THEN UNCHANGED <<retained, minted>>
     ELSE /\ minted' = minted + 1
          /\ retained' = [revision |-> captured[r], reference |-> minted + 1]
  /\ Goto(r, "return")
  /\ UNCHANGED <<revision, ready, previous, wlan, lockVars, before, seen, captured,
                 candidate, route, saltVars, worldVars, toldVars, reads, restarts>>

\* BCryptGenRandom fails where a new reference is needed.
MintFails(r) ==
  /\ pc[r] = "mint"
  /\ retained.revision # captured[r]
  /\ referring' = None
  /\ Fails(r)
  /\ UNCHANGED <<stateVars, sampling, before, seen, captured, candidate, route, saltVars,
                 worldVars, toldVars, reads, restarts>>

\* The revision is looked at once more before the context is returned.
Returns(r) ==
  /\ pc[r] = "return"
  /\ referring' = None
  /\ IF IsCurrent(captured[r])
     THEN /\ given' = given \cup {retained}
          /\ Goto(r, IF candidate[r] /\ salt # None THEN "routes" ELSE "idle")
     ELSE Fails(r) /\ UNCHANGED given
  /\ UNCHANGED <<stateVars, sampling, before, seen, captured, candidate, route, saltVars,
                 worldVars, samples, candidates, reads, restarts>>

\* The default route, its adapter and the Wi-Fi it is on; a read may fail.
ReadRoutes(r) ==
  /\ pc[r] = "routes"
  /\ \/ route' = [route EXCEPT ![r] = network] /\ Goto(r, "routesCheck")
     \/ Fails(r) /\ UNCHANGED route
  /\ UNCHANGED <<stateVars, lockVars, before, seen, captured, candidate, saltVars,
                 worldVars, toldVars, reads, restarts>>

ReturnsRoutes(r) ==
  /\ pc[r] = "routesCheck"
  /\ candidates' = IF IsCurrent(captured[r])
                   THEN candidates \cup {[revision |-> captured[r], network |-> route[r]]}
                   ELSE candidates
  /\ Goto(r, "idle")
  /\ UNCHANGED <<stateVars, lockVars, before, seen, captured, candidate, route, saltVars,
                 worldVars, samples, given, reads, restarts>>

-----------------------------------------------------------------------------
(* The salt and the life of the service.                                   *)

\* LoadSelectionSalt: read, or made in a pending file and renamed.  Where the
\* rename is not confirmed, whatever is in place is read.
LoadSelectionSalt ==
  \/ /\ saltFile \in Nat
     /\ salt' = saltFile
     /\ UNCHANGED <<saltFile, pendingFile>>
  \/ /\ saltFile \notin Nat
     /\ salt' = None
     /\ UNCHANGED saltFile
     /\ pendingFile' \in IF saltFile = None THEN {FALSE, pendingFile} ELSE {pendingFile}
  \/ /\ saltFile = None
     /\ saltFile' = restarts'
     /\ salt' = restarts'
     /\ pendingFile' = FALSE

\* The service ends at any moment and another process starts: its observer
\* begins at revision 1 and knows no reference of the old one.
Restart ==
  /\ restarts < MaxRestarts
  /\ restarts' = restarts + 1
  /\ LoadSelectionSalt
  /\ ready' \in BOOLEAN
  /\ revision' = 1 /\ previous' = None /\ retained' = NoContext /\ wlan' = FALSE
  /\ sampling' = None /\ referring' = None /\ pending' = 0
  /\ pc' = [r \in Readers |-> "idle"]
  /\ samples' = {} /\ given' = {} /\ candidates' = {}
  /\ UNCHANGED <<minted, before, seen, captured, candidate, route, network, tun,
                 changes, reads>>

\* It ends while the salt is written: a pending file stays, or the file is
\* there although nobody has used it.
CrashWhileSaving ==
  /\ restarts < MaxRestarts
  /\ saltFile = None
  /\ restarts' = restarts + 1
  /\ \/ pendingFile' = TRUE /\ UNCHANGED saltFile
     \/ saltFile' = restarts' /\ pendingFile' = FALSE
  /\ ready' = FALSE /\ salt' = None
  /\ revision' = 1 /\ previous' = None /\ retained' = NoContext /\ wlan' = FALSE
  /\ sampling' = None /\ referring' = None /\ pending' = 0
  /\ pc' = [r \in Readers |-> "idle"]
  /\ samples' = {} /\ given' = {} /\ candidates' = {}
  /\ UNCHANGED <<minted, before, seen, captured, candidate, route, network, tun,
                 changes, reads>>

NoNetwork == [lan |-> FALSE, wifi |-> FALSE, dns |-> FALSE]

Init ==
  /\ revision = 1 /\ ready = TRUE /\ previous = None /\ retained = NoContext /\ wlan = FALSE
  /\ minted = 0 /\ sampling = None /\ referring = None
  /\ pc = [r \in Readers |-> "idle"] /\ before = [r \in Readers |-> 0]
  /\ seen = [r \in Readers |-> NoNetwork] /\ captured = [r \in Readers |-> 0]
  /\ candidate = [r \in Readers |-> FALSE] /\ route = [r \in Readers |-> NoNetwork]
  /\ \/ salt = 0 /\ saltFile = 0
     \/ salt = None /\ saltFile \in {None, Unreadable}
  /\ pendingFile = FALSE
  /\ network = NoNetwork /\ tun = FALSE /\ pending = 0
  /\ samples = {} /\ given = {} /\ candidates = {}
  /\ changes = 0 /\ reads = 0 /\ restarts = 0

\* Nobody calls and no notification is under way.
Rests == pending = 0 /\ (\A r \in Readers : pc[r] = "idle") /\ UNCHANGED vars

Reads(r) ==
  \/ \E c \in BOOLEAN : SampleBegins(r, c)
  \/ ReadAdapters(r) \/ RegisterWlan(r) \/ ReadWifi(r) \/ SampleFails(r)
  \/ SampleChecks(r) \/ SampleExchanges(r)
  \/ Refers(r) \/ Mints(r) \/ MintFails(r) \/ Returns(r)
  \/ ReadRoutes(r) \/ ReturnsRoutes(r)

Next ==
  \/ Notified \/ LanChanges \/ WifiChanges \/ DnsChanges \/ TunChanges
  \/ \E r \in Readers : Reads(r)
  \/ Restart \/ CrashWhileSaving
  \/ Rests

Spec == Init /\ [][Next]_vars

-----------------------------------------------------------------------------
(* Properties.                                                             *)

\* A revision stands for one sampled network: two samples that Sample gave the
\* same number saw the same adapters, Wi-Fi and name servers.  This is what lets
\* RefreshBoundNetwork compare numbers.
OneNetworkPerRevision ==
  \A a, b \in samples : a.revision = b.revision => a.network = b.network

\* A revision that is current, with no notification still under way, names the
\* network of this moment in everything Windows notifies.
CurrentRevisionIsTrue ==
  ready /\ pending = 0 =>
    \A s \in samples : s.revision = revision =>
      s.network.lan = network.lan /\ s.network.wifi = network.wifi

\* The routes a candidate context was made from belong to the network its
\* revision names, although they are read after the sample.
CandidateMatchesRevision ==
  ready /\ pending = 0 =>
    \A c \in candidates : c.revision = revision =>
      c.network.lan = network.lan /\ c.network.wifi = network.wifi

\* Revisions and references correspond one to one.
ReferenceIsRevision ==
  \A a, b \in given : (a.revision = b.revision) <=> (a.reference = b.reference)

\* The salt in use is the one every later start of the service will read, so
\* that remembered failures keep their selection keys.
SaltIsDurable == salt # None => saltFile = salt

\* What a revision number promises the dispatcher: one network, the present one
\* while it is current, one reference, and keys under a salt that stays.
RevisionIsTrue ==
  /\ TypeOK /\ OneNetworkPerRevision /\ CurrentRevisionIsTrue /\ CandidateMatchesRevision
  /\ ReferenceIsRevision /\ SaltIsDurable

\* The observer implements the promise about references: what is valid is the
\* retained reference while its revision is current.
ValidReference ==
  IF ready /\ retained.revision = revision THEN retained.reference ELSE 0

Promise == INSTANCE NetworkReference WITH valid <- ValidReference, issued <- minted

\* At most one reference is valid, a change of the network makes it invalid, and
\* no invalid reference comes back.
ImplementsPromise == Promise!Spec

=============================================================================

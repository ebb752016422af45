----------------------- MODULE WindowsNetwork_proofs ------------------------
(***************************************************************************)
(* Proofs for the network side of the Windows service, for every value of  *)
(* the constants: what a revision of the observer promises and that it     *)
(* implements NetworkReference, that the adapter is given back as the user *)
(* had it, and that the transition guard's block is known and kept.        *)
(***************************************************************************)
EXTENDS WindowsNetwork, FiniteSetTheorems, TLAPS

-----------------------------------------------------------------------------
(* The network observer *)

Sampling == {"adapters", "register", "wifi", "check", "exchange"}
Holding == {"refer", "mint", "return", "routes", "routesCheck"}
Numbered == [revision : Nat, network : Networks]

\* A network read as `read' agrees with the machine in what Windows notifies.
Notifiable(read) == read.lan = network.lan /\ read.wifi = network.wifi

\* What readers were told is made of revisions, networks and references.
ToldIsTyped ==
  samples \subseteq Numbered /\ candidates \subseteq Numbered /\ given \subseteq Contexts

\* sample_lock is held from the first system call to the exchange, and
\* reference_lock from the look at the revision to the return.
LocksAreHeld ==
  \A r \in Readers :
    /\ pc[r] \in Sampling => sampling = r
    /\ pc[r] \in {"mint", "return"} => referring = r

\* No number is ahead of the counter it was read from.
RevisionsArePast ==
  /\ retained.revision <= revision /\ retained.reference <= minted
  /\ \A s \in samples \cup candidates : s.revision <= revision
ReadersAreBehind ==
  \A r \in Readers :
    /\ pc[r] \in Sampling => before[r] <= revision /\ \A s \in samples : s.revision <= before[r]
    /\ pc[r] \in Holding => captured[r] <= revision
    /\ pc[r] = "mint" => retained.revision <= captured[r]

\* Nothing was told, and nobody holds a revision, before Wi-Fi changes were
\* notified.
WlanIsWatched ==
  /\ samples \cup candidates # {} => wlan
  /\ \A r \in Readers : pc[r] \in Holding \cup {"wifi", "check", "exchange"} => wlan

\* The sample of the current revision is the previous one of the next.
PreviousIsLast == \A s \in samples : s.revision = revision => previous = s.network

\* What a reader has sampled so far is still there, unless the revision has moved
\* or is about to.
SamplesAreFresh ==
  ready /\ pending = 0 =>
    \A r \in Readers : before[r] = revision =>
      /\ pc[r] \in {"register", "wifi", "check", "exchange"} => seen[r].lan = network.lan
      /\ pc[r] \in {"check", "exchange"} => seen[r].wifi = network.wifi
RoutesAreFresh ==
  ready /\ pending = 0 =>
    \A r \in Readers : captured[r] = revision /\ pc[r] = "routesCheck" => Notifiable(route[r])

\* Every context given out is the retained one, or older in both numbers.
GivenIsOlder ==
  \A g \in given :
    g = retained \/ (g.revision < retained.revision /\ g.reference < retained.reference)

IInv ==
  /\ TypeOK /\ ToldIsTyped /\ LocksAreHeld /\ RevisionsArePast /\ ReadersAreBehind
  /\ WlanIsWatched /\ PreviousIsLast /\ SamplesAreFresh /\ RoutesAreFresh /\ GivenIsOlder
  /\ OneNetworkPerRevision /\ CurrentRevisionIsTrue /\ CandidateMatchesRevision
  /\ ReferenceIsRevision /\ SaltIsDurable

\* Types.
LEMMA TypeStep ==
  ASSUME ObserverAssumption, TypeOK, [Next]_vars
  PROVE  TypeOK'
  <1> USE DEF ObserverAssumption, TypeOK, Labels, stateVars, lockVars, readerVars, saltVars,
    worldVars, toldVars
  <1>1. CASE Notified
    BY <1>1 DEF Notified
  <1>2. CASE LanChanges
    <2>1. network' \in Networks
      BY <1>2 DEF LanChanges, Changes, Networks
    <2> QED
      BY <1>2, <2>1 DEF LanChanges, Changes
  <1>3. CASE WifiChanges
    <2>1. network' \in Networks
      BY <1>3 DEF WifiChanges, Changes, Networks
    <2> QED
      BY <1>3, <2>1 DEF WifiChanges, Changes
  <1>4. CASE DnsChanges
    <2>1. network' \in Networks
      BY <1>4 DEF DnsChanges, Changes, Networks
    <2> QED
      BY <1>4, <2>1 DEF DnsChanges, Changes
  <1>5. CASE TunChanges
    BY <1>5 DEF TunChanges, Changes
  <1>6. ASSUME NEW r \in Readers, NEW c \in BOOLEAN, SampleBegins(r, c) PROVE TypeOK'
    BY <1>6 DEF SampleBegins, Goto
  <1>7. ASSUME NEW r \in Readers, ReadAdapters(r) PROVE TypeOK'
    <2>1. network.lan \in BOOLEAN /\ network.dns \in BOOLEAN
      BY DEF Networks
    <2>2. [seen[r] EXCEPT !.lan = network.lan, !.dns = network.dns] \in Networks
      BY <2>1 DEF Networks
    <2>3. seen' = [seen EXCEPT ![r] = [seen[r] EXCEPT !.lan = network.lan, !.dns = network.dns]]
      BY <1>7 DEF ReadAdapters
    <2>4. seen' \in [Readers -> Networks]
      BY <2>2, <2>3
    <2> QED
      BY <1>7, <2>4 DEF ReadAdapters, Goto
  <1>8. ASSUME NEW r \in Readers, RegisterWlan(r) PROVE TypeOK'
    BY <1>8 DEF RegisterWlan, Goto
  <1>9. ASSUME NEW r \in Readers, ReadWifi(r) PROVE TypeOK'
    <2>1. network.wifi \in BOOLEAN
      BY DEF Networks
    <2>2. seen' \in [Readers -> Networks]
      BY <1>9, <2>1 DEF ReadWifi, Networks
    <2> QED
      BY <1>9, <2>2 DEF ReadWifi, Goto
  <1>10. ASSUME NEW r \in Readers, SampleFails(r) PROVE TypeOK'
    BY <1>10 DEF SampleFails, Fails, Goto
  <1>11. ASSUME NEW r \in Readers, SampleChecks(r) PROVE TypeOK'
    BY <1>11 DEF SampleChecks, Sampled, Goto
  <1>12. ASSUME NEW r \in Readers, SampleExchanges(r) PROVE TypeOK'
    BY <1>12 DEF SampleExchanges, Sampled, Fails, Goto
  <1>13. ASSUME NEW r \in Readers, Refers(r) PROVE TypeOK'
    BY <1>13 DEF Refers, IsCurrent, Fails, Goto
  <1>14. ASSUME NEW r \in Readers, Mints(r) PROVE TypeOK'
    BY <1>14 DEF Mints, Goto, Contexts
  <1>15. ASSUME NEW r \in Readers, MintFails(r) PROVE TypeOK'
    BY <1>15 DEF MintFails, Fails, Goto
  <1>16. ASSUME NEW r \in Readers, Returns(r) PROVE TypeOK'
    BY <1>16 DEF Returns, IsCurrent, Fails, Goto
  <1>17. ASSUME NEW r \in Readers, ReadRoutes(r) PROVE TypeOK'
    BY <1>17 DEF ReadRoutes, Fails, Goto
  <1>18. ASSUME NEW r \in Readers, ReturnsRoutes(r) PROVE TypeOK'
    BY <1>18 DEF ReturnsRoutes, IsCurrent, Goto
  <1>19. CASE Restart
    <2>1. restarts' \in Nat
      BY <1>19 DEF Restart
    <2>2. salt' \in Nat \cup {None} /\ saltFile' \in Nat \cup {None, Unreadable}
      BY <1>19, <2>1 DEF Restart, LoadSelectionSalt
    <2>3. pendingFile' \in BOOLEAN
      BY <1>19 DEF Restart, LoadSelectionSalt
    <2>4. retained' \in Contexts
      BY <1>19 DEF Restart, NoContext, Contexts
    <2>5. pc' \in [Readers -> Labels]
      BY <1>19 DEF Restart
    <2>6. /\ previous' \in Networks \cup {None} /\ sampling' \in Readers \cup {None}
          /\ referring' \in Readers \cup {None} /\ pending' \in Nat
      BY <1>19 DEF Restart
    <2>7. ready' \in BOOLEAN /\ wlan' \in BOOLEAN
      BY <1>19 DEF Restart
    <2>8. revision' \in Nat \ {0}
      BY <1>19 DEF Restart
    <2> QED
      BY <1>19, <2>1, <2>2, <2>3, <2>4, <2>5, <2>6, <2>7, <2>8 DEF Restart
  <1>20. CASE CrashWhileSaving
    <2>1. restarts' \in Nat
      BY <1>20 DEF CrashWhileSaving
    <2>2. salt' \in Nat \cup {None} /\ saltFile' \in Nat \cup {None, Unreadable}
      BY <1>20, <2>1 DEF CrashWhileSaving
    <2>3. pendingFile' \in BOOLEAN
      BY <1>20 DEF CrashWhileSaving
    <2>4. retained' \in Contexts
      BY <1>20 DEF CrashWhileSaving, NoContext, Contexts
    <2>5. pc' \in [Readers -> Labels]
      BY <1>20 DEF CrashWhileSaving
    <2>6. /\ previous' \in Networks \cup {None} /\ sampling' \in Readers \cup {None}
          /\ referring' \in Readers \cup {None} /\ pending' \in Nat
      BY <1>20 DEF CrashWhileSaving
    <2>7. ready' \in BOOLEAN /\ wlan' \in BOOLEAN
      BY <1>20 DEF CrashWhileSaving
    <2>8. revision' \in Nat \ {0}
      BY <1>20 DEF CrashWhileSaving
    <2> QED
      BY <1>20, <2>1, <2>2, <2>3, <2>4, <2>5, <2>6, <2>7, <2>8 DEF CrashWhileSaving
  <1>21. CASE UNCHANGED vars
    BY <1>21 DEF vars
  <1> QED
    BY <1>1, <1>2, <1>3, <1>4, <1>5, <1>6, <1>7, <1>8, <1>9, <1>10, <1>11, <1>12, <1>13, <1>14,
      <1>15, <1>16, <1>17, <1>18, <1>19, <1>20, <1>21 DEF Next, Reads, Rests

\* What readers are told.
LEMMA ToldStep ==
  ASSUME TypeOK, ToldIsTyped, [Next]_vars
  PROVE  ToldIsTyped'
  <1> USE DEF ToldIsTyped, TypeOK, Labels, Networks, Contexts, Numbered, NoContext, stateVars,
    lockVars, readerVars, saltVars, worldVars, toldVars
  <1>1. CASE UNCHANGED toldVars
    BY <1>1
  <1>2. Notified \/ LanChanges \/ WifiChanges \/ DnsChanges \/ TunChanges \/ UNCHANGED vars =>
    UNCHANGED toldVars
    BY DEF Notified, LanChanges, WifiChanges, DnsChanges, TunChanges, Changes, vars
  <1>3. ASSUME NEW r \in Readers,
             (\E c \in BOOLEAN : SampleBegins(r, c)) \/ ReadAdapters(r) \/ RegisterWlan(r) \/
               ReadWifi(r) \/ SampleFails(r) \/ Refers(r) \/ Mints(r) \/ MintFails(r) \/
               ReadRoutes(r)
        PROVE  UNCHANGED toldVars
    BY <1>3 DEF SampleBegins, ReadAdapters, RegisterWlan, ReadWifi, SampleFails, Refers, Mints,
      MintFails, ReadRoutes
  <1>4. ASSUME NEW r \in Readers, SampleChecks(r) PROVE ToldIsTyped'
    BY <1>4 DEF SampleChecks, Sampled, Goto
  <1>5. ASSUME NEW r \in Readers, SampleExchanges(r) PROVE ToldIsTyped'
    BY <1>5 DEF SampleExchanges, Sampled, Fails, Goto
  <1>6. ASSUME NEW r \in Readers, Returns(r) PROVE ToldIsTyped'
    BY <1>6 DEF Returns, IsCurrent, Fails, Goto
  <1>7. ASSUME NEW r \in Readers, ReturnsRoutes(r) PROVE ToldIsTyped'
    BY <1>7 DEF ReturnsRoutes, IsCurrent, Goto
  <1>8. CASE Restart
    BY <1>8 DEF Restart
  <1>9. CASE CrashWhileSaving
    BY <1>9 DEF CrashWhileSaving
  <1> QED
    BY <1>1, <1>2, <1>3, <1>4, <1>5, <1>6, <1>7, <1>8, <1>9 DEF Next, Reads, Rests

\* The locks exclude readers from each other.
LEMMA LocksStep ==
  ASSUME ObserverAssumption, TypeOK, LocksAreHeld, [Next]_vars
  PROVE  LocksAreHeld'
  <1> USE DEF ObserverAssumption, LocksAreHeld, Sampling, TypeOK, Labels, stateVars, lockVars,
    readerVars, saltVars, worldVars, toldVars
  <1>1. CASE Notified
    BY <1>1 DEF Notified
  <1>2. CASE LanChanges
    BY <1>2 DEF LanChanges, Changes
  <1>3. CASE WifiChanges
    BY <1>3 DEF WifiChanges, Changes
  <1>4. CASE DnsChanges
    BY <1>4 DEF DnsChanges, Changes
  <1>5. CASE TunChanges
    BY <1>5 DEF TunChanges, Changes
  <1>6. ASSUME NEW r \in Readers, NEW c \in BOOLEAN, SampleBegins(r, c) PROVE LocksAreHeld'
    BY <1>6 DEF SampleBegins, Goto
  <1>7. ASSUME NEW r \in Readers, ReadAdapters(r) PROVE LocksAreHeld'
    BY <1>7 DEF ReadAdapters, Goto
  <1>8. ASSUME NEW r \in Readers, RegisterWlan(r) PROVE LocksAreHeld'
    BY <1>8 DEF RegisterWlan, Goto
  <1>9. ASSUME NEW r \in Readers, ReadWifi(r) PROVE LocksAreHeld'
    BY <1>9 DEF ReadWifi, Goto
  <1>10. ASSUME NEW r \in Readers, SampleFails(r) PROVE LocksAreHeld'
    BY <1>10 DEF SampleFails, Fails, Goto
  <1>11. ASSUME NEW r \in Readers, SampleChecks(r) PROVE LocksAreHeld'
    BY <1>11 DEF SampleChecks, Sampled, Goto
  <1>12. ASSUME NEW r \in Readers, SampleExchanges(r) PROVE LocksAreHeld'
    BY <1>12 DEF SampleExchanges, Sampled, Fails, Goto
  <1>13. ASSUME NEW r \in Readers, Refers(r) PROVE LocksAreHeld'
    BY <1>13 DEF Refers, IsCurrent, Fails, Goto
  <1>14. ASSUME NEW r \in Readers, Mints(r) PROVE LocksAreHeld'
    BY <1>14 DEF Mints, Goto
  <1>15. ASSUME NEW r \in Readers, MintFails(r) PROVE LocksAreHeld'
    BY <1>15 DEF MintFails, Fails, Goto
  <1>16. ASSUME NEW r \in Readers, Returns(r) PROVE LocksAreHeld'
    BY <1>16 DEF Returns, IsCurrent, Fails, Goto
  <1>17. ASSUME NEW r \in Readers, ReadRoutes(r) PROVE LocksAreHeld'
    BY <1>17 DEF ReadRoutes, Fails, Goto
  <1>18. ASSUME NEW r \in Readers, ReturnsRoutes(r) PROVE LocksAreHeld'
    BY <1>18 DEF ReturnsRoutes, IsCurrent, Goto
  <1>19. CASE Restart
    BY <1>19 DEF Restart
  <1>20. CASE CrashWhileSaving
    BY <1>20 DEF CrashWhileSaving
  <1>21. CASE UNCHANGED vars
    BY <1>21 DEF vars
  <1> QED
    BY <1>1, <1>2, <1>3, <1>4, <1>5, <1>6, <1>7, <1>8, <1>9, <1>10, <1>11, <1>12, <1>13, <1>14,
      <1>15, <1>16, <1>17, <1>18, <1>19, <1>20, <1>21 DEF Next, Reads, Rests

\* Counters only grow within one life of the service.
LEMMA RevisionsStep ==
  ASSUME TypeOK, ToldIsTyped, LocksAreHeld, RevisionsArePast, ReadersAreBehind, [Next]_vars
  PROVE  RevisionsArePast'
  <1> USE DEF ToldIsTyped, RevisionsArePast, ReadersAreBehind, Sampling, Holding, TypeOK,
    Labels, Networks, Contexts, Numbered, NoContext, stateVars, lockVars, readerVars, saltVars,
    worldVars, toldVars
  <1>1. CASE UNCHANGED <<revision, retained, minted, samples, candidates>>
    BY <1>1
  <1>2. LanChanges \/ WifiChanges \/ DnsChanges \/ TunChanges \/ UNCHANGED vars => UNCHANGED
    <<revision, retained, minted, samples, candidates>>
    BY DEF LanChanges, WifiChanges, DnsChanges, TunChanges, Changes, vars
  <1>3. ASSUME NEW r \in Readers,
             (\E c \in BOOLEAN : SampleBegins(r, c)) \/ ReadAdapters(r) \/ RegisterWlan(r) \/
               ReadWifi(r) \/ Refers(r) \/ MintFails(r) \/ Returns(r) \/ ReadRoutes(r)
        PROVE  UNCHANGED <<revision, retained, minted, samples, candidates>>
    BY <1>3 DEF SampleBegins, ReadAdapters, RegisterWlan, ReadWifi, Refers, MintFails, Returns,
      ReadRoutes
  <1>4. CASE Notified
    BY <1>4 DEF Notified
  <1>5. ASSUME NEW r \in Readers, SampleFails(r) PROVE RevisionsArePast'
    BY <1>5 DEF SampleFails, Fails, Goto
  <1>6. ASSUME NEW r \in Readers, SampleChecks(r) PROVE RevisionsArePast'
    BY <1>6 DEF SampleChecks, Sampled, Goto
  <1>7. ASSUME NEW r \in Readers, SampleExchanges(r) PROVE RevisionsArePast'
    BY <1>7 DEF SampleExchanges, Sampled, Fails, Goto
  <1>8. ASSUME NEW r \in Readers, Mints(r) PROVE RevisionsArePast'
    BY <1>8 DEF Mints, Goto
  <1>9. ASSUME NEW r \in Readers, ReturnsRoutes(r) PROVE RevisionsArePast'
    BY <1>9 DEF ReturnsRoutes, IsCurrent, Goto
  <1>10. CASE Restart
    BY <1>10 DEF Restart
  <1>11. CASE CrashWhileSaving
    BY <1>11 DEF CrashWhileSaving
  <1> QED
    BY <1>1, <1>2, <1>3, <1>4, <1>5, <1>6, <1>7, <1>8, <1>9, <1>10, <1>11 DEF Next, Reads, Rests

\* Readers' numbers come from the counter.
LEMMA BehindStep ==
  ASSUME TypeOK, ToldIsTyped, LocksAreHeld, RevisionsArePast, ReadersAreBehind, [Next]_vars
  PROVE  ReadersAreBehind'
  <1> USE DEF ToldIsTyped, RevisionsArePast, ReadersAreBehind, LocksAreHeld, Sampling, Holding,
    TypeOK, Labels, Networks, Contexts, Numbered, NoContext, stateVars, lockVars, readerVars,
    saltVars, worldVars, toldVars
  <1>1. CASE Notified
    BY <1>1 DEF Notified
  <1>2. CASE LanChanges
    BY <1>2 DEF LanChanges, Changes
  <1>3. CASE WifiChanges
    BY <1>3 DEF WifiChanges, Changes
  <1>4. CASE DnsChanges
    BY <1>4 DEF DnsChanges, Changes
  <1>5. CASE TunChanges
    BY <1>5 DEF TunChanges, Changes
  <1>6. ASSUME NEW r \in Readers, NEW c \in BOOLEAN, SampleBegins(r, c) PROVE ReadersAreBehind'
    BY <1>6 DEF SampleBegins, Goto
  <1>7. ASSUME NEW r \in Readers, ReadAdapters(r) PROVE ReadersAreBehind'
    BY <1>7 DEF ReadAdapters, Goto
  <1>8. ASSUME NEW r \in Readers, RegisterWlan(r) PROVE ReadersAreBehind'
    BY <1>8 DEF RegisterWlan, Goto
  <1>9. ASSUME NEW r \in Readers, ReadWifi(r) PROVE ReadersAreBehind'
    BY <1>9 DEF ReadWifi, Goto
  <1>10. ASSUME NEW r \in Readers, SampleFails(r) PROVE ReadersAreBehind'
    BY <1>10 DEF SampleFails, Fails, Goto
  <1>11. ASSUME NEW r \in Readers, SampleChecks(r) PROVE ReadersAreBehind'
    BY <1>11 DEF SampleChecks, Sampled, Goto
  <1>12. ASSUME NEW r \in Readers, SampleExchanges(r) PROVE ReadersAreBehind'
    BY <1>12 DEF SampleExchanges, Sampled, Fails, Goto
  <1>13. ASSUME NEW r \in Readers, Refers(r) PROVE ReadersAreBehind'
    BY <1>13 DEF Refers, IsCurrent, Fails, Goto
  <1>14. ASSUME NEW r \in Readers, Mints(r) PROVE ReadersAreBehind'
    BY <1>14 DEF Mints, Goto
  <1>15. ASSUME NEW r \in Readers, MintFails(r) PROVE ReadersAreBehind'
    BY <1>15 DEF MintFails, Fails, Goto
  <1>16. ASSUME NEW r \in Readers, Returns(r) PROVE ReadersAreBehind'
    BY <1>16 DEF Returns, IsCurrent, Fails, Goto
  <1>17. ASSUME NEW r \in Readers, ReadRoutes(r) PROVE ReadersAreBehind'
    BY <1>17 DEF ReadRoutes, Fails, Goto
  <1>18. ASSUME NEW r \in Readers, ReturnsRoutes(r) PROVE ReadersAreBehind'
    BY <1>18 DEF ReturnsRoutes, IsCurrent, Goto
  <1>19. CASE Restart
    BY <1>19 DEF Restart
  <1>20. CASE CrashWhileSaving
    BY <1>20 DEF CrashWhileSaving
  <1>21. CASE UNCHANGED vars
    BY <1>21 DEF vars
  <1> QED
    BY <1>1, <1>2, <1>3, <1>4, <1>5, <1>6, <1>7, <1>8, <1>9, <1>10, <1>11, <1>12, <1>13, <1>14,
      <1>15, <1>16, <1>17, <1>18, <1>19, <1>20, <1>21 DEF Next, Reads, Rests

\* Wi-Fi is registered before it is read, and stays registered.
LEMMA WlanStep ==
  ASSUME TypeOK, WlanIsWatched, [Next]_vars
  PROVE  WlanIsWatched'
  <1> USE DEF WlanIsWatched, Holding, TypeOK, Labels, stateVars, lockVars, readerVars, saltVars,
    worldVars, toldVars
  <1>1. CASE Notified
    BY <1>1 DEF Notified
  <1>2. CASE LanChanges
    BY <1>2 DEF LanChanges, Changes
  <1>3. CASE WifiChanges
    BY <1>3 DEF WifiChanges, Changes
  <1>4. CASE DnsChanges
    BY <1>4 DEF DnsChanges, Changes
  <1>5. CASE TunChanges
    BY <1>5 DEF TunChanges, Changes
  <1>6. ASSUME NEW r \in Readers, NEW c \in BOOLEAN, SampleBegins(r, c) PROVE WlanIsWatched'
    BY <1>6 DEF SampleBegins, Goto
  <1>7. ASSUME NEW r \in Readers, ReadAdapters(r) PROVE WlanIsWatched'
    BY <1>7 DEF ReadAdapters, Goto
  <1>8. ASSUME NEW r \in Readers, RegisterWlan(r) PROVE WlanIsWatched'
    BY <1>8 DEF RegisterWlan, Goto
  <1>9. ASSUME NEW r \in Readers, ReadWifi(r) PROVE WlanIsWatched'
    BY <1>9 DEF ReadWifi, Goto
  <1>10. ASSUME NEW r \in Readers, SampleFails(r) PROVE WlanIsWatched'
    BY <1>10 DEF SampleFails, Fails, Goto
  <1>11. ASSUME NEW r \in Readers, SampleChecks(r) PROVE WlanIsWatched'
    BY <1>11 DEF SampleChecks, Sampled, Goto
  <1>12. ASSUME NEW r \in Readers, SampleExchanges(r) PROVE WlanIsWatched'
    BY <1>12 DEF SampleExchanges, Sampled, Fails, Goto
  <1>13. ASSUME NEW r \in Readers, Refers(r) PROVE WlanIsWatched'
    BY <1>13 DEF Refers, IsCurrent, Fails, Goto
  <1>14. ASSUME NEW r \in Readers, Mints(r) PROVE WlanIsWatched'
    BY <1>14 DEF Mints, Goto
  <1>15. ASSUME NEW r \in Readers, MintFails(r) PROVE WlanIsWatched'
    BY <1>15 DEF MintFails, Fails, Goto
  <1>16. ASSUME NEW r \in Readers, Returns(r) PROVE WlanIsWatched'
    BY <1>16 DEF Returns, IsCurrent, Fails, Goto
  <1>17. ASSUME NEW r \in Readers, ReadRoutes(r) PROVE WlanIsWatched'
    BY <1>17 DEF ReadRoutes, Fails, Goto
  <1>18. ASSUME NEW r \in Readers, ReturnsRoutes(r) PROVE WlanIsWatched'
    BY <1>18 DEF ReturnsRoutes, IsCurrent, Goto
  <1>19. CASE Restart
    BY <1>19 DEF Restart
  <1>20. CASE CrashWhileSaving
    BY <1>20 DEF CrashWhileSaving
  <1>21. CASE UNCHANGED vars
    BY <1>21 DEF vars
  <1> QED
    BY <1>1, <1>2, <1>3, <1>4, <1>5, <1>6, <1>7, <1>8, <1>9, <1>10, <1>11, <1>12, <1>13, <1>14,
      <1>15, <1>16, <1>17, <1>18, <1>19, <1>20, <1>21 DEF Next, Reads, Rests

\* previous is the sample of the current revision.
LEMMA PreviousStep ==
  ASSUME ObserverAssumption, TypeOK, ToldIsTyped, LocksAreHeld, RevisionsArePast,
    ReadersAreBehind, PreviousIsLast, [Next]_vars
  PROVE  PreviousIsLast'
  <1> USE DEF ObserverAssumption, ReadersAreBehind, ToldIsTyped, RevisionsArePast,
    PreviousIsLast, LocksAreHeld, Sampling, TypeOK, Labels, Networks, Contexts, Numbered,
    NoContext, stateVars, lockVars, readerVars, saltVars, worldVars, toldVars
  <1>1. CASE UNCHANGED <<revision, previous, samples>>
    BY <1>1
  <1>2. LanChanges \/ WifiChanges \/ DnsChanges \/ TunChanges \/ UNCHANGED vars => UNCHANGED
    <<revision, previous, samples>>
    BY DEF LanChanges, WifiChanges, DnsChanges, TunChanges, Changes, vars
  <1>3. ASSUME NEW r \in Readers,
             (\E c \in BOOLEAN : SampleBegins(r, c)) \/ ReadAdapters(r) \/ RegisterWlan(r) \/
               ReadWifi(r) \/ Refers(r) \/ Mints(r) \/ MintFails(r) \/ Returns(r) \/
               ReadRoutes(r) \/ ReturnsRoutes(r)
        PROVE  UNCHANGED <<revision, previous, samples>>
    BY <1>3 DEF SampleBegins, ReadAdapters, RegisterWlan, ReadWifi, Refers, Mints, MintFails,
      Returns, ReadRoutes, ReturnsRoutes
  <1>4. CASE Notified
    BY <1>4 DEF Notified
  <1>5. ASSUME NEW r \in Readers, SampleFails(r) PROVE PreviousIsLast'
    BY <1>5 DEF SampleFails, Fails, Goto
  <1>6. ASSUME NEW r \in Readers, SampleChecks(r) PROVE PreviousIsLast'
    BY <1>6 DEF SampleChecks, Sampled, Goto
  <1>7. ASSUME NEW r \in Readers, SampleExchanges(r) PROVE PreviousIsLast'
    BY <1>7 DEF SampleExchanges, Sampled, Fails, Goto
  <1>8. CASE Restart
    BY <1>8 DEF Restart
  <1>9. CASE CrashWhileSaving
    BY <1>9 DEF CrashWhileSaving
  <1> QED
    BY <1>1, <1>2, <1>3, <1>4, <1>5, <1>6, <1>7, <1>8, <1>9 DEF Next, Reads, Rests

\* One network for each revision.
LEMMA OneNetworkStep ==
  ASSUME ObserverAssumption, TypeOK, ToldIsTyped, RevisionsArePast, ReadersAreBehind,
    PreviousIsLast, OneNetworkPerRevision, [Next]_vars
  PROVE  OneNetworkPerRevision'
  <1> USE DEF ObserverAssumption, ToldIsTyped, RevisionsArePast, ReadersAreBehind, Sampling,
    PreviousIsLast, OneNetworkPerRevision, TypeOK, Labels, Networks, Contexts, Numbered,
    NoContext, stateVars, lockVars, readerVars, saltVars, worldVars, toldVars
  <1>1. CASE UNCHANGED samples
    BY <1>1
  <1>2. Notified \/ LanChanges \/ WifiChanges \/ DnsChanges \/ TunChanges \/ UNCHANGED vars =>
    UNCHANGED samples
    BY DEF Notified, LanChanges, WifiChanges, DnsChanges, TunChanges, Changes, vars
  <1>3. ASSUME NEW r \in Readers,
             (\E c \in BOOLEAN : SampleBegins(r, c)) \/ ReadAdapters(r) \/ RegisterWlan(r) \/
               ReadWifi(r) \/ SampleFails(r) \/ Refers(r) \/ Mints(r) \/ MintFails(r) \/
               Returns(r) \/ ReadRoutes(r) \/ ReturnsRoutes(r)
        PROVE  UNCHANGED samples
    BY <1>3 DEF SampleBegins, ReadAdapters, RegisterWlan, ReadWifi, SampleFails, Refers, Mints,
      MintFails, Returns, ReadRoutes, ReturnsRoutes
  <1>4. ASSUME NEW r \in Readers, SampleChecks(r) PROVE OneNetworkPerRevision'
    BY <1>4 DEF SampleChecks, Sampled, Goto
  <1>5. ASSUME NEW r \in Readers, SampleExchanges(r) PROVE OneNetworkPerRevision'
    BY <1>5 DEF SampleExchanges, Sampled, Fails, Goto
  <1>6. CASE Restart
    BY <1>6 DEF Restart
  <1>7. CASE CrashWhileSaving
    BY <1>7 DEF CrashWhileSaving
  <1> QED
    BY <1>1, <1>2, <1>3, <1>4, <1>5, <1>6, <1>7 DEF Next, Reads, Rests

\* What is sampled stays true while nothing is notified.
LEMMA SamplesFreshStep ==
  ASSUME TypeOK, LocksAreHeld, ReadersAreBehind, WlanIsWatched, SamplesAreFresh, [Next]_vars
  PROVE  SamplesAreFresh'
  <1> USE DEF LocksAreHeld, ReadersAreBehind, WlanIsWatched, Sampling, Holding, SamplesAreFresh,
    TypeOK, Labels, Networks, Contexts, Numbered, NoContext, stateVars, lockVars, readerVars,
    saltVars, worldVars, toldVars
  <1>1. CASE Notified
    BY <1>1 DEF Notified
  <1>2. CASE LanChanges
    BY <1>2 DEF LanChanges, Changes
  <1>3. CASE WifiChanges
    BY <1>3 DEF WifiChanges, Changes
  <1>4. CASE DnsChanges
    BY <1>4 DEF DnsChanges, Changes
  <1>5. CASE TunChanges
    BY <1>5 DEF TunChanges, Changes
  <1>6. ASSUME NEW r \in Readers, NEW c \in BOOLEAN, SampleBegins(r, c) PROVE SamplesAreFresh'
    BY <1>6 DEF SampleBegins, Goto
  <1>7. ASSUME NEW r \in Readers, ReadAdapters(r) PROVE SamplesAreFresh'
    BY <1>7 DEF ReadAdapters, Goto
  <1>8. ASSUME NEW r \in Readers, RegisterWlan(r) PROVE SamplesAreFresh'
    BY <1>8 DEF RegisterWlan, Goto
  <1>9. ASSUME NEW r \in Readers, ReadWifi(r) PROVE SamplesAreFresh'
    BY <1>9 DEF ReadWifi, Goto
  <1>10. ASSUME NEW r \in Readers, SampleFails(r) PROVE SamplesAreFresh'
    BY <1>10 DEF SampleFails, Fails, Goto
  <1>11. ASSUME NEW r \in Readers, SampleChecks(r) PROVE SamplesAreFresh'
    BY <1>11 DEF SampleChecks, Sampled, Goto
  <1>12. ASSUME NEW r \in Readers, SampleExchanges(r) PROVE SamplesAreFresh'
    BY <1>12 DEF SampleExchanges, Sampled, Fails, Goto
  <1>13. ASSUME NEW r \in Readers, Refers(r) PROVE SamplesAreFresh'
    BY <1>13 DEF Refers, IsCurrent, Fails, Goto
  <1>14. ASSUME NEW r \in Readers, Mints(r) PROVE SamplesAreFresh'
    BY <1>14 DEF Mints, Goto
  <1>15. ASSUME NEW r \in Readers, MintFails(r) PROVE SamplesAreFresh'
    BY <1>15 DEF MintFails, Fails, Goto
  <1>16. ASSUME NEW r \in Readers, Returns(r) PROVE SamplesAreFresh'
    BY <1>16 DEF Returns, IsCurrent, Fails, Goto
  <1>17. ASSUME NEW r \in Readers, ReadRoutes(r) PROVE SamplesAreFresh'
    BY <1>17 DEF ReadRoutes, Fails, Goto
  <1>18. ASSUME NEW r \in Readers, ReturnsRoutes(r) PROVE SamplesAreFresh'
    BY <1>18 DEF ReturnsRoutes, IsCurrent, Goto
  <1>19. CASE Restart
    BY <1>19 DEF Restart
  <1>20. CASE CrashWhileSaving
    BY <1>20 DEF CrashWhileSaving
  <1>21. CASE UNCHANGED vars
    BY <1>21 DEF vars
  <1> QED
    BY <1>1, <1>2, <1>3, <1>4, <1>5, <1>6, <1>7, <1>8, <1>9, <1>10, <1>11, <1>12, <1>13, <1>14,
      <1>15, <1>16, <1>17, <1>18, <1>19, <1>20, <1>21 DEF Next, Reads, Rests

\* The same of routes.
LEMMA RoutesFreshStep ==
  ASSUME TypeOK, LocksAreHeld, ReadersAreBehind, WlanIsWatched, RoutesAreFresh, [Next]_vars
  PROVE  RoutesAreFresh'
  <1> USE DEF ReadersAreBehind, LocksAreHeld, WlanIsWatched, Sampling, Holding, RoutesAreFresh,
    Notifiable, TypeOK, Labels, Networks, Contexts, Numbered, NoContext, stateVars, lockVars,
    readerVars, saltVars, worldVars, toldVars
  <1>1. CASE Notified
    BY <1>1 DEF Notified
  <1>2. CASE LanChanges
    BY <1>2 DEF LanChanges, Changes
  <1>3. CASE WifiChanges
    BY <1>3 DEF WifiChanges, Changes
  <1>4. CASE DnsChanges
    BY <1>4 DEF DnsChanges, Changes
  <1>5. CASE TunChanges
    BY <1>5 DEF TunChanges, Changes
  <1>6. ASSUME NEW r \in Readers, NEW c \in BOOLEAN, SampleBegins(r, c) PROVE RoutesAreFresh'
    BY <1>6 DEF SampleBegins, Goto
  <1>7. ASSUME NEW r \in Readers, ReadAdapters(r) PROVE RoutesAreFresh'
    BY <1>7 DEF ReadAdapters, Goto
  <1>8. ASSUME NEW r \in Readers, RegisterWlan(r) PROVE RoutesAreFresh'
    BY <1>8 DEF RegisterWlan, Goto
  <1>9. ASSUME NEW r \in Readers, ReadWifi(r) PROVE RoutesAreFresh'
    BY <1>9 DEF ReadWifi, Goto
  <1>10. ASSUME NEW r \in Readers, SampleFails(r) PROVE RoutesAreFresh'
    BY <1>10 DEF SampleFails, Fails, Goto
  <1>11. ASSUME NEW r \in Readers, SampleChecks(r) PROVE RoutesAreFresh'
    BY <1>11 DEF SampleChecks, Sampled, Goto
  <1>12. ASSUME NEW r \in Readers, SampleExchanges(r) PROVE RoutesAreFresh'
    BY <1>12 DEF SampleExchanges, Sampled, Fails, Goto
  <1>13. ASSUME NEW r \in Readers, Refers(r) PROVE RoutesAreFresh'
    BY <1>13 DEF Refers, IsCurrent, Fails, Goto
  <1>14. ASSUME NEW r \in Readers, Mints(r) PROVE RoutesAreFresh'
    BY <1>14 DEF Mints, Goto
  <1>15. ASSUME NEW r \in Readers, MintFails(r) PROVE RoutesAreFresh'
    BY <1>15 DEF MintFails, Fails, Goto
  <1>16. ASSUME NEW r \in Readers, Returns(r) PROVE RoutesAreFresh'
    BY <1>16 DEF Returns, IsCurrent, Fails, Goto
  <1>17. ASSUME NEW r \in Readers, ReadRoutes(r) PROVE RoutesAreFresh'
    BY <1>17 DEF ReadRoutes, Fails, Goto
  <1>18. ASSUME NEW r \in Readers, ReturnsRoutes(r) PROVE RoutesAreFresh'
    BY <1>18 DEF ReturnsRoutes, IsCurrent, Goto
  <1>19. CASE Restart
    BY <1>19 DEF Restart
  <1>20. CASE CrashWhileSaving
    BY <1>20 DEF CrashWhileSaving
  <1>21. CASE UNCHANGED vars
    BY <1>21 DEF vars
  <1> QED
    BY <1>1, <1>2, <1>3, <1>4, <1>5, <1>6, <1>7, <1>8, <1>9, <1>10, <1>11, <1>12, <1>13, <1>14,
      <1>15, <1>16, <1>17, <1>18, <1>19, <1>20, <1>21 DEF Next, Reads, Rests

\* The current revision names the network of this moment.
LEMMA CurrentStep ==
  ASSUME TypeOK, ToldIsTyped, RevisionsArePast, WlanIsWatched, SamplesAreFresh,
    CurrentRevisionIsTrue, [Next]_vars
  PROVE  CurrentRevisionIsTrue'
  <1> USE DEF ToldIsTyped, RevisionsArePast, WlanIsWatched, SamplesAreFresh,
    CurrentRevisionIsTrue, TypeOK, Labels, Networks, Contexts, Numbered, NoContext, stateVars,
    lockVars, readerVars, saltVars, worldVars, toldVars
  <1>1. CASE UNCHANGED <<ready, revision, samples, network, pending>>
    BY <1>1
  <1>2. TunChanges \/ UNCHANGED vars => UNCHANGED <<ready, revision, samples, network, pending>>
    BY DEF TunChanges, Changes, vars
  <1>3. ASSUME NEW r \in Readers,
             (\E c \in BOOLEAN : SampleBegins(r, c)) \/ ReadAdapters(r) \/ RegisterWlan(r) \/
               ReadWifi(r) \/ Refers(r) \/ Mints(r) \/ MintFails(r) \/ Returns(r) \/
               ReadRoutes(r) \/ ReturnsRoutes(r)
        PROVE  UNCHANGED <<ready, revision, samples, network, pending>>
    BY <1>3 DEF SampleBegins, ReadAdapters, RegisterWlan, ReadWifi, Refers, Mints, MintFails,
      Returns, ReadRoutes, ReturnsRoutes
  <1>4. CASE Notified
    BY <1>4 DEF Notified
  <1>5. CASE LanChanges
    BY <1>5 DEF LanChanges, Changes
  <1>6. CASE WifiChanges
    BY <1>6 DEF WifiChanges, Changes
  <1>7. CASE DnsChanges
    BY <1>7 DEF DnsChanges, Changes
  <1>8. ASSUME NEW r \in Readers, SampleFails(r) PROVE CurrentRevisionIsTrue'
    BY <1>8 DEF SampleFails, Fails, Goto
  <1>9. ASSUME NEW r \in Readers, SampleChecks(r) PROVE CurrentRevisionIsTrue'
    BY <1>9 DEF SampleChecks, Sampled, Goto
  <1>10. ASSUME NEW r \in Readers, SampleExchanges(r) PROVE CurrentRevisionIsTrue'
    BY <1>10 DEF SampleExchanges, Sampled, Fails, Goto
  <1>11. CASE Restart
    BY <1>11 DEF Restart
  <1>12. CASE CrashWhileSaving
    BY <1>12 DEF CrashWhileSaving
  <1> QED
    BY <1>1, <1>2, <1>3, <1>4, <1>5, <1>6, <1>7, <1>8, <1>9, <1>10, <1>11, <1>12 DEF Next,
      Reads, Rests

\* So do the routes of a candidate.
LEMMA CandidateStep ==
  ASSUME TypeOK, ToldIsTyped, RevisionsArePast, WlanIsWatched, RoutesAreFresh,
    CandidateMatchesRevision, [Next]_vars
  PROVE  CandidateMatchesRevision'
  <1> USE DEF ToldIsTyped, RevisionsArePast, WlanIsWatched, RoutesAreFresh, Notifiable,
    CandidateMatchesRevision, TypeOK, Labels, Networks, Contexts, Numbered, NoContext,
    stateVars, lockVars, readerVars, saltVars, worldVars, toldVars
  <1>1. CASE UNCHANGED <<ready, revision, candidates, network, pending>>
    BY <1>1
  <1>2. TunChanges \/ UNCHANGED vars => UNCHANGED <<ready, revision, candidates, network,
    pending>>
    BY DEF TunChanges, Changes, vars
  <1>3. ASSUME NEW r \in Readers,
             (\E c \in BOOLEAN : SampleBegins(r, c)) \/ ReadAdapters(r) \/ RegisterWlan(r) \/
               ReadWifi(r) \/ SampleChecks(r) \/ Refers(r) \/ Mints(r) \/ MintFails(r) \/
               Returns(r) \/ ReadRoutes(r)
        PROVE  UNCHANGED <<ready, revision, candidates, network, pending>>
    BY <1>3 DEF SampleBegins, ReadAdapters, RegisterWlan, ReadWifi, SampleChecks, Refers, Mints,
      MintFails, Returns, ReadRoutes
  <1>4. CASE Notified
    BY <1>4 DEF Notified
  <1>5. CASE LanChanges
    BY <1>5 DEF LanChanges, Changes
  <1>6. CASE WifiChanges
    BY <1>6 DEF WifiChanges, Changes
  <1>7. CASE DnsChanges
    BY <1>7 DEF DnsChanges, Changes
  <1>8. ASSUME NEW r \in Readers, SampleFails(r) PROVE CandidateMatchesRevision'
    BY <1>8 DEF SampleFails, Fails, Goto
  <1>9. ASSUME NEW r \in Readers, SampleExchanges(r) PROVE CandidateMatchesRevision'
    BY <1>9 DEF SampleExchanges, Sampled, Fails, Goto
  <1>10. ASSUME NEW r \in Readers, ReturnsRoutes(r) PROVE CandidateMatchesRevision'
    BY <1>10 DEF ReturnsRoutes, IsCurrent, Goto
  <1>11. CASE Restart
    BY <1>11 DEF Restart
  <1>12. CASE CrashWhileSaving
    BY <1>12 DEF CrashWhileSaving
  <1> QED
    BY <1>1, <1>2, <1>3, <1>4, <1>5, <1>6, <1>7, <1>8, <1>9, <1>10, <1>11, <1>12 DEF Next,
      Reads, Rests

\* A new reference is newer than every one given.
LEMMA GivenStep ==
  ASSUME TypeOK, ToldIsTyped, RevisionsArePast, ReadersAreBehind, GivenIsOlder, [Next]_vars
  PROVE  GivenIsOlder'
  <1> USE DEF ToldIsTyped, RevisionsArePast, ReadersAreBehind, GivenIsOlder, TypeOK, Labels,
    Networks, Contexts, Numbered, NoContext, stateVars, lockVars, readerVars, saltVars,
    worldVars, toldVars
  <1>1. CASE UNCHANGED <<given, retained>>
    BY <1>1
  <1>2. Notified \/ LanChanges \/ WifiChanges \/ DnsChanges \/ TunChanges \/ UNCHANGED vars =>
    UNCHANGED <<given, retained>>
    BY DEF Notified, LanChanges, WifiChanges, DnsChanges, TunChanges, Changes, vars
  <1>3. ASSUME NEW r \in Readers,
             (\E c \in BOOLEAN : SampleBegins(r, c)) \/ ReadAdapters(r) \/ RegisterWlan(r) \/
               ReadWifi(r) \/ SampleFails(r) \/ SampleChecks(r) \/ SampleExchanges(r) \/
               Refers(r) \/ MintFails(r) \/ ReadRoutes(r) \/ ReturnsRoutes(r)
        PROVE  UNCHANGED <<given, retained>>
    BY <1>3 DEF SampleBegins, ReadAdapters, RegisterWlan, ReadWifi, SampleFails, SampleChecks,
      SampleExchanges, Refers, MintFails, ReadRoutes, ReturnsRoutes
  <1>4. ASSUME NEW r \in Readers, Mints(r) PROVE GivenIsOlder'
    <2>1. CASE retained.revision = captured[r]
      BY <1>4, <2>1 DEF Mints
    <2>2. CASE retained.revision # captured[r]
      <3>1. retained' = [revision |-> captured[r], reference |-> minted + 1] /\ given' = given
        BY <1>4, <2>2 DEF Mints
      <3>2. retained.revision <= captured[r] /\ retained.reference <= minted
        BY <1>4 DEF Mints
      <3>3. /\ retained.revision \in Nat /\ retained.reference \in Nat
            /\ captured[r] \in Nat /\ minted \in Nat
        OBVIOUS
      <3>4. retained.revision < captured[r] /\ retained.reference < minted + 1
        <4> HIDE DEF TypeOK, Contexts, RevisionsArePast, ReadersAreBehind, GivenIsOlder, ToldIsTyped
        <4> QED
          BY <2>2, <3>2, <3>3
      <3> QED
        BY <3>1, <3>4
    <2> QED
      BY <2>1, <2>2
  <1>5. ASSUME NEW r \in Readers, Returns(r) PROVE GivenIsOlder'
    BY <1>5 DEF Returns, IsCurrent, Fails, Goto
  <1>6. CASE Restart
    BY <1>6 DEF Restart
  <1>7. CASE CrashWhileSaving
    BY <1>7 DEF CrashWhileSaving
  <1> QED
    BY <1>1, <1>2, <1>3, <1>4, <1>5, <1>6, <1>7 DEF Next, Reads, Rests

\* References and revisions stay one to one.
LEMMA ReferenceStep ==
  ASSUME TypeOK, ToldIsTyped, GivenIsOlder, ReferenceIsRevision, [Next]_vars
  PROVE  ReferenceIsRevision'
  <1> USE DEF ToldIsTyped, GivenIsOlder, ReferenceIsRevision, TypeOK, Labels, Networks,
    Contexts, Numbered, NoContext, stateVars, lockVars, readerVars, saltVars, worldVars,
    toldVars
  <1>1. CASE UNCHANGED given
    BY <1>1
  <1>2. Notified \/ LanChanges \/ WifiChanges \/ DnsChanges \/ TunChanges \/ UNCHANGED vars =>
    UNCHANGED given
    BY DEF Notified, LanChanges, WifiChanges, DnsChanges, TunChanges, Changes, vars
  <1>3. ASSUME NEW r \in Readers,
             (\E c \in BOOLEAN : SampleBegins(r, c)) \/ ReadAdapters(r) \/ RegisterWlan(r) \/
               ReadWifi(r) \/ SampleFails(r) \/ SampleChecks(r) \/ SampleExchanges(r) \/
               Refers(r) \/ Mints(r) \/ MintFails(r) \/ ReadRoutes(r) \/ ReturnsRoutes(r)
        PROVE  UNCHANGED given
    BY <1>3 DEF SampleBegins, ReadAdapters, RegisterWlan, ReadWifi, SampleFails, SampleChecks,
      SampleExchanges, Refers, Mints, MintFails, ReadRoutes, ReturnsRoutes
  <1>4. ASSUME NEW r \in Readers, Returns(r) PROVE ReferenceIsRevision'
    BY <1>4 DEF Returns, IsCurrent, Fails, Goto
  <1>5. CASE Restart
    BY <1>5 DEF Restart
  <1>6. CASE CrashWhileSaving
    BY <1>6 DEF CrashWhileSaving
  <1> QED
    BY <1>1, <1>2, <1>3, <1>4, <1>5, <1>6 DEF Next, Reads, Rests

\* The salt in use is on disk.
LEMMA SaltStep ==
  ASSUME ObserverAssumption, TypeOK, SaltIsDurable, [Next]_vars
  PROVE  SaltIsDurable'
  <1> USE DEF ObserverAssumption, SaltIsDurable, TypeOK, LoadSelectionSalt, stateVars, lockVars,
    readerVars, saltVars, worldVars, toldVars
  <1>1. CASE UNCHANGED <<salt, saltFile>>
    BY <1>1
  <1>2. Notified \/ LanChanges \/ WifiChanges \/ DnsChanges \/ TunChanges \/ UNCHANGED vars =>
    UNCHANGED <<salt, saltFile>>
    BY DEF Notified, LanChanges, WifiChanges, DnsChanges, TunChanges, Changes, vars
  <1>3. ASSUME NEW r \in Readers,
             (\E c \in BOOLEAN : SampleBegins(r, c)) \/ ReadAdapters(r) \/ RegisterWlan(r) \/
               ReadWifi(r) \/ SampleFails(r) \/ SampleChecks(r) \/ SampleExchanges(r) \/
               Refers(r) \/ Mints(r) \/ MintFails(r) \/ Returns(r) \/ ReadRoutes(r) \/
               ReturnsRoutes(r)
        PROVE  UNCHANGED <<salt, saltFile>>
    BY <1>3 DEF SampleBegins, ReadAdapters, RegisterWlan, ReadWifi, SampleFails, SampleChecks,
      SampleExchanges, Refers, Mints, MintFails, Returns, ReadRoutes, ReturnsRoutes
  <1>4. CASE Restart
    <2>1. restarts' \in Nat
      BY <1>4 DEF Restart
    <2>2. CASE salt' = None
      BY <2>2
    <2>3. CASE saltFile \in Nat /\ salt' = saltFile /\ saltFile' = saltFile
      BY <2>3
    <2>4. CASE saltFile' = restarts' /\ salt' = restarts'
      BY <2>4
    <2> QED
      BY <1>4, <2>2, <2>3, <2>4 DEF Restart
  <1>5. CASE CrashWhileSaving
    BY <1>5 DEF CrashWhileSaving
  <1> QED
    BY <1>1, <1>2, <1>3, <1>4, <1>5 DEF Next, Reads, Rests

\* The observer starts in the invariant.
LEMMA InitIInv == ASSUME ObserverAssumption, Init PROVE IInv
  <1> USE DEF ObserverAssumption, Init
  <1>1. NoContext \in Contexts /\ NoNetwork \in Networks
    BY DEF NoContext, Contexts, NoNetwork, Networks
  <1>2. TypeOK
    <2>1. salt \in Nat \cup {None} /\ saltFile \in Nat \cup {None, Unreadable}
      OBVIOUS
    <2>2. ready \in BOOLEAN /\ wlan \in BOOLEAN /\ pendingFile \in BOOLEAN /\ tun \in BOOLEAN
      OBVIOUS
    <2>3. /\ pc \in [Readers -> Labels] /\ candidate \in [Readers -> BOOLEAN]
          /\ seen \in [Readers -> Networks] /\ route \in [Readers -> Networks]
          /\ before \in [Readers -> Nat] /\ captured \in [Readers -> Nat]
      BY <1>1 DEF Labels
    <2>4. revision \in Nat \ {0} /\ minted \in Nat /\ pending \in Nat /\ changes \in Nat
      OBVIOUS
    <2> QED
      BY <1>1, <2>1, <2>2, <2>3, <2>4 DEF TypeOK
  <1>3. ToldIsTyped /\ OneNetworkPerRevision /\ CurrentRevisionIsTrue /\ CandidateMatchesRevision
    BY DEF ToldIsTyped, OneNetworkPerRevision, CurrentRevisionIsTrue, CandidateMatchesRevision
  <1>4. LocksAreHeld /\ RevisionsArePast /\ ReadersAreBehind
    BY DEF LocksAreHeld, RevisionsArePast, ReadersAreBehind, Sampling, Holding, NoContext
  <1>5. WlanIsWatched /\ PreviousIsLast /\ SamplesAreFresh /\ RoutesAreFresh
    BY DEF WlanIsWatched, PreviousIsLast, SamplesAreFresh, RoutesAreFresh, Holding
  <1>6. GivenIsOlder /\ ReferenceIsRevision
    BY DEF GivenIsOlder, ReferenceIsRevision
  <1>7. SaltIsDurable
    BY DEF SaltIsDurable
  <1> QED
    BY <1>2, <1>3, <1>4, <1>5, <1>6, <1>7 DEF IInv

\* Every step keeps it.
LEMMA NextIInv == ASSUME ObserverAssumption, IInv, [Next]_vars PROVE IInv'
  <1>1. TypeOK' /\ ToldIsTyped' /\ LocksAreHeld'
    BY TypeStep, ToldStep, LocksStep DEF IInv
  <1>2. RevisionsArePast' /\ ReadersAreBehind' /\ WlanIsWatched'
    BY RevisionsStep, BehindStep, WlanStep DEF IInv
  <1>3. PreviousIsLast' /\ OneNetworkPerRevision'
    BY PreviousStep, OneNetworkStep DEF IInv
  <1>4. SamplesAreFresh' /\ RoutesAreFresh' /\ CurrentRevisionIsTrue' /\ CandidateMatchesRevision'
    BY SamplesFreshStep, RoutesFreshStep, CurrentStep, CandidateStep DEF IInv
  <1>5. GivenIsOlder' /\ ReferenceIsRevision' /\ SaltIsDurable'
    BY GivenStep, ReferenceStep, SaltStep DEF IInv
  <1> QED
    BY <1>1, <1>2, <1>3, <1>4, <1>5 DEF IInv

\* The inductive invariant of the observer.
THEOREM Inductive == ASSUME ObserverAssumption PROVE Spec => []IInv
  <1>1. Init => IInv
    BY InitIInv
  <1>2. IInv /\ [Next]_vars => IInv'
    BY NextIInv
  <1> QED
    BY <1>1, <1>2, PTL DEF Spec

\* What a revision number promises the dispatcher holds however notifications,
\* the system calls of any number of readers and restarts are interleaved: one
\* network, the present one while the revision is current, one reference, and
\* keys under a salt that is on disk (ServiceNetworkObserver::ReadContext and
\* ReadCandidateContext).
THEOREM RevisionHolds == ASSUME ObserverAssumption PROVE Spec => []RevisionIsTrue
  <1>1. IInv => RevisionIsTrue
    BY DEF IInv, RevisionIsTrue
  <1> QED
    BY Inductive, <1>1, PTL

-----------------------------------------------------------------------------
(* References.                                                             *)

\* A step that makes no reference leaves the valid one or makes it invalid: the
\* revision moves away from the retained one and never back to it.
LEMMA NoMintStep ==
  ASSUME IInv, [Next]_vars, minted' = minted
  PROVE  ValidReference' \in {0, ValidReference}
  <1> USE DEF IInv, TypeOK, Contexts, NoContext, RevisionsArePast, ValidReference
  <1>1. CASE UNCHANGED <<revision, ready, retained>>
    BY <1>1
  <1>2. CASE UNCHANGED <<ready, retained>> /\ revision' = revision + 1
    BY <1>2
  <1>3. CASE revision' = 1 /\ retained' = NoContext
    BY <1>3
  <1>4. ASSUME NEW r \in Readers, Reads(r)
        PROVE  \/ UNCHANGED <<revision, ready, retained>>
               \/ UNCHANGED <<ready, retained>> /\ revision' = revision + 1
    BY <1>4 DEF Reads, SampleBegins, ReadAdapters, RegisterWlan, ReadWifi, SampleFails, SampleChecks,
      SampleExchanges, Refers, Mints, MintFails, Returns, ReadRoutes, ReturnsRoutes, stateVars
  <1>5. Restart \/ CrashWhileSaving => revision' = 1 /\ retained' = NoContext
    BY DEF Restart, CrashWhileSaving
  <1>6. Notified => UNCHANGED <<ready, retained>> /\ revision' = revision + 1
    BY DEF Notified
  <1>7. LanChanges \/ WifiChanges \/ DnsChanges \/ TunChanges \/ Rests \/ UNCHANGED vars
          => UNCHANGED <<revision, ready, retained>>
    BY DEF LanChanges, WifiChanges, DnsChanges, TunChanges, Changes, Rests, stateVars, vars
  <1> QED
    BY <1>1, <1>2, <1>3, <1>4, <1>5, <1>6, <1>7 DEF Next

\* Only Mints makes a reference.
LEMMA MintStep ==
  ASSUME [Next]_vars, minted' # minted
  PROVE  \E r \in Readers : Mints(r) /\ retained.revision # captured[r]
  <1>1. ASSUME NEW r \in Readers, Reads(r) PROVE Mints(r) /\ retained.revision # captured[r]
    BY <1>1 DEF Reads, SampleBegins, ReadAdapters, RegisterWlan, ReadWifi, SampleFails, SampleChecks,
      SampleExchanges, Refers, Mints, MintFails, Returns, ReadRoutes, ReturnsRoutes, stateVars
  <1>2. ~(Restart \/ CrashWhileSaving \/ Notified)
    BY DEF Restart, CrashWhileSaving, Notified
  <1>3. ~(LanChanges \/ WifiChanges \/ DnsChanges \/ TunChanges \/ Rests \/ UNCHANGED vars)
    BY DEF LanChanges, WifiChanges, DnsChanges, TunChanges, Changes, Rests, stateVars, vars
  <1> QED
    BY <1>1, <1>2, <1>3 DEF Next

\* The observer gives out references as NetworkReference promises: one is valid at
\* a time, a change of the network makes it invalid, and it never comes back
\* (the retained context and its reference_lock).
THEOREM KeepsPromise == ASSUME ObserverAssumption PROVE Spec => ImplementsPromise
  <1>1. Init => Promise!Init
    BY DEF Init, Promise!Init, ValidReference, NoContext
  <1>2. IInv /\ [Next]_vars => [Promise!Next]_(Promise!vars)
    <2> SUFFICES ASSUME IInv, [Next]_vars
                 PROVE  [Promise!Next]_(Promise!vars)
      OBVIOUS
    <2>1. CASE minted' = minted
      BY <2>1, NoMintStep DEF Promise!Next, Promise!Invalidate, Promise!vars
    <2>2. CASE minted' # minted
      <3>1. PICK r \in Readers : Mints(r) /\ retained.revision # captured[r]
        BY <2>2, MintStep
      <3>2. retained.revision # revision
        <4>1. retained.revision <= captured[r] /\ captured[r] <= revision
          BY <3>1 DEF IInv, ReadersAreBehind, Mints, Holding
        <4>2. retained.revision \in Nat /\ captured[r] \in Nat /\ revision \in Nat
          BY DEF IInv, TypeOK, Contexts
        <4> QED
          BY <3>1, <4>1, <4>2
      <3>3. ValidReference = 0
        BY <3>2 DEF ValidReference
      <3>4. minted' = minted + 1 /\ retained' = [revision |-> captured[r], reference |-> minted + 1]
        BY <3>1 DEF Mints
      <3>5. ValidReference' \in {0, minted'}
        BY <3>4 DEF ValidReference
      <3> QED
        BY <3>3, <3>4, <3>5 DEF Promise!Next, Promise!Issue
    <2> QED
      BY <2>1, <2>2
  <1> QED
    BY Inductive, <1>1, <1>2, PTL DEF Spec, Promise!Spec, ImplementsPromise


-----------------------------------------------------------------------------
(* The adapter *)

CaptureLabels == {"captureAddresses", "captureRoutes", "captureDns"}
RestoreLabels ==
  {"find", "routes", "addresses", "dns", "interface", "makeAddresses", "makeRoutes", "setDns"}

\* What the user had: Windows makes the on-link route of every address.
UserFits == user # None => \A a \in user.addresses : OnLink[a] \in user.routes

\* Capture runs before there is a snapshot, Restore after it; a snapshot of an adapter
\* is all the user had.
SessionFits ==
  /\ step \in CaptureLabels => session = "none" /\ user # None
  /\ step \in RestoreLabels => session = "rollback"
  /\ session = "none" => adapter \in {user, None} /\ snapshot = None
  /\ session # "none" =>
       /\ snapshot \in Adapter!Snapshots /\ Adapter!ParseSnapshot(snapshot)
       /\ snapshot.existed => snapshot.of = user /\ user # None

\* What Capture has read, if the adapter is still there, is what the user had.
CaptureFits ==
  adapter # None =>
    /\ step \in CaptureLabels => draft.interface = user.interface
    /\ step \in {"captureRoutes", "captureDns"} =>
         draft.addresses = user.addresses /\ Cardinality(user.addresses) <= MaximumAddresses
    /\ step = "captureDns" => draft.routes = user.routes /\ Cardinality(user.routes) <= MaximumRoutes

\* What Restore has deleted is gone, what it has made is there, and nothing else is.
Deleted == adapter.routes = {} /\ adapter.addresses = {}
RestoreFits ==
  adapter # None =>
    /\ step = "routes" => adapter.routes \subseteq todo
    /\ step = "addresses" => adapter.routes = {} /\ adapter.addresses \subseteq todo
    /\ step = "dns" =>
         Deleted /\ todo \subseteq Families /\ \A f \in Families \ todo : adapter.dns[f] = "clear"
    /\ step \in {"interface", "makeAddresses", "makeRoutes", "setDns"} => snapshot.existed
    /\ step = "interface" =>
         /\ Deleted /\ todo \subseteq Families
         /\ \A f \in Families \ todo : adapter.interface[f] = user.interface[f]
    /\ step \in {"makeAddresses", "makeRoutes", "setDns"} =>
         adapter.interface = user.interface /\ adapter.routes \subseteq user.routes
    /\ step = "makeAddresses" =>
         /\ todo \subseteq user.addresses /\ adapter.addresses \subseteq user.addresses
         /\ user.addresses \ todo \subseteq adapter.addresses
    /\ step \in {"makeRoutes", "setDns"} => adapter.addresses = user.addresses
    /\ step = "makeRoutes" => todo \subseteq user.routes /\ user.routes \ todo \subseteq adapter.routes
    /\ step = "setDns" =>
         /\ adapter.routes = user.routes /\ todo \subseteq Families
         /\ \A f \in Families \ todo : adapter.dns[f] = user.dns[f]

AdapterInv ==
  /\ Adapter!TypeOK /\ UserFits /\ SessionFits /\ CaptureFits /\ RestoreFits
  /\ Adapter!RestoredIsTheUsers

LEMMA Counted == \A S : Adapter!Cardinality(S) = Cardinality(S)
BY DEF Adapter!Cardinality, Cardinality

LEMMA AdapterReports == ASSUME AdapterInv PROVE AdapterIsTheUsers
<1>1. Adapter!SnapshotIsWhole BY DEF AdapterInv, SessionFits, Adapter!SnapshotIsWhole
<1>2. Adapter!SnapshotCanBeRead BY DEF AdapterInv, SessionFits, Adapter!SnapshotCanBeRead
<1> QED BY <1>1, <1>2 DEF AdapterInv, AdapterIsTheUsers, Adapter!AdapterIsTheUsers

\* The rows of one adapter can be counted.
LEMMA RowsCounted ==
  ASSUME Adapter!StateAssumption, NEW a \in Adapter!Adapters
  PROVE  Cardinality(a.addresses) \in Nat /\ Cardinality(a.routes) \in Nat
<1>1. IsFiniteSet(Adapter!Addresses) /\ IsFiniteSet(Adapter!Routes)
  BY DEF Adapter!StateAssumption, Adapter!IsFiniteSet, IsFiniteSet
<1>2. a.addresses \subseteq Adapter!Addresses /\ a.routes \subseteq Adapter!Routes BY DEF Adapter!Adapters
<1>3. IsFiniteSet(a.addresses) /\ IsFiniteSet(a.routes) BY <1>1, <1>2, FS_Subset
<1> QED BY <1>3, FS_CardinalityType

LEMMA KnownAdapters ==
  /\ Adapter!UserAdapter \in Adapter!Adapters /\ Adapter!CoreAdapter \in Adapter!Adapters
  /\ Adapter!BlankAdapter \in Adapter!Adapters
BY DEF Adapter!UserAdapter, Adapter!CoreAdapter, Adapter!BlankAdapter, Adapter!Adapters, Adapter!Owners,
       Adapter!Addresses, Adapter!Routes

LEMMA AdapterInit == ASSUME Adapter!StateAssumption, Adapter!Init PROVE AdapterInv
<1> USE DEF Adapter!Init
<1> DEFINE full == [Adapter!UserAdapter EXCEPT !.addresses = Adapter!Addresses, !.routes = Adapter!Routes]
<1>1. full \in Adapter!Adapters BY KnownAdapters DEF Adapter!Adapters
<1>2. Adapter!TypeOK
  <2>1. adapter \in Adapter!Adapters \cup {None} /\ user \in Adapter!Adapters \cup {None} /\ draft \in Adapter!Adapters
    BY <1>1, KnownAdapters
  <2>2. step \in Adapter!Labels /\ failed \in 0..MaxFailed BY DEF Adapter!Labels, Adapter!StateAssumption
  <2> QED BY <2>1, <2>2 DEF Adapter!TypeOK
<1>3. UserFits
  <2>1. \A a \in Adapter!UserAdapter.addresses : OnLink[a] \in Adapter!UserAdapter.routes
    BY DEF Adapter!UserAdapter, Adapter!StateAssumption
  <2>2. \A a \in full.addresses : OnLink[a] \in full.routes
    BY DEF Adapter!UserAdapter, Adapter!StateAssumption
  <2>3. \A a \in Adapter!BlankAdapter.addresses : OnLink[a] \in Adapter!BlankAdapter.routes
    BY DEF Adapter!BlankAdapter
  <2> QED BY <2>1, <2>2, <2>3 DEF UserFits
<1>4. SessionFits BY DEF SessionFits, CaptureLabels, RestoreLabels
<1>5. CaptureFits /\ RestoreFits BY DEF CaptureFits, RestoreFits, CaptureLabels
<1>6. Adapter!RestoredIsTheUsers BY DEF Adapter!RestoredIsTheUsers
<1> QED BY <1>2, <1>3, <1>4, <1>5, <1>6 DEF AdapterInv

\* The call under way is over, and nothing else happens.
LEMMA CallEnds ==
  ASSUME AdapterInv, step' = "idle", todo' = {}, failed' \in 0..MaxFailed,
         UNCHANGED <<adapter, snapshot, draft, session, user, twin>>
  PROVE  AdapterInv'
<1> USE DEF AdapterInv
<1>1. Adapter!TypeOK' BY DEF Adapter!TypeOK, Adapter!Labels
<1>2. UserFits' /\ Adapter!RestoredIsTheUsers' BY DEF UserFits, Adapter!RestoredIsTheUsers
<1>3. SessionFits'
  <2>1. step' \notin CaptureLabels /\ step' \notin RestoreLabels BY DEF CaptureLabels, RestoreLabels
  <2>2. Adapter!ParseSnapshot(snapshot)' = Adapter!ParseSnapshot(snapshot) BY DEF Adapter!ParseSnapshot
  <2> QED BY <2>1, <2>2 DEF SessionFits
<1>4. CaptureFits' /\ RestoreFits' BY DEF CaptureFits, RestoreFits, CaptureLabels
<1> QED BY <1>1, <1>2, <1>3, <1>4

\* The snapshot is there: nothing changes it.
LEMMA SnapshotStays ==
  ASSUME SessionFits, session # "none", UNCHANGED <<snapshot, user>>
  PROVE  /\ snapshot' \in Adapter!Snapshots /\ Adapter!ParseSnapshot(snapshot')
         /\ (snapshot'.existed => snapshot'.of = user' /\ user' # None)
BY DEF SessionFits

\* A call of Restore was made, and the next one is to come.
LEMMA RestoreGoes ==
  ASSUME AdapterInv, session = "rollback", UNCHANGED <<session, snapshot, draft, user, failed>>,
         twin' \in {twin, FALSE}, adapter' \in Adapter!Adapters \cup {None}, step' \in RestoreLabels,
         todo' \subseteq Adapter!Addresses \cup Adapter!Routes \cup Families, RestoreFits'
  PROVE  AdapterInv'
<1> USE DEF AdapterInv
<1>1. Adapter!TypeOK' BY DEF Adapter!TypeOK, Adapter!Labels, RestoreLabels
<1>2. UserFits' /\ Adapter!RestoredIsTheUsers' BY DEF UserFits, Adapter!RestoredIsTheUsers
<1>3. step' \notin CaptureLabels BY DEF CaptureLabels, RestoreLabels
<1>4. SessionFits' BY <1>3, SnapshotStays DEF SessionFits
<1>5. CaptureFits' BY <1>3 DEF CaptureFits, CaptureLabels
<1> QED BY <1>1, <1>2, <1>4, <1>5

\* Restore reports success.
LEMMA RestoreSettles ==
  ASSUME AdapterInv, session = "rollback", session' = "restored", step' = "idle", todo' = {},
         UNCHANGED <<adapter, snapshot, draft, user, twin, failed>>,
         IF snapshot.existed THEN adapter = snapshot.of
         ELSE adapter # None => Deleted /\ \A f \in Families : adapter.dns[f] = "clear"
  PROVE  AdapterInv'
<1> USE DEF AdapterInv
<1>1. Adapter!TypeOK' BY DEF Adapter!TypeOK, Adapter!Labels
<1>2. UserFits' BY DEF UserFits
<1>3. Adapter!RestoredIsTheUsers' BY DEF Adapter!RestoredIsTheUsers, Deleted
<1>4. step' \notin CaptureLabels /\ step' \notin RestoreLabels BY DEF CaptureLabels, RestoreLabels
<1>5. SessionFits' BY <1>4, SnapshotStays DEF SessionFits
<1>6. CaptureFits' /\ RestoreFits' BY DEF CaptureFits, RestoreFits, CaptureLabels
<1> QED BY <1>1, <1>2, <1>3, <1>5, <1>6

\* Where Restore is, and what is there of adapter and snapshot.
LEMMA RestoreRuns ==
  ASSUME AdapterInv, step \in RestoreLabels
  PROVE  /\ session = "rollback" /\ snapshot \in Adapter!Snapshots
         /\ (snapshot.existed => snapshot.of = user /\ user \in Adapter!Adapters)
         /\ (adapter # None => adapter \in Adapter!Adapters)
         /\ todo \subseteq Adapter!Addresses \cup Adapter!Routes \cup Families
BY DEF AdapterInv, SessionFits, Adapter!TypeOK

LEMMA RestoreKept == ASSUME AdapterInv, Adapter!Restore PROVE AdapterInv'
<1>1. /\ session = "rollback" /\ step' = "find" /\ todo' = {}
      /\ UNCHANGED <<adapter, session, snapshot, draft, user, twin, failed>>
  BY DEF Adapter!Restore, Adapter!Goto, Adapter!Unchanged
<1>2. adapter' \in Adapter!Adapters \cup {None} BY <1>1 DEF AdapterInv, Adapter!TypeOK
<1>3. RestoreFits' BY <1>1 DEF RestoreFits
<1> QED BY <1>1, <1>2, <1>3, RestoreGoes DEF RestoreLabels

\* The adapter the search finds: the namesake becomes the service's.
LEMMA FoundFits ==
  ASSUME AdapterInv
  PROVE  Adapter!Found \in Adapter!Adapters \cup {None}
BY KnownAdapters DEF AdapterInv, Adapter!TypeOK, Adapter!Found, Adapter!Namesake

LEMMA FindKept == ASSUME Adapter!StateAssumption, AdapterInv, Adapter!FindOwnedAdapter PROVE AdapterInv'
<1> USE DEF Adapter!Goto, Adapter!Settle, Adapter!FindFails
<1>1. step = "find" /\ UNCHANGED <<snapshot, draft, user, failed>> BY DEF Adapter!FindOwnedAdapter
<1>2. session = "rollback" BY <1>1, RestoreRuns DEF RestoreLabels
<1>3. CASE step' = "idle" /\ todo' = {} /\ UNCHANGED <<adapter, twin, session>>
  BY <1>1, <1>3, CallEnds DEF AdapterInv, Adapter!TypeOK
<1>4. CASE /\ Adapter!Found = None /\ ~snapshot.existed /\ session' = "restored" /\ step' = "idle" /\ todo' = {}
           /\ UNCHANGED <<adapter, twin>>
  <2>1. Adapter!UserAdapter # None BY KnownAdapters DEF Adapter!StateAssumption
  <2>2. adapter = None BY <1>4, <2>1 DEF Adapter!Found, Adapter!Namesake
  <2> QED BY <1>1, <1>2, <1>4, <2>2, RestoreSettles
<1>5. CASE Adapter!Found # None /\ Adapter!Finds(Adapter!Found)
  <2>1. PICK a : a = Adapter!Found OBVIOUS
  <2>2. a \in Adapter!Adapters BY <1>5, <2>1, FoundFits
  <2>3. adapter' = a /\ twin' = FALSE /\ step' = "routes" /\ todo' = a.routes /\ UNCHANGED session
    BY <1>5, <2>1 DEF Adapter!Finds
  <2>4. todo' \subseteq Adapter!Addresses \cup Adapter!Routes \cup Families
    BY <2>2, <2>3 DEF Adapter!Adapters
  <2>5. RestoreFits' BY <2>2, <2>3 DEF RestoreFits
  <2> QED BY <1>1, <1>2, <2>2, <2>3, <2>4, <2>5, RestoreGoes DEF RestoreLabels
<1> QED BY <1>3, <1>4, <1>5 DEF Adapter!FindOwnedAdapter

LEMMA DeleteRoutesKept == ASSUME AdapterInv, Adapter!DeleteOwnedRoutes PROVE AdapterInv'
<1> USE DEF Adapter!Goto, Adapter!Unchanged, Adapter!OnAdapter
<1>1. step = "routes" /\ adapter # None /\ UNCHANGED <<session, snapshot, draft, user, twin, failed>>
  BY DEF Adapter!DeleteOwnedRoutes
<1>2. session = "rollback" /\ adapter \in Adapter!Adapters
      /\ todo \subseteq Adapter!Addresses \cup Adapter!Routes \cup Families
  BY <1>1, RestoreRuns DEF RestoreLabels
<1>3. adapter.routes \subseteq todo BY <1>1 DEF AdapterInv, RestoreFits
<1>4. CASE todo = {} /\ adapter' = adapter /\ step' = "addresses" /\ todo' = adapter.addresses
  <2>1. todo' \subseteq Adapter!Addresses \cup Adapter!Routes \cup Families
    BY <1>2, <1>4 DEF Adapter!Adapters
  <2>2. RestoreFits' BY <1>3, <1>4 DEF RestoreFits
  <2> QED BY <1>1, <1>2, <1>4, <2>1, <2>2, RestoreGoes DEF RestoreLabels
<1>5. ASSUME NEW r \in todo, adapter' = [adapter EXCEPT !.routes = @ \ {r}], step' = "routes", todo' = todo \ {r}
      PROVE  AdapterInv'
  <2>1. adapter' \in Adapter!Adapters /\ adapter'.routes = adapter.routes \ {r} BY <1>2, <1>5 DEF Adapter!Adapters
  <2>2. RestoreFits' BY <1>3, <1>5, <2>1 DEF RestoreFits
  <2> QED BY <1>1, <1>2, <1>5, <2>1, <2>2, RestoreGoes DEF RestoreLabels
<1> QED BY <1>4, <1>5 DEF Adapter!DeleteOwnedRoutes

LEMMA DeleteAddressesKept == ASSUME AdapterInv, Adapter!DeleteOwnedAddresses PROVE AdapterInv'
<1> USE DEF Adapter!Goto, Adapter!Unchanged, Adapter!OnAdapter
<1>1. step = "addresses" /\ adapter # None /\ UNCHANGED <<session, snapshot, draft, user, twin, failed>>
  BY DEF Adapter!DeleteOwnedAddresses
<1>2. session = "rollback" /\ adapter \in Adapter!Adapters
      /\ todo \subseteq Adapter!Addresses \cup Adapter!Routes \cup Families
  BY <1>1, RestoreRuns DEF RestoreLabels
<1>3. adapter.routes = {} /\ adapter.addresses \subseteq todo BY <1>1 DEF AdapterInv, RestoreFits
<1>4. CASE todo = {} /\ adapter' = adapter /\ step' = "dns" /\ todo' = Families
  <2>1. RestoreFits' BY <1>3, <1>4 DEF RestoreFits, Deleted
  <2> QED BY <1>1, <1>2, <1>4, <2>1, RestoreGoes DEF RestoreLabels
<1>5. ASSUME NEW a \in todo, step' = "addresses", todo' = todo \ {a},
             adapter' = [adapter EXCEPT !.addresses = @ \ {a}, !.routes = @ \ {OnLink[a]}]
      PROVE  AdapterInv'
  <2>1. adapter' \in Adapter!Adapters /\ adapter'.addresses = adapter.addresses \ {a}
        /\ adapter'.routes = adapter.routes \ {OnLink[a]}
    BY <1>2, <1>5 DEF Adapter!Adapters
  <2>2. RestoreFits' BY <1>3, <1>5, <2>1 DEF RestoreFits
  <2> QED BY <1>1, <1>2, <1>5, <2>1, <2>2, RestoreGoes DEF RestoreLabels
<1> QED BY <1>4, <1>5 DEF Adapter!DeleteOwnedAddresses

LEMMA ClearDnsKept == ASSUME AdapterInv, Adapter!ClearDns PROVE AdapterInv'
<1> USE DEF Adapter!Goto, Adapter!Unchanged, Adapter!OnAdapter, Adapter!Settle
<1>1. step = "dns" /\ adapter # None /\ UNCHANGED <<snapshot, draft, user, twin, failed>>
  BY DEF Adapter!ClearDns
<1>2. session = "rollback" /\ adapter \in Adapter!Adapters
  BY <1>1, RestoreRuns DEF RestoreLabels
<1>3. Deleted /\ todo \subseteq Families /\ \A f \in Families \ todo : adapter.dns[f] = "clear"
  BY <1>1 DEF AdapterInv, RestoreFits
<1>4. CASE todo = {} /\ adapter' = adapter /\ snapshot.existed /\ step' = "interface" /\ todo' = Families
           /\ UNCHANGED session
  <2>1. RestoreFits' BY <1>1, <1>3, <1>4 DEF RestoreFits, Deleted
  <2> QED BY <1>1, <1>2, <1>4, <2>1, RestoreGoes DEF RestoreLabels
<1>5. CASE todo = {} /\ adapter' = adapter /\ ~snapshot.existed /\ session' = "restored" /\ step' = "idle" /\ todo' = {}
  BY <1>1, <1>2, <1>3, <1>5, RestoreSettles
<1>6. ASSUME NEW g \in todo, step' = "dns", todo' = todo \ {g}, UNCHANGED session,
             adapter' = [adapter EXCEPT !.dns[g] = "clear"]
      PROVE  AdapterInv'
  <2>1. adapter' \in Adapter!Adapters /\ adapter'.addresses = adapter.addresses /\ adapter'.routes = adapter.routes
        /\ \A f \in Families : adapter'.dns[f] = IF f = g THEN "clear" ELSE adapter.dns[f]
    BY <1>2, <1>3, <1>6 DEF Adapter!Adapters, Adapter!Owners
  <2>2. RestoreFits' BY <1>3, <1>6, <2>1 DEF RestoreFits, Deleted
  <2> QED BY <1>1, <1>2, <1>3, <1>6, <2>1, <2>2, RestoreGoes DEF RestoreLabels
<1> QED BY <1>4, <1>5, <1>6 DEF Adapter!ClearDns

LEMMA RestoreInterfaceKept == ASSUME AdapterInv, Adapter!RestoreInterface PROVE AdapterInv'
<1> USE DEF Adapter!Goto, Adapter!Unchanged, Adapter!OnAdapter, Adapter!Target
<1>1. step = "interface" /\ adapter # None /\ UNCHANGED <<session, snapshot, draft, user, twin, failed>>
  BY DEF Adapter!RestoreInterface
<1>2. Deleted /\ snapshot.existed /\ todo \subseteq Families
      /\ \A f \in Families \ todo : adapter.interface[f] = user.interface[f]
  BY <1>1 DEF AdapterInv, RestoreFits
<1>3. session = "rollback" /\ adapter \in Adapter!Adapters /\ snapshot.of = user /\ user \in Adapter!Adapters
  BY <1>1, <1>2, RestoreRuns DEF RestoreLabels
<1>4. CASE todo = {} /\ adapter' = adapter /\ step' = "makeAddresses" /\ todo' = user.addresses
  <2>1. adapter.interface = user.interface BY <1>2, <1>3, <1>4 DEF Adapter!Adapters
  <2>2. RestoreFits' BY <1>1, <1>2, <1>4, <2>1 DEF RestoreFits, Deleted
  <2>3. todo' \subseteq Adapter!Addresses BY <1>3, <1>4 DEF Adapter!Adapters
  <2> QED BY <1>1, <1>3, <1>4, <2>2, <2>3, RestoreGoes DEF RestoreLabels
<1>5. ASSUME NEW g \in todo, step' = "interface", todo' = todo \ {g},
             adapter' = [adapter EXCEPT !.interface[g] = user.interface[g]]
      PROVE  AdapterInv'
  <2>1. user.interface[g] \in Adapter!Owners BY <1>2, <1>3 DEF Adapter!Adapters
  <2>2. adapter' \in Adapter!Adapters /\ adapter'.addresses = adapter.addresses /\ adapter'.routes = adapter.routes
        /\ \A f \in Families : adapter'.interface[f] = IF f = g THEN user.interface[g] ELSE adapter.interface[f]
    BY <1>2, <1>3, <1>5, <2>1 DEF Adapter!Adapters
  <2>3. RestoreFits' BY <1>1, <1>2, <1>5, <2>2 DEF RestoreFits, Deleted
  <2> QED BY <1>1, <1>2, <1>3, <1>5, <2>2, <2>3, RestoreGoes DEF RestoreLabels
<1> QED BY <1>3, <1>4, <1>5 DEF Adapter!RestoreInterface

LEMMA RestoreAddressKept == ASSUME AdapterInv, Adapter!RestoreAddress PROVE AdapterInv'
<1> USE DEF Adapter!Goto, Adapter!Unchanged, Adapter!OnAdapter, Adapter!Target
<1>1. step = "makeAddresses" /\ adapter # None /\ UNCHANGED <<session, snapshot, draft, user, twin, failed>>
  BY DEF Adapter!RestoreAddress
<1>2. /\ snapshot.existed /\ adapter.interface = user.interface /\ adapter.routes \subseteq user.routes
      /\ todo \subseteq user.addresses /\ adapter.addresses \subseteq user.addresses
      /\ user.addresses \ todo \subseteq adapter.addresses
  BY <1>1 DEF AdapterInv, RestoreFits
<1>3. session = "rollback" /\ adapter \in Adapter!Adapters /\ snapshot.of = user /\ user \in Adapter!Adapters
  BY <1>1, <1>2, RestoreRuns DEF RestoreLabels
<1>4. user.addresses \subseteq Adapter!Addresses /\ user.routes \subseteq Adapter!Routes BY <1>3 DEF Adapter!Adapters
<1>5. CASE todo = {} /\ adapter' = adapter /\ step' = "makeRoutes" /\ todo' = user.routes
  <2>1. RestoreFits' BY <1>1, <1>2, <1>5 DEF RestoreFits
  <2> QED BY <1>1, <1>3, <1>4, <1>5, <2>1, RestoreGoes DEF RestoreLabels
<1>6. ASSUME NEW a \in todo, step' = "makeAddresses", todo' = todo \ {a},
             adapter' = [adapter EXCEPT !.addresses = @ \cup {a}, !.routes = @ \cup {OnLink[a]}]
      PROVE  AdapterInv'
  <2>1. OnLink[a] \in user.routes
    <3>1. user # None BY <1>1, <1>2 DEF AdapterInv, SessionFits, RestoreLabels
    <3> QED BY <1>2, <3>1 DEF AdapterInv, UserFits
  <2>2. /\ adapter' \in Adapter!Adapters /\ adapter'.addresses = adapter.addresses \cup {a}
        /\ adapter'.routes = adapter.routes \cup {OnLink[a]} /\ adapter'.interface = adapter.interface
    BY <1>2, <1>3, <1>4, <1>6, <2>1 DEF Adapter!Adapters
  <2>3. RestoreFits' BY <1>1, <1>2, <1>6, <2>1, <2>2 DEF RestoreFits
  <2> QED BY <1>1, <1>2, <1>3, <1>4, <1>6, <2>2, <2>3, RestoreGoes DEF RestoreLabels
<1> QED BY <1>3, <1>5, <1>6 DEF Adapter!RestoreAddress

LEMMA RestoreRouteKept == ASSUME AdapterInv, Adapter!RestoreRoute PROVE AdapterInv'
<1> USE DEF Adapter!Goto, Adapter!Unchanged, Adapter!OnAdapter, Adapter!Target
<1>1. step = "makeRoutes" /\ adapter # None /\ UNCHANGED <<session, snapshot, draft, user, twin, failed>>
  BY DEF Adapter!RestoreRoute
<1>2. /\ snapshot.existed /\ adapter.interface = user.interface /\ adapter.routes \subseteq user.routes
      /\ adapter.addresses = user.addresses
      /\ todo \subseteq user.routes /\ user.routes \ todo \subseteq adapter.routes
  BY <1>1 DEF AdapterInv, RestoreFits
<1>3. session = "rollback" /\ adapter \in Adapter!Adapters /\ snapshot.of = user /\ user \in Adapter!Adapters
  BY <1>1, <1>2, RestoreRuns DEF RestoreLabels
<1>4. user.routes \subseteq Adapter!Routes BY <1>3 DEF Adapter!Adapters
<1>5. CASE todo = {} /\ adapter' = adapter /\ step' = "setDns" /\ todo' = Families
  <2>1. RestoreFits' BY <1>1, <1>2, <1>5 DEF RestoreFits
  <2> QED BY <1>1, <1>3, <1>4, <1>5, <2>1, RestoreGoes DEF RestoreLabels
<1>6. ASSUME NEW r \in todo, step' = "makeRoutes", todo' = todo \ {r},
             adapter' = [adapter EXCEPT !.routes = @ \cup {r}]
      PROVE  AdapterInv'
  <2>1. /\ adapter' \in Adapter!Adapters /\ adapter'.addresses = adapter.addresses
        /\ adapter'.routes = adapter.routes \cup {r} /\ adapter'.interface = adapter.interface
    BY <1>2, <1>3, <1>4, <1>6 DEF Adapter!Adapters
  <2>2. RestoreFits' BY <1>1, <1>2, <1>6, <2>1 DEF RestoreFits
  <2> QED BY <1>1, <1>2, <1>3, <1>4, <1>6, <2>1, <2>2, RestoreGoes DEF RestoreLabels
<1> QED BY <1>3, <1>5, <1>6 DEF Adapter!RestoreRoute

LEMMA ApplyDnsKept == ASSUME AdapterInv, Adapter!ApplyDns PROVE AdapterInv'
<1> USE DEF Adapter!Goto, Adapter!Unchanged, Adapter!OnAdapter, Adapter!Target, Adapter!Settle
<1>1. step = "setDns" /\ adapter # None /\ UNCHANGED <<snapshot, draft, user, twin, failed>>
  BY DEF Adapter!ApplyDns
<1>2. /\ snapshot.existed /\ adapter.interface = user.interface /\ adapter.routes = user.routes
      /\ adapter.addresses = user.addresses /\ todo \subseteq Families
      /\ \A f \in Families \ todo : adapter.dns[f] = user.dns[f]
  BY <1>1 DEF AdapterInv, RestoreFits
<1>3. session = "rollback" /\ adapter \in Adapter!Adapters /\ snapshot.of = user /\ user \in Adapter!Adapters
  BY <1>1, <1>2, RestoreRuns DEF RestoreLabels
<1>4. CASE todo = {} /\ adapter' = adapter /\ session' = "restored" /\ step' = "idle" /\ todo' = {}
  <2>1. adapter.dns = user.dns BY <1>2, <1>3, <1>4 DEF Adapter!Adapters
  <2>2. adapter = user BY <1>2, <1>3, <2>1 DEF Adapter!Adapters
  <2> QED BY <1>1, <1>2, <1>3, <1>4, <2>2, RestoreSettles
<1>5. ASSUME NEW g \in todo, step' = "setDns", todo' = todo \ {g}, UNCHANGED session,
             adapter' = [adapter EXCEPT !.dns[g] = user.dns[g]]
      PROVE  AdapterInv'
  <2>1. user.dns[g] \in Adapter!Owners BY <1>2, <1>3 DEF Adapter!Adapters
  <2>2. /\ adapter' \in Adapter!Adapters /\ adapter'.addresses = adapter.addresses
        /\ adapter'.routes = adapter.routes /\ adapter'.interface = adapter.interface
        /\ \A f \in Families : adapter'.dns[f] = IF f = g THEN user.dns[g] ELSE adapter.dns[f]
    BY <1>2, <1>3, <1>5, <2>1 DEF Adapter!Adapters
  <2>3. RestoreFits' BY <1>1, <1>2, <1>5, <2>2 DEF RestoreFits
  <2> QED BY <1>1, <1>2, <1>3, <1>5, <2>2, <2>3, RestoreGoes DEF RestoreLabels
<1> QED BY <1>3, <1>4, <1>5 DEF Adapter!ApplyDns

\* A snapshot is made.
LEMMA SnapshotMade ==
  ASSUME AdapterInv, session = "none", session' = "captured", step' = "idle", todo' = {},
         UNCHANGED <<adapter, user, twin, failed>>, draft' = draft,
         snapshot' \in Adapter!Snapshots, Adapter!ParseSnapshot(snapshot'),
         snapshot'.existed => snapshot'.of = user /\ user # None
  PROVE  AdapterInv'
<1> USE DEF AdapterInv
<1>1. Adapter!TypeOK' BY DEF Adapter!TypeOK, Adapter!Labels
<1>2. UserFits' /\ Adapter!RestoredIsTheUsers' BY DEF UserFits, Adapter!RestoredIsTheUsers
<1>3. step' \notin CaptureLabels /\ step' \notin RestoreLabels BY DEF CaptureLabels, RestoreLabels
<1>4. SessionFits' BY <1>3 DEF SessionFits
<1>5. CaptureFits' /\ RestoreFits' BY DEF CaptureFits, RestoreFits, CaptureLabels
<1> QED BY <1>1, <1>2, <1>4, <1>5

\* A call of Capture was made, and the next one is to come.
LEMMA CaptureGoes ==
  ASSUME AdapterInv, session = "none", user' # None, step' \in CaptureLabels, todo' = {},
         UNCHANGED <<snapshot, session, failed>>, adapter' \in {user', None}, twin' \in {twin, FALSE},
         user' \in Adapter!Adapters, UserFits', draft' \in Adapter!Adapters, CaptureFits'
  PROVE  AdapterInv'
<1> USE DEF AdapterInv
<1>1. Adapter!TypeOK' BY DEF Adapter!TypeOK, Adapter!Labels, CaptureLabels
<1>2. Adapter!RestoredIsTheUsers' BY DEF Adapter!RestoredIsTheUsers
<1>3. step' \notin RestoreLabels BY DEF CaptureLabels, RestoreLabels
<1>4. SessionFits' BY <1>3 DEF SessionFits
<1>5. RestoreFits' BY DEF RestoreFits, CaptureLabels
<1> QED BY <1>1, <1>2, <1>4, <1>5

LEMMA CaptureKept == ASSUME Adapter!StateAssumption, AdapterInv, Adapter!Capture PROVE AdapterInv'
<1> USE DEF Adapter!Goto, Adapter!Keep
<1>1. session = "none" /\ failed' = failed /\ ~Adapter!Ambiguous BY DEF Adapter!Capture
<1>2. adapter \in {user, None} /\ user \in Adapter!Adapters \cup {None}
  BY <1>1 DEF AdapterInv, SessionFits, Adapter!TypeOK
<1>3. CASE /\ snapshot' = Adapter!AbsentSnapshot /\ session' = "captured" /\ step' = "idle" /\ todo' = {}
           /\ UNCHANGED <<adapter, user, twin, draft>>
  <2>1. snapshot' \in Adapter!Snapshots /\ ~snapshot'.existed
    BY <1>3, KnownAdapters DEF Adapter!AbsentSnapshot, Adapter!Snapshots
  <2> QED BY <1>1, <1>3, <2>1, SnapshotMade DEF Adapter!ParseSnapshot
<1>4. CASE /\ Adapter!Found # None /\ adapter' = Adapter!Found /\ twin' = FALSE
           /\ draft' = Adapter!CaptureInterface(Adapter!Found)
           /\ user' = (IF twin THEN Adapter!Found ELSE user) /\ step' = "captureAddresses" /\ todo' = {}
           /\ UNCHANGED <<snapshot, session>>
  <2>1. PICK a : a = Adapter!Found OBVIOUS
  <2>2. a \in Adapter!Adapters /\ a # None BY <1>4, <2>1, FoundFits
  <2>3. user' = a /\ adapter' = a BY <1>2, <1>4, <2>1, <2>2 DEF Adapter!Found
  <2>4. draft' \in Adapter!Adapters /\ draft'.interface = a.interface
    BY <1>4, <2>1, <2>2 DEF Adapter!CaptureInterface, Adapter!BlankAdapter, Adapter!Adapters, Adapter!Owners
  <2>5. CaptureFits' BY <1>4, <2>3, <2>4 DEF CaptureFits
  <2>6. \A x \in Adapter!UserAdapter.addresses : OnLink[x] \in Adapter!UserAdapter.routes
    BY DEF Adapter!UserAdapter, Adapter!StateAssumption
  <2>7. UserFits'
    <3>1. CASE twin BY <2>1, <2>3, <2>6, <3>1 DEF UserFits, Adapter!Found, Adapter!Namesake
    <3>2. CASE ~twin BY <1>4, <3>2 DEF UserFits, AdapterInv
    <3> QED BY <3>1, <3>2
  <2> QED BY <1>1, <1>4, <2>2, <2>3, <2>4, <2>5, <2>7, CaptureGoes DEF CaptureLabels
<1> QED BY <1>3, <1>4 DEF Adapter!Capture

LEMMA CaptureContinues ==
  ASSUME AdapterInv, session = "none", user # None, step' \in CaptureLabels, todo' = {},
         UNCHANGED <<adapter, snapshot, session, user, twin, failed>>,
         draft' \in Adapter!Adapters, CaptureFits'
  PROVE  AdapterInv'
<1>1. UserFits' BY DEF AdapterInv, UserFits
<1>2. user' \in Adapter!Adapters /\ adapter' \in {user', None} BY DEF AdapterInv, Adapter!TypeOK, SessionFits
<1> QED BY <1>1, <1>2, CaptureGoes

LEMMA CaptureAddressesKept ==
  ASSUME Adapter!StateAssumption, AdapterInv, Adapter!CaptureAddresses PROVE AdapterInv'
<1> USE DEF Adapter!Goto
<1>1. step = "captureAddresses" /\ UNCHANGED <<adapter, snapshot, session, user, twin, failed>>
  BY DEF Adapter!CaptureAddresses
<1>2. session = "none" /\ user # None /\ user \in Adapter!Adapters /\ adapter \in {user, None} /\ draft \in Adapter!Adapters
  BY <1>1 DEF AdapterInv, SessionFits, CaptureLabels, Adapter!TypeOK
<1>3. PICK rows : rows = IF adapter = None THEN {} ELSE adapter.addresses OBVIOUS
<1>4. CASE step' = "idle" /\ todo' = {} /\ UNCHANGED draft
  BY <1>1, <1>4, CallEnds DEF AdapterInv, Adapter!TypeOK
<1>5. CASE ~(Cardinality(rows) > MaximumAddresses) /\ draft' = [draft EXCEPT !.addresses = rows]
           /\ step' = "captureRoutes" /\ todo' = {}
  <2>1. rows \subseteq Adapter!Addresses BY <1>2, <1>3 DEF Adapter!Adapters
  <2>2. draft' \in Adapter!Adapters /\ draft'.addresses = rows /\ draft'.interface = draft.interface
    BY <1>2, <1>5, <2>1 DEF Adapter!Adapters
  <2>3. adapter # None => rows = user.addresses /\ draft.interface = user.interface
    BY <1>1, <1>2, <1>3 DEF AdapterInv, CaptureFits, CaptureLabels
  <2>4. Cardinality(user.addresses) \in Nat /\ MaximumAddresses \in Nat
    BY <1>2, RowsCounted DEF Adapter!StateAssumption
  <2>5. adapter # None => Cardinality(user.addresses) <= MaximumAddresses BY <1>5, <2>3, <2>4
  <2>6. CaptureFits' BY <1>1, <1>5, <2>2, <2>3, <2>5 DEF CaptureFits
  <2> QED BY <1>1, <1>2, <1>5, <2>2, <2>6, CaptureContinues DEF CaptureLabels
<1> QED BY <1>3, <1>4, <1>5, Counted DEF Adapter!CaptureAddresses

LEMMA CaptureRoutesKept ==
  ASSUME Adapter!StateAssumption, AdapterInv, Adapter!CaptureRoutes PROVE AdapterInv'
<1> USE DEF Adapter!Goto
<1>1. step = "captureRoutes" /\ UNCHANGED <<adapter, snapshot, session, user, twin, failed>>
  BY DEF Adapter!CaptureRoutes
<1>2. session = "none" /\ user # None /\ user \in Adapter!Adapters /\ adapter \in {user, None} /\ draft \in Adapter!Adapters
  BY <1>1 DEF AdapterInv, SessionFits, CaptureLabels, Adapter!TypeOK
<1>3. PICK rows : rows = IF adapter = None THEN {} ELSE adapter.routes OBVIOUS
<1>4. CASE step' = "idle" /\ todo' = {} /\ UNCHANGED draft
  BY <1>1, <1>4, CallEnds DEF AdapterInv, Adapter!TypeOK
<1>5. CASE ~(Cardinality(rows) > MaximumRoutes) /\ draft' = [draft EXCEPT !.routes = rows]
           /\ step' = "captureDns" /\ todo' = {}
  <2>1. rows \subseteq Adapter!Routes BY <1>2, <1>3 DEF Adapter!Adapters
  <2>2. draft' \in Adapter!Adapters /\ draft'.routes = rows /\ draft'.interface = draft.interface
        /\ draft'.addresses = draft.addresses
    BY <1>2, <1>5, <2>1 DEF Adapter!Adapters
  <2>3. adapter # None => /\ rows = user.routes /\ draft.interface = user.interface
                          /\ draft.addresses = user.addresses /\ Cardinality(user.addresses) <= MaximumAddresses
    BY <1>1, <1>2, <1>3 DEF AdapterInv, CaptureFits, CaptureLabels
  <2>4. Cardinality(user.routes) \in Nat /\ MaximumRoutes \in Nat
    BY <1>2, RowsCounted DEF Adapter!StateAssumption
  <2>5. adapter # None => Cardinality(user.routes) <= MaximumRoutes BY <1>5, <2>3, <2>4
  <2>6. CaptureFits' BY <1>1, <1>5, <2>2, <2>3, <2>5 DEF CaptureFits
  <2> QED BY <1>1, <1>2, <1>5, <2>2, <2>6, CaptureContinues DEF CaptureLabels
<1> QED BY <1>3, <1>4, <1>5, Counted DEF Adapter!CaptureRoutes

\* The name servers were read of an adapter that was there all the time.
LEMMA CaptureDnsKept == ASSUME AdapterInv, Adapter!CaptureDns PROVE AdapterInv'
<1> USE DEF Adapter!Goto, Adapter!Keep
<1>1. step = "captureDns" /\ UNCHANGED <<adapter, draft, user, twin, failed>>
  BY DEF Adapter!CaptureDns
<1>2. session = "none" /\ user # None /\ user \in Adapter!Adapters /\ adapter \in {user, None} /\ draft \in Adapter!Adapters
  BY <1>1 DEF AdapterInv, SessionFits, CaptureLabels, Adapter!TypeOK
<1>3. CASE step' = "idle" /\ todo' = {} /\ UNCHANGED <<snapshot, session>>
  BY <1>1, <1>3, CallEnds DEF AdapterInv, Adapter!TypeOK
<1>4. CASE /\ adapter # None /\ snapshot' = [existed |-> TRUE, of |-> [draft EXCEPT !.dns = adapter.dns]]
           /\ session' = "captured" /\ step' = "idle" /\ todo' = {}
  <2>1. /\ draft.interface = user.interface /\ draft.addresses = user.addresses /\ draft.routes = user.routes
        /\ Cardinality(user.addresses) <= MaximumAddresses /\ Cardinality(user.routes) <= MaximumRoutes
        /\ adapter = user
    BY <1>1, <1>2, <1>4 DEF AdapterInv, CaptureFits, CaptureLabels
  <2>2. [draft EXCEPT !.dns = adapter.dns] = user BY <1>2, <2>1 DEF Adapter!Adapters
  <2>3. snapshot' \in Adapter!Snapshots /\ snapshot'.of = user BY <1>2, <1>4, <2>2 DEF Adapter!Snapshots
  <2>4. Adapter!ParseSnapshot(snapshot') BY <2>1, <2>3, Counted DEF Adapter!ParseSnapshot
  <2> QED BY <1>1, <1>2, <1>4, <2>3, <2>4, SnapshotMade
<1> QED BY <1>3, <1>4 DEF Adapter!CaptureDns

\* The Core starts, or the journal rolls back.
LEMMA SessionMoves ==
  ASSUME AdapterInv, Adapter!CoreStarts \/ Adapter!RollbackBegins PROVE AdapterInv'
<1> USE DEF AdapterInv
<1>1. /\ session \in {"captured", "core"} /\ session' \in {"core", "rollback"}
      /\ adapter' \in {adapter, Adapter!CoreAdapter, None}
      /\ UNCHANGED <<snapshot, step, draft, todo, user, twin, failed>>
  BY DEF Adapter!CoreStarts, Adapter!RollbackBegins
<1>2. step = "idle"
  BY <1>1 DEF SessionFits, CaptureLabels, RestoreLabels, Adapter!TypeOK, Adapter!Labels
<1>3. Adapter!TypeOK' BY <1>1, KnownAdapters DEF Adapter!TypeOK
<1>4. UserFits' /\ Adapter!RestoredIsTheUsers' BY <1>1 DEF UserFits, Adapter!RestoredIsTheUsers
<1>5. step' \notin CaptureLabels /\ step' \notin RestoreLabels BY <1>1, <1>2 DEF CaptureLabels, RestoreLabels
<1>6. SessionFits' BY <1>1, <1>5, SnapshotStays DEF SessionFits
<1>7. CaptureFits' /\ RestoreFits' BY <1>1, <1>2 DEF CaptureFits, RestoreFits, CaptureLabels
<1> QED BY <1>3, <1>4, <1>6, <1>7

LEMMA FaultCounted == ASSUME AdapterInv, Adapter!StateAssumption, Adapter!Fault PROVE failed' \in 0..MaxFailed
BY DEF AdapterInv, Adapter!TypeOK, Adapter!Fault, Adapter!StateAssumption

\* An adapter that is gone does not come back before the rollback.
LEMMA VanishesKept ==
  ASSUME Adapter!StateAssumption, AdapterInv, Adapter!AdapterVanishes PROVE AdapterInv'
<1> USE DEF AdapterInv
<1>1. /\ session # "restored" /\ adapter' = None
      /\ UNCHANGED <<snapshot, step, draft, todo, session, user, twin>>
  BY DEF Adapter!AdapterVanishes
<1>2. failed' \in 0..MaxFailed BY FaultCounted DEF Adapter!AdapterVanishes
<1>3. Adapter!TypeOK' BY <1>1, <1>2 DEF Adapter!TypeOK
<1>4. UserFits' /\ Adapter!RestoredIsTheUsers' BY <1>1 DEF UserFits, Adapter!RestoredIsTheUsers
<1>5. SessionFits' BY <1>1, SnapshotStays DEF SessionFits
<1>6. CaptureFits' /\ RestoreFits' BY <1>1 DEF CaptureFits, RestoreFits
<1> QED BY <1>3, <1>4, <1>5, <1>6

LEMMA TwinKept ==
  ASSUME Adapter!StateAssumption, AdapterInv, Adapter!TwinChanges PROVE AdapterInv'
<1> USE DEF AdapterInv
<1>1. twin' = ~twin /\ UNCHANGED <<adapter, snapshot, step, draft, todo, session, user>>
  BY DEF Adapter!TwinChanges
<1>2. failed' \in 0..MaxFailed BY FaultCounted DEF Adapter!TwinChanges
<1>3. twin' \in BOOLEAN BY <1>1
<1>4. Adapter!TypeOK' BY <1>1, <1>2, <1>3 DEF Adapter!TypeOK
<1>5. UserFits' /\ Adapter!RestoredIsTheUsers' BY <1>1 DEF UserFits, Adapter!RestoredIsTheUsers
<1>6. SessionFits' BY <1>1, SnapshotStays DEF SessionFits
<1>7. CaptureFits' /\ RestoreFits' BY <1>1 DEF CaptureFits, RestoreFits, Deleted
<1> QED BY <1>4, <1>5, <1>6, <1>7

LEMMA AdapterSame == ASSUME AdapterInv, UNCHANGED Adapter!vars PROVE AdapterInv'
<1> USE DEF AdapterInv
<1>1. UNCHANGED <<adapter, snapshot, step, draft, todo, session, user, twin, failed>> BY DEF Adapter!vars
<1>2. Adapter!TypeOK' /\ UserFits' BY <1>1 DEF Adapter!TypeOK, UserFits
<1>3. SessionFits' BY <1>1, SnapshotStays DEF SessionFits
<1>4. CaptureFits' /\ RestoreFits' BY <1>1 DEF CaptureFits, RestoreFits, Deleted
<1>5. Adapter!RestoredIsTheUsers' BY <1>1 DEF Adapter!RestoredIsTheUsers
<1> QED BY <1>2, <1>3, <1>4, <1>5

LEMMA AdapterStep ==
  ASSUME Adapter!StateAssumption, AdapterInv, [Adapter!Next]_Adapter!vars PROVE AdapterInv'
<1>1. CASE Adapter!Captures
  BY <1>1, CaptureKept, CaptureAddressesKept, CaptureRoutesKept, CaptureDnsKept DEF Adapter!Captures
<1>2. CASE Adapter!CoreStarts \/ Adapter!RollbackBegins BY <1>2, SessionMoves
<1>3. CASE Adapter!AdapterVanishes \/ Adapter!TwinChanges BY <1>3, VanishesKept, TwinKept
<1>4. CASE Adapter!CallFails
  <2>1. failed' \in 0..MaxFailed BY <1>4, FaultCounted DEF Adapter!CallFails
  <2> QED BY <1>4, <2>1, CallEnds DEF Adapter!CallFails, Adapter!Goto
<1>5. CASE Adapter!CallMisses
  BY <1>5, CallEnds DEF Adapter!CallMisses, Adapter!Goto, Adapter!Unchanged, AdapterInv, Adapter!TypeOK
<1>6. CASE Adapter!Restores
  BY <1>5, <1>6, RestoreKept, FindKept, DeleteRoutesKept, DeleteAddressesKept, ClearDnsKept, RestoreInterfaceKept,
     RestoreAddressKept, RestoreRouteKept, ApplyDnsKept DEF Adapter!Restores
<1>7. CASE Adapter!Rests \/ UNCHANGED Adapter!vars BY <1>7, AdapterSame DEF Adapter!Rests
<1> QED BY <1>1, <1>2, <1>3, <1>4, <1>6, <1>7 DEF Adapter!Next

\* Whatever calls fail, whenever the service dies or the adapter vanishes, and however
\* often Restore is repeated: a snapshot is whole and can be read, and a Restore that
\* reports success has left nothing of the Core and everything of the user
\* (service_network_state.cpp).
THEOREM AdapterRestored == ASSUME Adapter!StateAssumption PROVE Adapter!Spec => []AdapterIsTheUsers
<1>1. Adapter!Init => AdapterInv BY AdapterInit
<1>2. AdapterInv /\ [Adapter!Next]_Adapter!vars => AdapterInv' BY AdapterStep
<1>3. AdapterInv => AdapterIsTheUsers BY AdapterReports
<1> QED BY <1>1, <1>2, <1>3, PTL DEF Adapter!Spec

-----------------------------------------------------------------------------
(* The transition guard *)

\* The stages a failure can have.
FailureStages ==
  {"identity", "engine_open", "read_begin", "read_query", "read_verify", "install_begin",
   "install_apply", "install_commit", "remove_begin", "remove_apply", "remove_commit",
   "remove_verify"}

GuardTypes ==
  /\ sublayer \in BOOLEAN /\ filter \in [Guard!Filters -> {"absent", "ok", "altered"}]
  /\ foreign \subseteq Foreign
  /\ engine \in [Guard!Procs -> {"none", "open", "dead"}]
  /\ state \in [Guard!Procs -> {"none", "off", "armed", "incomplete"}]
  /\ call \in [Guard!Procs -> {"none", "construct", "start", "finish", "off"}]
  /\ at \in [Guard!Procs -> {"idle", "read", "install", "verify", "remove", "check"}]
  /\ last_failure \in [Guard!Procs -> FailureStages]
  /\ cause \in FailureStages \cup {"none"} /\ report \in FailureStages \cup {"none"}
  /\ started \in BOOLEAN /\ owed \in BOOLEAN /\ raced \in BOOLEAN /\ touched \in BOOLEAN
  /\ repair \in {"idle", "waits", "adopts", "clears"}
  /\ faults \in Nat /\ crashes \in Nat /\ outside \in Nat

\* A process calls the engine for the method it is in.
CallFits ==
  \A p \in Guard!Procs :
    /\ at[p] = "idle" <=> call[p] = "none"
    /\ at[p] = "read" => call[p] \in {"construct", "start"}
    /\ at[p] \in {"install", "verify"} => call[p] = "start"
    /\ at[p] \in {"remove", "check"} => call[p] \in {"finish", "off"}
    /\ state[p] = "none" => call[p] = "none"

\* The repair command never installs, and calls only while it works.
RepairRemoves ==
  /\ call["repair"] \in {"none", "construct", "off"}
  /\ call["repair"] # "none" => repair \in {"adopts", "clears"}

\* While the repair command works there is no service, unless one has raced it.
RepairIsAlone ==
  repair \in {"adopts", "clears"} /\ ~raced => state["service"] = "none" /\ ~owed

\* A service that has started the guard and called nothing since is behind it.
StartedIsBlocked ==
  started => /\ state["service"] # "none" /\ call["service"] = "none"
             /\ ~raced /\ ~touched => Guard!Intact

\* A removal by the service has been asked for.
ReleaseIsAsked == call["service"] \in {"finish", "off"} => ~owed /\ ~started

GInv ==
  /\ GuardTypes /\ CallFits /\ RepairRemoves /\ RepairIsAlone /\ StartedIsBlocked /\ ReleaseIsAsked
  /\ Guard!BlockIsKnown /\ Guard!OwedIsBlocked /\ Guard!ReportNamesItsCause

-----------------------------------------------------------------------------
(* What the readback concludes.                                            *)

LEMMA SeenFacts ==
  /\ Guard!Seen \in {"armed", "incomplete", "off"}
  /\ Guard!Seen = "armed" => Guard!Intact /\ Guard!VerifyGuardPriority
  /\ Guard!Seen = "off" => ~sublayer /\ \A x \in Guard!Filters : filter[x] = "absent"
  BY DEF Guard!Seen

\* Eight filters that match and the priority check are enough: at every layer
\* the block is met, and no filter of another sublayer that is met before it, at
\* its weight or above, lets anybody but the service through.
LEMMA ReadbackHolds ==
  Guard!ReadbackIsTrue
  <1> SUFFICES ASSUME Guard!Seen = "armed" PROVE Guard!Enforced
    BY Zenon DEF Guard!ReadbackIsTrue
  <1> SUFFICES ASSUME NEW layer \in Layers, NEW who \in Guard!Senders \ {"service"},
                      Guard!MayPass(layer, who)
               PROVE  \E f \in foreign : Guard!PassesWithin(f, layer, who)
    BY Zenon DEF Guard!Enforced
  <1>1. sublayer /\ filter[layer, "block"] = "ok" /\ filter[layer, "permit"] = "ok"
    <2>1. <<layer, "block">> \in Guard!Filters /\ <<layer, "permit">> \in Guard!Filters
      BY DEF Guard!Filters, Guard!Roles
    <2> QED
      BY <2>1, SeenFacts DEF Guard!Intact
  <1>2. ASSUME NEW f \in foreign PROVE ~Guard!PassesAbove(f, layer, who)
    <2> SUFFICES ASSUME f.home # "guard", f.weight >= Guard!GuardWeight, f.act \in {"hard", "callout"}
                 PROVE  ~Guard!Applies(f, who)
      BY DEF Guard!PassesAbove
    <2>1. f.who = "service"
      BY <1>2, SeenFacts DEF Guard!VerifyGuardPriority, Guard!CanOverrideGuard, Guard!IsPotentialGuardOverride,
         Guard!IsGuardServicePermit
    <2> QED
      BY <2>1 DEF Guard!Applies, Guard!Senders
  <1>3. \E f \in foreign : Guard!PassesAbove(f, layer, who) \/ Guard!PassesWithin(f, layer, who)
    BY <1>1 DEF Guard!MayPass, Guard!Senders
  <1> QED
    BY Zenon, <1>2, <1>3

\* What a failing call leaves to the control of its process.
LEMMA FailedFacts ==
  ASSUME GInv, NEW p \in Guard!Procs, NEW s \in FailureStages, Guard!Failed(p, s)
  PROVE  /\ engine' \in [Guard!Procs -> {"none", "open", "dead"}] /\ faults' \in Nat
         /\ last_failure' \in [Guard!Procs -> FailureStages]
         /\ cause' \in FailureStages \cup {"none"} /\ report' = cause'
         /\ state' = [state EXCEPT ![p] = "incomplete"] /\ at' = [at EXCEPT ![p] = "idle"]
         /\ call' = [call EXCEPT ![p] = "none"]
         /\ UNCHANGED <<started, owed, repair, raced, crashes, outside, touched>>
  <1>1. engine' \in [Guard!Procs -> {"none", "open", "dead"}]
    BY DEF Guard!Failed, Guard!Opened, GInv, GuardTypes
  <1>2. faults' \in Nat
    BY DEF Guard!Failed, GInv, GuardTypes
  <1>3. /\ last_failure' \in [Guard!Procs -> FailureStages]
        /\ cause' \in FailureStages \cup {"none"} /\ report' = cause'
    BY DEF Guard!Failed, Guard!Reports, GInv, GuardTypes, Guard!ReportNamesItsCause
  <1> QED
    BY <1>1, <1>2, <1>3 DEF Guard!Failed

LEMMA StagesFacts ==
  ASSUME NEW p
  PROVE  /\ Guard!Stages(p, "read_begin", {"read_query"}) \subseteq FailureStages
         /\ Guard!Stages(p, "install_begin", Guard!Changing("install_apply", "install_commit")) \subseteq FailureStages
         /\ Guard!Stages(p, "remove_begin", Guard!Changing("remove_apply", "remove_commit")) \subseteq FailureStages
  BY DEF Guard!Stages, Guard!Changing, FailureStages

\* How a read can end: the method returns what was read, or goes on to install.
LEMMA ReadFacts ==
  ASSUME GInv, NEW p \in Guard!Procs, Guard!Read(p)
  PROVE  /\ UNCHANGED <<Guard!wfp, owed, repair, raced, Guard!bounds>> /\ at[p] # "idle"
         /\ engine' \in [Guard!Procs -> {"none", "open", "dead"}]
         /\ last_failure' \in [Guard!Procs -> FailureStages]
         /\ cause' \in FailureStages \cup {"none"} /\ report' = cause'
         /\ \E found \in {Guard!Seen, "incomplete"} : state' = [state EXCEPT ![p] = found]
         /\ \/ /\ at' = [at EXCEPT ![p] = "idle"] /\ call' = [call EXCEPT ![p] = "none"]
               /\ \/ started' = started /\ p # "service"
                  \/ started' = FALSE
                  \/ started' = TRUE /\ p = "service" /\ Guard!Seen = "armed"
            \/ /\ at' = [at EXCEPT ![p] = "install"] /\ call[p] = "start"
               /\ UNCHANGED <<call, started>>
  <1>0. /\ at[p] \in {"read", "verify", "check"} /\ UNCHANGED <<Guard!wfp, owed, repair, raced, Guard!bounds>>
        /\ at[p] = "read" => call[p] \in {"construct", "start"}
        /\ at[p] = "verify" => call[p] = "start"
        /\ at[p] = "check" => call[p] \in {"finish", "off"}
    BY DEF Guard!Read, GInv, CallFits
  <1>1. engine' \in [Guard!Procs -> {"none", "open", "dead"}]
    BY DEF Guard!Read, Guard!Opened, GInv, GuardTypes
  <1>2. report = cause /\ cause \in FailureStages \cup {"none"}
        /\ last_failure \in [Guard!Procs -> FailureStages]
    BY DEF GInv, GuardTypes, Guard!ReportNamesItsCause
  <1>3. ASSUME NEW found \in {Guard!Seen, "incomplete"}, NEW ok \in BOOLEAN, NEW s \in FailureStages \cup {"none"},
               Guard!Returns(p, found, ok, s), ~ok => s = IF call[p] \in {"finish", "off"} THEN "remove_verify" ELSE "read_verify",
               ok /\ call[p] = "start" => Guard!Seen = "armed"
        PROVE  /\ last_failure' \in [Guard!Procs -> FailureStages]
               /\ cause' \in FailureStages \cup {"none"} /\ report' = cause'
               /\ state' = [state EXCEPT ![p] = found]
               /\ at' = [at EXCEPT ![p] = "idle"] /\ call' = [call EXCEPT ![p] = "none"]
               /\ \/ started' = started /\ p # "service"
                  \/ started' = FALSE
                  \/ started' = TRUE /\ p = "service" /\ Guard!Seen = "armed"
    <2>1. last_failure' = [last_failure EXCEPT ![p] = "read_verify"]
      BY <1>3 DEF Guard!Returns, Guard!ReadStage
    <2>2. last_failure' \in [Guard!Procs -> FailureStages] /\ last_failure'[p] = "read_verify"
      BY <1>2, <2>1 DEF FailureStages
    <2>3. cause' \in FailureStages \cup {"none"} /\ report' = cause'
      BY <1>2, <1>3, <2>2 DEF Guard!Returns, Guard!Reports, Guard!told
    <2>4. \/ started' = started /\ p # "service"
          \/ started' = FALSE
          \/ started' = TRUE /\ p = "service" /\ Guard!Seen = "armed"
      BY <1>3 DEF Guard!Returns
    <2> QED
      BY <1>3, <2>2, <2>3, <2>4 DEF Guard!Returns
  <1>4. CASE at[p] = "read" /\ call[p] = "construct"
    <2>1. Guard!Returns(p, Guard!Seen, TRUE, "none")
      BY <1>4 DEF Guard!Read
    <2> QED
      BY <1>0, <1>1, <1>3, <1>4, <2>1
  <1>5. CASE at[p] = "read" /\ call[p] = "start"
    <2>1. CASE Guard!Seen = "armed"
      <3>1. Guard!Returns(p, Guard!Seen, TRUE, "none")
        BY <1>5, <2>1 DEF Guard!Read
      <3> QED
        BY <1>0, <1>1, <1>3, <1>5, <2>1, <3>1
    <2>2. CASE Guard!Seen # "armed"
      <3>1. /\ at' = [at EXCEPT ![p] = "install"] /\ UNCHANGED <<call, started, Guard!told>>
            /\ state' = [state EXCEPT ![p] = Guard!Seen]
            /\ last_failure' = [last_failure EXCEPT ![p] = "read_verify"]
        BY <1>5, <2>2 DEF Guard!Read, Guard!ReadStage
      <3>2. last_failure' \in [Guard!Procs -> FailureStages]
        BY <1>2, <3>1 DEF FailureStages
      <3> QED
        BY <1>0, <1>1, <1>2, <1>5, <3>1, <3>2 DEF Guard!told
    <2> QED
      BY <2>1, <2>2
  <1>6. CASE at[p] = "verify"
    <2> DEFINE found == IF Guard!Seen = "armed" THEN Guard!Seen ELSE "incomplete"
               ok == Guard!Seen = "armed"
    <2>1. Guard!Returns(p, found, ok, "read_verify")
      BY <1>6 DEF Guard!Read
    <2>2. found \in {Guard!Seen, "incomplete"} /\ ok \in BOOLEAN /\ "read_verify" \in FailureStages
          /\ (ok => Guard!Seen = "armed")
      BY DEF FailureStages
    <2> HIDE DEF found, ok
    <2> QED
      BY <1>0, <1>1, <1>3, <1>6, <2>1, <2>2
  <1>7. CASE at[p] = "check"
    <2> DEFINE ok == Guard!Seen = "off"
    <2>1. Guard!Returns(p, Guard!Seen, ok, "remove_verify")
      BY <1>7 DEF Guard!Read
    <2>2. ok \in BOOLEAN /\ "remove_verify" \in FailureStages
      BY DEF FailureStages
    <2> HIDE DEF ok
    <2> QED
      BY <1>0, <1>1, <1>3, <1>7, <2>1, <2>2
  <1> QED
    BY <1>0, <1>4, <1>5, <1>6, <1>7

-----------------------------------------------------------------------------
(* Every action keeps the invariant.                                       *)

LEMMA ReadKeeps ==
  ASSUME GInv, NEW p \in Guard!Procs, Guard!Read(p)
  PROVE  GInv'
  <1> USE DEF Guard!Procs, Guard!wfp, Guard!procs, Guard!told, Guard!bounds
  <1>a. PICK found \in {Guard!Seen, "incomplete"} : state' = [state EXCEPT ![p] = found]
    BY ReadFacts
  <1>b. /\ UNCHANGED <<Guard!wfp, owed, repair, raced, Guard!bounds>> /\ at[p] # "idle"
        /\ engine' \in [Guard!Procs -> {"none", "open", "dead"}]
        /\ last_failure' \in [Guard!Procs -> FailureStages]
        /\ cause' \in FailureStages \cup {"none"} /\ report' = cause'
        /\ \/ /\ at' = [at EXCEPT ![p] = "idle"] /\ call' = [call EXCEPT ![p] = "none"]
              /\ \/ started' = started /\ p # "service"
                 \/ started' = FALSE
                 \/ started' = TRUE /\ p = "service" /\ Guard!Seen = "armed"
           \/ /\ at' = [at EXCEPT ![p] = "install"] /\ call[p] = "start"
              /\ UNCHANGED <<call, started>>
    BY ReadFacts
  <1>c. /\ found \in {"armed", "incomplete", "off"} /\ (Guard!Seen = "armed" => Guard!Intact)
        /\ found = "off" => ~sublayer /\ \A x \in Guard!Filters : filter[x] = "absent"
    BY SeenFacts
  <1>1. GuardTypes'
    <2>1. (/\ sublayer \in BOOLEAN /\ filter \in [Guard!Filters -> {"absent", "ok", "altered"}]
           /\ foreign \subseteq Foreign)'
      BY <1>a, <1>b, <1>c DEF GInv, GuardTypes
    <2>2. (/\ engine \in [Guard!Procs -> {"none", "open", "dead"}]
           /\ state \in [Guard!Procs -> {"none", "off", "armed", "incomplete"}]
           /\ call \in [Guard!Procs -> {"none", "construct", "start", "finish", "off"}]
           /\ at \in [Guard!Procs -> {"idle", "read", "install", "verify", "remove", "check"}]
           /\ last_failure \in [Guard!Procs -> FailureStages])'
      BY <1>a, <1>b, <1>c DEF GInv, GuardTypes, FailureStages
    <2>3. (started \in BOOLEAN /\ owed \in BOOLEAN /\ raced \in BOOLEAN /\ touched \in BOOLEAN)'
      BY <1>a, <1>b, <1>c DEF GInv, GuardTypes
    <2>4. (/\ cause \in FailureStages \cup {"none"} /\ report \in FailureStages \cup {"none"}
           /\ repair \in {"idle", "waits", "adopts", "clears"}
           /\ faults \in Nat /\ crashes \in Nat /\ outside \in Nat)'
      BY <1>a, <1>b, <1>c DEF GInv, GuardTypes
    <2> QED
      BY <2>1, <2>2, <2>3, <2>4 DEF GuardTypes
  <1>2. CallFits'
    BY <1>a, <1>b, <1>c DEF GInv, CallFits, GuardTypes
  <1>3. (RepairRemoves /\ RepairIsAlone /\ ReleaseIsAsked)'
    BY <1>a, <1>b, <1>c DEF GInv, RepairRemoves, RepairIsAlone, ReleaseIsAsked, CallFits, GuardTypes, StartedIsBlocked
  <1>4. (StartedIsBlocked /\ Guard!OwedIsBlocked)'
    BY <1>a, <1>b, <1>c DEF GInv, StartedIsBlocked, Guard!OwedIsBlocked, Guard!Intact, RepairRemoves, RepairIsAlone, ReleaseIsAsked, CallFits, GuardTypes
  <1>5. Guard!BlockIsKnown'
    BY <1>a, <1>b, <1>c DEF GInv, Guard!BlockIsKnown, Guard!NothingOwned, CallFits, RepairRemoves, GuardTypes
  <1>6. Guard!ReportNamesItsCause'
    BY <1>a, <1>b, <1>c DEF GInv, Guard!ReportNamesItsCause
  <1> QED
    BY <1>1, <1>2, <1>3, <1>4, <1>5, <1>6 DEF GInv

LEMMA ReadFailsKeeps ==
  ASSUME GInv, NEW p \in Guard!Procs, Guard!ReadFails(p)
  PROVE  GInv'
  <1> USE DEF Guard!Procs, Guard!wfp, Guard!procs, Guard!told, Guard!bounds
  <1>a. /\ at[p] \in {"read", "verify", "check"} /\ UNCHANGED foreign
        /\ UNCHANGED <<sublayer, filter>>
        /\ engine' \in [Guard!Procs -> {"none", "open", "dead"}] /\ faults' \in Nat
        /\ last_failure' \in [Guard!Procs -> FailureStages]
        /\ cause' \in FailureStages \cup {"none"} /\ report' = cause'
        /\ state' = [state EXCEPT ![p] = "incomplete"] /\ at' = [at EXCEPT ![p] = "idle"]
        /\ call' = [call EXCEPT ![p] = "none"]
        /\ UNCHANGED <<started, owed, repair, raced, crashes, outside, touched>>
    BY StagesFacts, FailedFacts DEF Guard!ReadFails
  <1>1. GuardTypes'
    <2>1. (/\ sublayer \in BOOLEAN /\ filter \in [Guard!Filters -> {"absent", "ok", "altered"}]
           /\ foreign \subseteq Foreign)'
      BY <1>a DEF Guard!Installed, Guard!Removed, GInv, GuardTypes
    <2>2. (/\ engine \in [Guard!Procs -> {"none", "open", "dead"}]
           /\ last_failure \in [Guard!Procs -> FailureStages])'
      BY <1>a DEF Guard!Installed, Guard!Removed, GInv, GuardTypes
    <2>3. (/\ state \in [Guard!Procs -> {"none", "off", "armed", "incomplete"}]
           /\ call \in [Guard!Procs -> {"none", "construct", "start", "finish", "off"}]
           /\ at \in [Guard!Procs -> {"idle", "read", "install", "verify", "remove", "check"}])'
      BY <1>a DEF Guard!Installed, Guard!Removed, GInv, GuardTypes
    <2>4. (started \in BOOLEAN /\ owed \in BOOLEAN /\ raced \in BOOLEAN /\ touched \in BOOLEAN)'
      BY <1>a DEF Guard!Installed, Guard!Removed, GInv, GuardTypes
    <2>5. (/\ cause \in FailureStages \cup {"none"} /\ report \in FailureStages \cup {"none"}
           /\ repair \in {"idle", "waits", "adopts", "clears"}
           /\ faults \in Nat /\ crashes \in Nat /\ outside \in Nat)'
      BY <1>a DEF Guard!Installed, Guard!Removed, GInv, GuardTypes
    <2> QED
      BY <2>1, <2>2, <2>3, <2>4, <2>5 DEF GuardTypes
  <1>2. CallFits'
    BY <1>a DEF Guard!Installed, Guard!Removed, GInv, CallFits, GuardTypes
  <1>3. (RepairRemoves /\ RepairIsAlone /\ ReleaseIsAsked)'
    BY <1>a DEF Guard!Installed, Guard!Removed, GInv, RepairRemoves, RepairIsAlone, ReleaseIsAsked, CallFits, GuardTypes, StartedIsBlocked
  <1>4. (StartedIsBlocked /\ Guard!OwedIsBlocked)'
    BY <1>a DEF Guard!Installed, Guard!Removed, GInv, StartedIsBlocked, Guard!OwedIsBlocked, Guard!Intact, RepairRemoves, RepairIsAlone, ReleaseIsAsked, CallFits, GuardTypes
  <1>5. Guard!BlockIsKnown'
    BY <1>a DEF Guard!Installed, Guard!Removed, GInv, Guard!BlockIsKnown, Guard!NothingOwned, CallFits, RepairRemoves, GuardTypes
  <1>6. Guard!ReportNamesItsCause'
    BY <1>a DEF Guard!Installed, Guard!Removed, GInv, Guard!ReportNamesItsCause
  <1> QED
    BY <1>1, <1>2, <1>3, <1>4, <1>5, <1>6 DEF GInv

LEMMA InstallKeeps ==
  ASSUME GInv, NEW p \in Guard!Procs, Guard!Install(p)
  PROVE  GInv'
  <1> USE DEF Guard!Procs, Guard!wfp, Guard!procs, Guard!told, Guard!bounds
  <1>a. /\ at[p] = "install" /\ Guard!Installed /\ at' = [at EXCEPT ![p] = "verify"]
        /\ state' = [state EXCEPT ![p] = "incomplete"] /\ last_failure' = [last_failure EXCEPT ![p] = "install_apply"]
        /\ UNCHANGED <<foreign, call, Guard!told, started, owed, repair, raced, Guard!bounds>>
    BY DEF Guard!Install
  <1>b. engine' \in [Guard!Procs -> {"none", "open", "dead"}]
    BY DEF Guard!Install, Guard!Opened, GInv, GuardTypes
  <1>1. GuardTypes'
    <2>1. (/\ sublayer \in BOOLEAN /\ filter \in [Guard!Filters -> {"absent", "ok", "altered"}]
           /\ foreign \subseteq Foreign)'
      BY <1>a, <1>b DEF Guard!Installed, Guard!Removed, GInv, GuardTypes
    <2>2. (/\ engine \in [Guard!Procs -> {"none", "open", "dead"}]
           /\ state \in [Guard!Procs -> {"none", "off", "armed", "incomplete"}]
           /\ call \in [Guard!Procs -> {"none", "construct", "start", "finish", "off"}]
           /\ at \in [Guard!Procs -> {"idle", "read", "install", "verify", "remove", "check"}]
           /\ last_failure \in [Guard!Procs -> FailureStages])'
      BY <1>a, <1>b DEF Guard!Installed, Guard!Removed, GInv, GuardTypes, FailureStages
    <2>3. (started \in BOOLEAN /\ owed \in BOOLEAN /\ raced \in BOOLEAN /\ touched \in BOOLEAN)'
      BY <1>a, <1>b DEF Guard!Installed, Guard!Removed, GInv, GuardTypes
    <2>4. (/\ cause \in FailureStages \cup {"none"} /\ report \in FailureStages \cup {"none"}
           /\ repair \in {"idle", "waits", "adopts", "clears"}
           /\ faults \in Nat /\ crashes \in Nat /\ outside \in Nat)'
      BY <1>a, <1>b DEF Guard!Installed, Guard!Removed, GInv, GuardTypes
    <2> QED
      BY <2>1, <2>2, <2>3, <2>4 DEF GuardTypes
  <1>2. CallFits'
    BY <1>a, <1>b DEF Guard!Installed, Guard!Removed, GInv, CallFits, GuardTypes
  <1>3. (RepairRemoves /\ RepairIsAlone /\ ReleaseIsAsked)'
    BY <1>a, <1>b DEF Guard!Installed, Guard!Removed, GInv, RepairRemoves, RepairIsAlone, ReleaseIsAsked, CallFits, GuardTypes, StartedIsBlocked
  <1>4. (StartedIsBlocked /\ Guard!OwedIsBlocked)'
    BY <1>a, <1>b DEF Guard!Installed, Guard!Removed, GInv, StartedIsBlocked, Guard!OwedIsBlocked, Guard!Intact, RepairRemoves, RepairIsAlone, ReleaseIsAsked, CallFits, GuardTypes
  <1>5. Guard!BlockIsKnown'
    BY <1>a, <1>b DEF Guard!Installed, Guard!Removed, GInv, Guard!BlockIsKnown, Guard!NothingOwned, CallFits, RepairRemoves, GuardTypes
  <1>6. Guard!ReportNamesItsCause'
    BY <1>a, <1>b DEF Guard!Installed, Guard!Removed, GInv, Guard!ReportNamesItsCause
  <1> QED
    BY <1>1, <1>2, <1>3, <1>4, <1>5, <1>6 DEF GInv

LEMMA InstallFailsKeeps ==
  ASSUME GInv, NEW p \in Guard!Procs, Guard!InstallFails(p)
  PROVE  GInv'
  <1> USE DEF Guard!Procs, Guard!wfp, Guard!procs, Guard!told, Guard!bounds
  <1>a. /\ at[p] \in {"install"} /\ UNCHANGED foreign
        /\ Guard!Installed \/ UNCHANGED <<sublayer, filter>>
        /\ engine' \in [Guard!Procs -> {"none", "open", "dead"}] /\ faults' \in Nat
        /\ last_failure' \in [Guard!Procs -> FailureStages]
        /\ cause' \in FailureStages \cup {"none"} /\ report' = cause'
        /\ state' = [state EXCEPT ![p] = "incomplete"] /\ at' = [at EXCEPT ![p] = "idle"]
        /\ call' = [call EXCEPT ![p] = "none"]
        /\ UNCHANGED <<started, owed, repair, raced, crashes, outside, touched>>
    BY StagesFacts, FailedFacts DEF Guard!InstallFails
  <1>1. GuardTypes'
    <2>1. (/\ sublayer \in BOOLEAN /\ filter \in [Guard!Filters -> {"absent", "ok", "altered"}]
           /\ foreign \subseteq Foreign)'
      BY <1>a DEF Guard!Installed, Guard!Removed, GInv, GuardTypes
    <2>2. (/\ engine \in [Guard!Procs -> {"none", "open", "dead"}]
           /\ last_failure \in [Guard!Procs -> FailureStages])'
      BY <1>a DEF Guard!Installed, Guard!Removed, GInv, GuardTypes
    <2>3. (/\ state \in [Guard!Procs -> {"none", "off", "armed", "incomplete"}]
           /\ call \in [Guard!Procs -> {"none", "construct", "start", "finish", "off"}]
           /\ at \in [Guard!Procs -> {"idle", "read", "install", "verify", "remove", "check"}])'
      BY <1>a DEF Guard!Installed, Guard!Removed, GInv, GuardTypes
    <2>4. (started \in BOOLEAN /\ owed \in BOOLEAN /\ raced \in BOOLEAN /\ touched \in BOOLEAN)'
      BY <1>a DEF Guard!Installed, Guard!Removed, GInv, GuardTypes
    <2>5. (/\ cause \in FailureStages \cup {"none"} /\ report \in FailureStages \cup {"none"}
           /\ repair \in {"idle", "waits", "adopts", "clears"}
           /\ faults \in Nat /\ crashes \in Nat /\ outside \in Nat)'
      BY <1>a DEF Guard!Installed, Guard!Removed, GInv, GuardTypes
    <2> QED
      BY <2>1, <2>2, <2>3, <2>4, <2>5 DEF GuardTypes
  <1>2. CallFits'
    BY <1>a DEF Guard!Installed, Guard!Removed, GInv, CallFits, GuardTypes
  <1>3. (RepairRemoves /\ RepairIsAlone /\ ReleaseIsAsked)'
    BY <1>a DEF Guard!Installed, Guard!Removed, GInv, RepairRemoves, RepairIsAlone, ReleaseIsAsked, CallFits, GuardTypes, StartedIsBlocked
  <1>4. (StartedIsBlocked /\ Guard!OwedIsBlocked)'
    BY <1>a DEF Guard!Installed, Guard!Removed, GInv, StartedIsBlocked, Guard!OwedIsBlocked, Guard!Intact, RepairRemoves, RepairIsAlone, ReleaseIsAsked, CallFits, GuardTypes
  <1>5. Guard!BlockIsKnown'
    BY <1>a DEF Guard!Installed, Guard!Removed, GInv, Guard!BlockIsKnown, Guard!NothingOwned, CallFits, RepairRemoves, GuardTypes
  <1>6. Guard!ReportNamesItsCause'
    BY <1>a DEF Guard!Installed, Guard!Removed, GInv, Guard!ReportNamesItsCause
  <1> QED
    BY <1>1, <1>2, <1>3, <1>4, <1>5, <1>6 DEF GInv

LEMMA RemoveKeeps ==
  ASSUME GInv, NEW p \in Guard!Procs, Guard!Remove(p)
  PROVE  GInv'
  <1> USE DEF Guard!Procs, Guard!wfp, Guard!procs, Guard!told, Guard!bounds
  <1>a. /\ at[p] = "remove" /\ Guard!Removed /\ at' = [at EXCEPT ![p] = "check"]
        /\ UNCHANGED state /\ last_failure' = [last_failure EXCEPT ![p] = "remove_apply"]
        /\ UNCHANGED <<foreign, call, Guard!told, started, owed, repair, raced, Guard!bounds>>
    BY DEF Guard!Remove
  <1>b. engine' \in [Guard!Procs -> {"none", "open", "dead"}]
    BY DEF Guard!Remove, Guard!Opened, GInv, GuardTypes
  <1>1. GuardTypes'
    <2>1. (/\ sublayer \in BOOLEAN /\ filter \in [Guard!Filters -> {"absent", "ok", "altered"}]
           /\ foreign \subseteq Foreign)'
      BY <1>a, <1>b DEF Guard!Installed, Guard!Removed, GInv, GuardTypes
    <2>2. (/\ engine \in [Guard!Procs -> {"none", "open", "dead"}]
           /\ state \in [Guard!Procs -> {"none", "off", "armed", "incomplete"}]
           /\ call \in [Guard!Procs -> {"none", "construct", "start", "finish", "off"}]
           /\ at \in [Guard!Procs -> {"idle", "read", "install", "verify", "remove", "check"}]
           /\ last_failure \in [Guard!Procs -> FailureStages])'
      BY <1>a, <1>b DEF Guard!Installed, Guard!Removed, GInv, GuardTypes, FailureStages
    <2>3. (started \in BOOLEAN /\ owed \in BOOLEAN /\ raced \in BOOLEAN /\ touched \in BOOLEAN)'
      BY <1>a, <1>b DEF Guard!Installed, Guard!Removed, GInv, GuardTypes
    <2>4. (/\ cause \in FailureStages \cup {"none"} /\ report \in FailureStages \cup {"none"}
           /\ repair \in {"idle", "waits", "adopts", "clears"}
           /\ faults \in Nat /\ crashes \in Nat /\ outside \in Nat)'
      BY <1>a, <1>b DEF Guard!Installed, Guard!Removed, GInv, GuardTypes
    <2> QED
      BY <2>1, <2>2, <2>3, <2>4 DEF GuardTypes
  <1>2. CallFits'
    BY <1>a, <1>b DEF Guard!Installed, Guard!Removed, GInv, CallFits, GuardTypes
  <1>3. (RepairRemoves /\ RepairIsAlone /\ ReleaseIsAsked)'
    BY <1>a, <1>b DEF Guard!Installed, Guard!Removed, GInv, RepairRemoves, RepairIsAlone, ReleaseIsAsked, CallFits, GuardTypes, StartedIsBlocked
  <1>4. (StartedIsBlocked /\ Guard!OwedIsBlocked)'
    BY <1>a, <1>b DEF Guard!Installed, Guard!Removed, GInv, StartedIsBlocked, Guard!OwedIsBlocked, Guard!Intact, RepairRemoves, RepairIsAlone, ReleaseIsAsked, CallFits, GuardTypes
  <1>5. Guard!BlockIsKnown'
    BY <1>a, <1>b DEF Guard!Installed, Guard!Removed, GInv, Guard!BlockIsKnown, Guard!NothingOwned, CallFits, RepairRemoves, GuardTypes
  <1>6. Guard!ReportNamesItsCause'
    BY <1>a, <1>b DEF Guard!Installed, Guard!Removed, GInv, Guard!ReportNamesItsCause
  <1> QED
    BY <1>1, <1>2, <1>3, <1>4, <1>5, <1>6 DEF GInv

LEMMA RemoveFailsKeeps ==
  ASSUME GInv, NEW p \in Guard!Procs, Guard!RemoveFails(p)
  PROVE  GInv'
  <1> USE DEF Guard!Procs, Guard!wfp, Guard!procs, Guard!told, Guard!bounds
  <1>a. /\ at[p] \in {"remove"} /\ UNCHANGED foreign
        /\ Guard!Removed \/ UNCHANGED <<sublayer, filter>>
        /\ engine' \in [Guard!Procs -> {"none", "open", "dead"}] /\ faults' \in Nat
        /\ last_failure' \in [Guard!Procs -> FailureStages]
        /\ cause' \in FailureStages \cup {"none"} /\ report' = cause'
        /\ state' = [state EXCEPT ![p] = "incomplete"] /\ at' = [at EXCEPT ![p] = "idle"]
        /\ call' = [call EXCEPT ![p] = "none"]
        /\ UNCHANGED <<started, owed, repair, raced, crashes, outside, touched>>
    BY StagesFacts, FailedFacts DEF Guard!RemoveFails
  <1>1. GuardTypes'
    <2>1. (/\ sublayer \in BOOLEAN /\ filter \in [Guard!Filters -> {"absent", "ok", "altered"}]
           /\ foreign \subseteq Foreign)'
      BY <1>a DEF Guard!Installed, Guard!Removed, GInv, GuardTypes
    <2>2. (/\ engine \in [Guard!Procs -> {"none", "open", "dead"}]
           /\ last_failure \in [Guard!Procs -> FailureStages])'
      BY <1>a DEF Guard!Installed, Guard!Removed, GInv, GuardTypes
    <2>3. (/\ state \in [Guard!Procs -> {"none", "off", "armed", "incomplete"}]
           /\ call \in [Guard!Procs -> {"none", "construct", "start", "finish", "off"}]
           /\ at \in [Guard!Procs -> {"idle", "read", "install", "verify", "remove", "check"}])'
      BY <1>a DEF Guard!Installed, Guard!Removed, GInv, GuardTypes
    <2>4. (started \in BOOLEAN /\ owed \in BOOLEAN /\ raced \in BOOLEAN /\ touched \in BOOLEAN)'
      BY <1>a DEF Guard!Installed, Guard!Removed, GInv, GuardTypes
    <2>5. (/\ cause \in FailureStages \cup {"none"} /\ report \in FailureStages \cup {"none"}
           /\ repair \in {"idle", "waits", "adopts", "clears"}
           /\ faults \in Nat /\ crashes \in Nat /\ outside \in Nat)'
      BY <1>a DEF Guard!Installed, Guard!Removed, GInv, GuardTypes
    <2> QED
      BY <2>1, <2>2, <2>3, <2>4, <2>5 DEF GuardTypes
  <1>2. CallFits'
    BY <1>a DEF Guard!Installed, Guard!Removed, GInv, CallFits, GuardTypes
  <1>3. (RepairRemoves /\ RepairIsAlone /\ ReleaseIsAsked)'
    BY <1>a DEF Guard!Installed, Guard!Removed, GInv, RepairRemoves, RepairIsAlone, ReleaseIsAsked, CallFits, GuardTypes, StartedIsBlocked
  <1>4. (StartedIsBlocked /\ Guard!OwedIsBlocked)'
    BY <1>a DEF Guard!Installed, Guard!Removed, GInv, StartedIsBlocked, Guard!OwedIsBlocked, Guard!Intact, RepairRemoves, RepairIsAlone, ReleaseIsAsked, CallFits, GuardTypes
  <1>5. Guard!BlockIsKnown'
    BY <1>a DEF Guard!Installed, Guard!Removed, GInv, Guard!BlockIsKnown, Guard!NothingOwned, CallFits, RepairRemoves, GuardTypes
  <1>6. Guard!ReportNamesItsCause'
    BY <1>a DEF Guard!Installed, Guard!Removed, GInv, Guard!ReportNamesItsCause
  <1> QED
    BY <1>1, <1>2, <1>3, <1>4, <1>5, <1>6 DEF GInv

LEMMA ServiceStartsKeeps ==
  ASSUME GInv, Guard!ServiceStarts
  PROVE  GInv'
  <1> USE DEF Guard!Procs, Guard!wfp, Guard!procs, Guard!told, Guard!bounds
  <1>1. GuardTypes'
    <2>1. (/\ sublayer \in BOOLEAN /\ filter \in [Guard!Filters -> {"absent", "ok", "altered"}]
           /\ foreign \subseteq Foreign)'
      BY DEF Guard!ServiceStarts, Guard!Adopts, Guard!Calls, GInv, GuardTypes
    <2>2. (/\ engine \in [Guard!Procs -> {"none", "open", "dead"}]
           /\ last_failure \in [Guard!Procs -> FailureStages])'
      BY DEF Guard!ServiceStarts, Guard!Adopts, Guard!Calls, GInv, GuardTypes
    <2>3. (/\ state \in [Guard!Procs -> {"none", "off", "armed", "incomplete"}]
           /\ call \in [Guard!Procs -> {"none", "construct", "start", "finish", "off"}]
           /\ at \in [Guard!Procs -> {"idle", "read", "install", "verify", "remove", "check"}])'
      BY DEF Guard!ServiceStarts, Guard!Adopts, Guard!Calls, GInv, GuardTypes
    <2>4. (started \in BOOLEAN /\ owed \in BOOLEAN /\ raced \in BOOLEAN /\ touched \in BOOLEAN)'
      BY DEF Guard!ServiceStarts, Guard!Adopts, Guard!Calls, GInv, GuardTypes
    <2>5. (/\ cause \in FailureStages \cup {"none"} /\ report \in FailureStages \cup {"none"}
           /\ repair \in {"idle", "waits", "adopts", "clears"}
           /\ faults \in Nat /\ crashes \in Nat /\ outside \in Nat)'
      BY DEF Guard!ServiceStarts, Guard!Adopts, Guard!Calls, GInv, GuardTypes
    <2> QED
      BY <2>1, <2>2, <2>3, <2>4, <2>5 DEF GuardTypes
  <1>2. CallFits'
    BY DEF Guard!ServiceStarts, Guard!Adopts, Guard!Calls, GInv, CallFits, GuardTypes
  <1>3. (RepairRemoves /\ RepairIsAlone /\ ReleaseIsAsked)'
    BY DEF Guard!ServiceStarts, Guard!Adopts, Guard!Calls, GInv, RepairRemoves, RepairIsAlone, ReleaseIsAsked, CallFits, GuardTypes, StartedIsBlocked
  <1>4. (StartedIsBlocked /\ Guard!OwedIsBlocked)'
    BY DEF Guard!ServiceStarts, Guard!Adopts, Guard!Calls, GInv, StartedIsBlocked, Guard!OwedIsBlocked, Guard!Intact, RepairRemoves, RepairIsAlone, ReleaseIsAsked, CallFits, GuardTypes
  <1>5. Guard!BlockIsKnown'
    BY DEF Guard!ServiceStarts, Guard!Adopts, Guard!Calls, GInv, Guard!BlockIsKnown, Guard!NothingOwned, CallFits, RepairRemoves, GuardTypes
  <1>6. Guard!ReportNamesItsCause'
    BY DEF Guard!ServiceStarts, Guard!Adopts, Guard!Calls, GInv, Guard!ReportNamesItsCause
  <1> QED
    BY <1>1, <1>2, <1>3, <1>4, <1>5, <1>6 DEF GInv

LEMMA StartKeeps ==
  ASSUME GInv, Guard!Start
  PROVE  GInv'
  <1> USE DEF Guard!Procs, Guard!wfp, Guard!procs, Guard!told, Guard!bounds
  <1>1. GuardTypes'
    <2>1. (/\ sublayer \in BOOLEAN /\ filter \in [Guard!Filters -> {"absent", "ok", "altered"}]
           /\ foreign \subseteq Foreign)'
      BY DEF Guard!Start, Guard!Calls, GInv, GuardTypes
    <2>2. (/\ engine \in [Guard!Procs -> {"none", "open", "dead"}]
           /\ state \in [Guard!Procs -> {"none", "off", "armed", "incomplete"}]
           /\ call \in [Guard!Procs -> {"none", "construct", "start", "finish", "off"}]
           /\ at \in [Guard!Procs -> {"idle", "read", "install", "verify", "remove", "check"}]
           /\ last_failure \in [Guard!Procs -> FailureStages])'
      BY DEF Guard!Start, Guard!Calls, GInv, GuardTypes, FailureStages
    <2>3. (started \in BOOLEAN /\ owed \in BOOLEAN /\ raced \in BOOLEAN /\ touched \in BOOLEAN)'
      BY DEF Guard!Start, Guard!Calls, GInv, GuardTypes
    <2>4. (/\ cause \in FailureStages \cup {"none"} /\ report \in FailureStages \cup {"none"}
           /\ repair \in {"idle", "waits", "adopts", "clears"}
           /\ faults \in Nat /\ crashes \in Nat /\ outside \in Nat)'
      BY DEF Guard!Start, Guard!Calls, GInv, GuardTypes
    <2> QED
      BY <2>1, <2>2, <2>3, <2>4 DEF GuardTypes
  <1>2. CallFits'
    BY DEF Guard!Start, Guard!Calls, GInv, CallFits, GuardTypes
  <1>3. (RepairRemoves /\ RepairIsAlone /\ ReleaseIsAsked)'
    BY DEF Guard!Start, Guard!Calls, GInv, RepairRemoves, RepairIsAlone, ReleaseIsAsked, CallFits, GuardTypes, StartedIsBlocked
  <1>4. (StartedIsBlocked /\ Guard!OwedIsBlocked)'
    BY DEF Guard!Start, Guard!Calls, GInv, StartedIsBlocked, Guard!OwedIsBlocked, Guard!Intact, RepairRemoves, RepairIsAlone, ReleaseIsAsked, CallFits, GuardTypes
  <1>5. Guard!BlockIsKnown'
    BY DEF Guard!Start, Guard!Calls, GInv, Guard!BlockIsKnown, Guard!NothingOwned, CallFits, RepairRemoves, GuardTypes
  <1>6. Guard!ReportNamesItsCause'
    BY DEF Guard!Start, Guard!Calls, GInv, Guard!ReportNamesItsCause
  <1> QED
    BY <1>1, <1>2, <1>3, <1>4, <1>5, <1>6 DEF GInv

LEMMA StopCoreKeeps ==
  ASSUME GInv, Guard!StopCore
  PROVE  GInv'
  <1> USE DEF Guard!Procs, Guard!wfp, Guard!procs, Guard!told, Guard!bounds
  <1>1. GuardTypes'
    <2>1. (/\ sublayer \in BOOLEAN /\ filter \in [Guard!Filters -> {"absent", "ok", "altered"}]
           /\ foreign \subseteq Foreign)'
      BY DEF Guard!StopCore, GInv, GuardTypes
    <2>2. (/\ engine \in [Guard!Procs -> {"none", "open", "dead"}]
           /\ state \in [Guard!Procs -> {"none", "off", "armed", "incomplete"}]
           /\ call \in [Guard!Procs -> {"none", "construct", "start", "finish", "off"}]
           /\ at \in [Guard!Procs -> {"idle", "read", "install", "verify", "remove", "check"}]
           /\ last_failure \in [Guard!Procs -> FailureStages])'
      BY DEF Guard!StopCore, GInv, GuardTypes, FailureStages
    <2>3. (started \in BOOLEAN /\ owed \in BOOLEAN /\ raced \in BOOLEAN /\ touched \in BOOLEAN)'
      BY DEF Guard!StopCore, GInv, GuardTypes
    <2>4. (/\ cause \in FailureStages \cup {"none"} /\ report \in FailureStages \cup {"none"}
           /\ repair \in {"idle", "waits", "adopts", "clears"}
           /\ faults \in Nat /\ crashes \in Nat /\ outside \in Nat)'
      BY DEF Guard!StopCore, GInv, GuardTypes
    <2> QED
      BY <2>1, <2>2, <2>3, <2>4 DEF GuardTypes
  <1>2. CallFits'
    BY DEF Guard!StopCore, GInv, CallFits, GuardTypes
  <1>3. (RepairRemoves /\ RepairIsAlone /\ ReleaseIsAsked)'
    BY DEF Guard!StopCore, GInv, RepairRemoves, RepairIsAlone, ReleaseIsAsked, CallFits, GuardTypes, StartedIsBlocked
  <1>4. (StartedIsBlocked /\ Guard!OwedIsBlocked)'
    BY DEF Guard!StopCore, GInv, StartedIsBlocked, Guard!OwedIsBlocked, Guard!Intact, RepairRemoves, RepairIsAlone, ReleaseIsAsked, CallFits, GuardTypes
  <1>5. Guard!BlockIsKnown'
    BY DEF Guard!StopCore, GInv, Guard!BlockIsKnown, Guard!NothingOwned, CallFits, RepairRemoves, GuardTypes
  <1>6. Guard!ReportNamesItsCause'
    BY DEF Guard!StopCore, GInv, Guard!ReportNamesItsCause
  <1> QED
    BY <1>1, <1>2, <1>3, <1>4, <1>5, <1>6 DEF GInv

LEMMA ReleaseKeeps ==
  ASSUME GInv, NEW method \in {"finish", "off"}, Guard!Release(method)
  PROVE  GInv'
  <1> USE DEF Guard!Procs, Guard!wfp, Guard!procs, Guard!told, Guard!bounds
  <1>1. GuardTypes'
    <2>1. (/\ sublayer \in BOOLEAN /\ filter \in [Guard!Filters -> {"absent", "ok", "altered"}]
           /\ foreign \subseteq Foreign)'
      BY DEF Guard!Release, Guard!Calls, Guard!OffLater, GInv, GuardTypes
    <2>2. (/\ engine \in [Guard!Procs -> {"none", "open", "dead"}]
           /\ state \in [Guard!Procs -> {"none", "off", "armed", "incomplete"}]
           /\ call \in [Guard!Procs -> {"none", "construct", "start", "finish", "off"}]
           /\ at \in [Guard!Procs -> {"idle", "read", "install", "verify", "remove", "check"}]
           /\ last_failure \in [Guard!Procs -> FailureStages])'
      BY DEF Guard!Release, Guard!Calls, Guard!OffLater, GInv, GuardTypes, FailureStages
    <2>3. (started \in BOOLEAN /\ owed \in BOOLEAN /\ raced \in BOOLEAN /\ touched \in BOOLEAN)'
      BY DEF Guard!Release, Guard!Calls, Guard!OffLater, GInv, GuardTypes
    <2>4. (/\ cause \in FailureStages \cup {"none"} /\ report \in FailureStages \cup {"none"}
           /\ repair \in {"idle", "waits", "adopts", "clears"}
           /\ faults \in Nat /\ crashes \in Nat /\ outside \in Nat)'
      BY DEF Guard!Release, Guard!Calls, Guard!OffLater, GInv, GuardTypes
    <2> QED
      BY <2>1, <2>2, <2>3, <2>4 DEF GuardTypes
  <1>2. CallFits'
    BY DEF Guard!Release, Guard!Calls, Guard!OffLater, GInv, CallFits, GuardTypes
  <1>3. (RepairRemoves /\ RepairIsAlone /\ ReleaseIsAsked)'
    BY DEF Guard!Release, Guard!Calls, Guard!OffLater, GInv, RepairRemoves, RepairIsAlone, ReleaseIsAsked, CallFits, GuardTypes, StartedIsBlocked
  <1>4. (StartedIsBlocked /\ Guard!OwedIsBlocked)'
    BY DEF Guard!Release, Guard!Calls, Guard!OffLater, GInv, StartedIsBlocked, Guard!OwedIsBlocked, Guard!Intact, RepairRemoves, RepairIsAlone, ReleaseIsAsked, CallFits, GuardTypes
  <1>5. Guard!BlockIsKnown'
    BY DEF Guard!Release, Guard!Calls, Guard!OffLater, GInv, Guard!BlockIsKnown, Guard!NothingOwned, CallFits, RepairRemoves, GuardTypes
  <1>6. Guard!ReportNamesItsCause'
    BY DEF Guard!Release, Guard!Calls, Guard!OffLater, GInv, Guard!ReportNamesItsCause
  <1> QED
    BY <1>1, <1>2, <1>3, <1>4, <1>5, <1>6 DEF GInv

LEMMA ServiceEndsKeeps ==
  ASSUME GInv, Guard!ServiceEnds
  PROVE  GInv'
  <1> USE DEF Guard!Procs, Guard!wfp, Guard!procs, Guard!told, Guard!bounds
  <1>1. GuardTypes'
    <2>1. (/\ sublayer \in BOOLEAN /\ filter \in [Guard!Filters -> {"absent", "ok", "altered"}]
           /\ foreign \subseteq Foreign)'
      BY DEF Guard!ServiceEnds, Guard!Ends, GInv, GuardTypes
    <2>2. (/\ engine \in [Guard!Procs -> {"none", "open", "dead"}]
           /\ state \in [Guard!Procs -> {"none", "off", "armed", "incomplete"}]
           /\ call \in [Guard!Procs -> {"none", "construct", "start", "finish", "off"}]
           /\ at \in [Guard!Procs -> {"idle", "read", "install", "verify", "remove", "check"}]
           /\ last_failure \in [Guard!Procs -> FailureStages])'
      BY DEF Guard!ServiceEnds, Guard!Ends, GInv, GuardTypes, FailureStages
    <2>3. (started \in BOOLEAN /\ owed \in BOOLEAN /\ raced \in BOOLEAN /\ touched \in BOOLEAN)'
      BY DEF Guard!ServiceEnds, Guard!Ends, GInv, GuardTypes
    <2>4. (/\ cause \in FailureStages \cup {"none"} /\ report \in FailureStages \cup {"none"}
           /\ repair \in {"idle", "waits", "adopts", "clears"}
           /\ faults \in Nat /\ crashes \in Nat /\ outside \in Nat)'
      BY DEF Guard!ServiceEnds, Guard!Ends, GInv, GuardTypes
    <2> QED
      BY <2>1, <2>2, <2>3, <2>4 DEF GuardTypes
  <1>2. CallFits'
    BY DEF Guard!ServiceEnds, Guard!Ends, GInv, CallFits, GuardTypes
  <1>3. (RepairRemoves /\ RepairIsAlone /\ ReleaseIsAsked)'
    BY DEF Guard!ServiceEnds, Guard!Ends, GInv, RepairRemoves, RepairIsAlone, ReleaseIsAsked, CallFits, GuardTypes, StartedIsBlocked
  <1>4. (StartedIsBlocked /\ Guard!OwedIsBlocked)'
    BY DEF Guard!ServiceEnds, Guard!Ends, GInv, StartedIsBlocked, Guard!OwedIsBlocked, Guard!Intact, RepairRemoves, RepairIsAlone, ReleaseIsAsked, CallFits, GuardTypes
  <1>5. Guard!BlockIsKnown'
    BY DEF Guard!ServiceEnds, Guard!Ends, GInv, Guard!BlockIsKnown, Guard!NothingOwned, CallFits, RepairRemoves, GuardTypes
  <1>6. Guard!ReportNamesItsCause'
    BY DEF Guard!ServiceEnds, Guard!Ends, GInv, Guard!ReportNamesItsCause
  <1> QED
    BY <1>1, <1>2, <1>3, <1>4, <1>5, <1>6 DEF GInv

LEMMA RepairAsksKeeps ==
  ASSUME GInv, Guard!RepairAsks \/ Guard!RepairGivesUp
  PROVE  GInv'
  <1> USE DEF Guard!Procs, Guard!wfp, Guard!procs, Guard!told, Guard!bounds
  <1>1. GuardTypes'
    BY DEF Guard!RepairAsks, Guard!RepairGivesUp, GInv, GuardTypes, FailureStages
  <1>2. CallFits'
    BY DEF Guard!RepairAsks, Guard!RepairGivesUp, GInv, CallFits, GuardTypes
  <1>3. (RepairRemoves /\ RepairIsAlone /\ ReleaseIsAsked)'
    BY DEF Guard!RepairAsks, Guard!RepairGivesUp, GInv, RepairRemoves, RepairIsAlone, ReleaseIsAsked, CallFits, GuardTypes, StartedIsBlocked
  <1>4. (StartedIsBlocked /\ Guard!OwedIsBlocked)'
    BY DEF Guard!RepairAsks, Guard!RepairGivesUp, GInv, StartedIsBlocked, Guard!OwedIsBlocked, Guard!Intact, RepairRemoves, RepairIsAlone, ReleaseIsAsked, CallFits, GuardTypes
  <1>5. Guard!BlockIsKnown'
    BY DEF Guard!RepairAsks, Guard!RepairGivesUp, GInv, Guard!BlockIsKnown, Guard!NothingOwned, CallFits, RepairRemoves, GuardTypes
  <1>6. Guard!ReportNamesItsCause'
    BY DEF Guard!RepairAsks, Guard!RepairGivesUp, GInv, Guard!ReportNamesItsCause
  <1> QED
    BY <1>1, <1>2, <1>3, <1>4, <1>5, <1>6 DEF GInv

LEMMA RepairAdoptsKeeps ==
  ASSUME GInv, Guard!RepairAdopts
  PROVE  GInv'
  <1> USE DEF Guard!Procs, Guard!wfp, Guard!procs, Guard!told, Guard!bounds
  <1>1. GuardTypes'
    <2>1. (/\ sublayer \in BOOLEAN /\ filter \in [Guard!Filters -> {"absent", "ok", "altered"}]
           /\ foreign \subseteq Foreign)'
      BY DEF Guard!RepairAdopts, Guard!Adopts, Guard!Calls, GInv, GuardTypes
    <2>2. (/\ engine \in [Guard!Procs -> {"none", "open", "dead"}]
           /\ last_failure \in [Guard!Procs -> FailureStages])'
      BY DEF Guard!RepairAdopts, Guard!Adopts, Guard!Calls, GInv, GuardTypes
    <2>3. (/\ state \in [Guard!Procs -> {"none", "off", "armed", "incomplete"}]
           /\ call \in [Guard!Procs -> {"none", "construct", "start", "finish", "off"}]
           /\ at \in [Guard!Procs -> {"idle", "read", "install", "verify", "remove", "check"}])'
      BY DEF Guard!RepairAdopts, Guard!Adopts, Guard!Calls, GInv, GuardTypes
    <2>4. (started \in BOOLEAN /\ owed \in BOOLEAN /\ raced \in BOOLEAN /\ touched \in BOOLEAN)'
      BY DEF Guard!RepairAdopts, Guard!Adopts, Guard!Calls, GInv, GuardTypes
    <2>5. (/\ cause \in FailureStages \cup {"none"} /\ report \in FailureStages \cup {"none"}
           /\ repair \in {"idle", "waits", "adopts", "clears"}
           /\ faults \in Nat /\ crashes \in Nat /\ outside \in Nat)'
      BY DEF Guard!RepairAdopts, Guard!Adopts, Guard!Calls, GInv, GuardTypes
    <2> QED
      BY <2>1, <2>2, <2>3, <2>4, <2>5 DEF GuardTypes
  <1>2. CallFits'
    BY DEF Guard!RepairAdopts, Guard!Adopts, Guard!Calls, GInv, CallFits, GuardTypes
  <1>3. (RepairRemoves /\ RepairIsAlone /\ ReleaseIsAsked)'
    BY DEF Guard!RepairAdopts, Guard!Adopts, Guard!Calls, GInv, RepairRemoves, RepairIsAlone, ReleaseIsAsked, CallFits, GuardTypes, StartedIsBlocked
  <1>4. (StartedIsBlocked /\ Guard!OwedIsBlocked)'
    BY DEF Guard!RepairAdopts, Guard!Adopts, Guard!Calls, GInv, StartedIsBlocked, Guard!OwedIsBlocked, Guard!Intact, RepairRemoves, RepairIsAlone, ReleaseIsAsked, CallFits, GuardTypes
  <1>5. Guard!BlockIsKnown'
    BY DEF Guard!RepairAdopts, Guard!Adopts, Guard!Calls, GInv, Guard!BlockIsKnown, Guard!NothingOwned, CallFits, RepairRemoves, GuardTypes
  <1>6. Guard!ReportNamesItsCause'
    BY DEF Guard!RepairAdopts, Guard!Adopts, Guard!Calls, GInv, Guard!ReportNamesItsCause
  <1> QED
    BY <1>1, <1>2, <1>3, <1>4, <1>5, <1>6 DEF GInv

LEMMA RepairOffKeeps ==
  ASSUME GInv, Guard!RepairOff
  PROVE  GInv'
  <1> USE DEF Guard!Procs, Guard!wfp, Guard!procs, Guard!told, Guard!bounds
  <1>1. GuardTypes'
    <2>1. (/\ sublayer \in BOOLEAN /\ filter \in [Guard!Filters -> {"absent", "ok", "altered"}]
           /\ foreign \subseteq Foreign)'
      BY DEF Guard!RepairOff, Guard!Calls, Guard!OffLater, GInv, GuardTypes
    <2>2. (/\ engine \in [Guard!Procs -> {"none", "open", "dead"}]
           /\ last_failure \in [Guard!Procs -> FailureStages])'
      BY DEF Guard!RepairOff, Guard!Calls, Guard!OffLater, GInv, GuardTypes
    <2>3. (/\ state \in [Guard!Procs -> {"none", "off", "armed", "incomplete"}]
           /\ call \in [Guard!Procs -> {"none", "construct", "start", "finish", "off"}]
           /\ at \in [Guard!Procs -> {"idle", "read", "install", "verify", "remove", "check"}])'
      BY DEF Guard!RepairOff, Guard!Calls, Guard!OffLater, GInv, GuardTypes
    <2>4. (started \in BOOLEAN /\ owed \in BOOLEAN /\ raced \in BOOLEAN /\ touched \in BOOLEAN)'
      BY DEF Guard!RepairOff, Guard!Calls, Guard!OffLater, GInv, GuardTypes
    <2>5. (/\ cause \in FailureStages \cup {"none"} /\ report \in FailureStages \cup {"none"}
           /\ repair \in {"idle", "waits", "adopts", "clears"}
           /\ faults \in Nat /\ crashes \in Nat /\ outside \in Nat)'
      BY DEF Guard!RepairOff, Guard!Calls, Guard!OffLater, GInv, GuardTypes
    <2> QED
      BY <2>1, <2>2, <2>3, <2>4, <2>5 DEF GuardTypes
  <1>2. CallFits'
    BY DEF Guard!RepairOff, Guard!Calls, Guard!OffLater, GInv, CallFits, GuardTypes
  <1>3. (RepairRemoves /\ RepairIsAlone /\ ReleaseIsAsked)'
    BY DEF Guard!RepairOff, Guard!Calls, Guard!OffLater, GInv, RepairRemoves, RepairIsAlone, ReleaseIsAsked, CallFits, GuardTypes, StartedIsBlocked
  <1>4. (StartedIsBlocked /\ Guard!OwedIsBlocked)'
    BY DEF Guard!RepairOff, Guard!Calls, Guard!OffLater, GInv, StartedIsBlocked, Guard!OwedIsBlocked, Guard!Intact, RepairRemoves, RepairIsAlone, ReleaseIsAsked, CallFits, GuardTypes
  <1>5. Guard!BlockIsKnown'
    BY DEF Guard!RepairOff, Guard!Calls, Guard!OffLater, GInv, Guard!BlockIsKnown, Guard!NothingOwned, CallFits, RepairRemoves, GuardTypes
  <1>6. Guard!ReportNamesItsCause'
    BY DEF Guard!RepairOff, Guard!Calls, Guard!OffLater, GInv, Guard!ReportNamesItsCause
  <1> QED
    BY <1>1, <1>2, <1>3, <1>4, <1>5, <1>6 DEF GInv

LEMMA RepairExitsKeeps ==
  ASSUME GInv, Guard!RepairExits
  PROVE  GInv'
  <1> USE DEF Guard!Procs, Guard!wfp, Guard!procs, Guard!told, Guard!bounds
  <1>1. GuardTypes'
    BY DEF Guard!RepairExits, Guard!Ends, GInv, GuardTypes, FailureStages
  <1>2. CallFits'
    BY DEF Guard!RepairExits, Guard!Ends, GInv, CallFits, GuardTypes
  <1>3. (RepairRemoves /\ RepairIsAlone /\ ReleaseIsAsked)'
    BY DEF Guard!RepairExits, Guard!Ends, GInv, RepairRemoves, RepairIsAlone, ReleaseIsAsked, CallFits, GuardTypes, StartedIsBlocked
  <1>4. (StartedIsBlocked /\ Guard!OwedIsBlocked)'
    BY DEF Guard!RepairExits, Guard!Ends, GInv, StartedIsBlocked, Guard!OwedIsBlocked, Guard!Intact, RepairRemoves, RepairIsAlone, ReleaseIsAsked, CallFits, GuardTypes
  <1>5. Guard!BlockIsKnown'
    BY DEF Guard!RepairExits, Guard!Ends, GInv, Guard!BlockIsKnown, Guard!NothingOwned, CallFits, RepairRemoves, GuardTypes
  <1>6. Guard!ReportNamesItsCause'
    BY DEF Guard!RepairExits, Guard!Ends, GInv, Guard!ReportNamesItsCause
  <1> QED
    BY <1>1, <1>2, <1>3, <1>4, <1>5, <1>6 DEF GInv

LEMMA BfeRestartsKeeps ==
  ASSUME GInv, Guard!BfeRestarts
  PROVE  GInv'
  <1> USE DEF Guard!Procs, Guard!wfp, Guard!procs, Guard!told, Guard!bounds
  <1>1. GuardTypes'
    BY DEF Guard!BfeRestarts, GInv, GuardTypes, FailureStages
  <1>2. CallFits'
    BY DEF Guard!BfeRestarts, GInv, CallFits, GuardTypes
  <1>3. (RepairRemoves /\ RepairIsAlone /\ ReleaseIsAsked)'
    BY DEF Guard!BfeRestarts, GInv, RepairRemoves, RepairIsAlone, ReleaseIsAsked, CallFits, GuardTypes, StartedIsBlocked
  <1>4. (StartedIsBlocked /\ Guard!OwedIsBlocked)'
    BY DEF Guard!BfeRestarts, GInv, StartedIsBlocked, Guard!OwedIsBlocked, Guard!Intact, RepairRemoves, RepairIsAlone, ReleaseIsAsked, CallFits, GuardTypes
  <1>5. Guard!BlockIsKnown'
    BY DEF Guard!BfeRestarts, GInv, Guard!BlockIsKnown, Guard!NothingOwned, CallFits, RepairRemoves, GuardTypes
  <1>6. Guard!ReportNamesItsCause'
    BY DEF Guard!BfeRestarts, GInv, Guard!ReportNamesItsCause
  <1> QED
    BY <1>1, <1>2, <1>3, <1>4, <1>5, <1>6 DEF GInv

LEMMA OthersFilterKeeps ==
  ASSUME GInv, NEW f \in Foreign, Guard!OthersFilter(f)
  PROVE  GInv'
  <1> USE DEF Guard!Procs, Guard!wfp, Guard!procs, Guard!told, Guard!bounds
  <1>1. GuardTypes'
    BY DEF Guard!OthersFilter, GInv, GuardTypes, FailureStages
  <1>2. CallFits'
    BY DEF Guard!OthersFilter, GInv, CallFits, GuardTypes
  <1>3. (RepairRemoves /\ RepairIsAlone /\ ReleaseIsAsked)'
    BY DEF Guard!OthersFilter, GInv, RepairRemoves, RepairIsAlone, ReleaseIsAsked, CallFits, GuardTypes, StartedIsBlocked
  <1>4. (StartedIsBlocked /\ Guard!OwedIsBlocked)'
    BY DEF Guard!OthersFilter, GInv, StartedIsBlocked, Guard!OwedIsBlocked, Guard!Intact, RepairRemoves, RepairIsAlone, ReleaseIsAsked, CallFits, GuardTypes
  <1>5. Guard!BlockIsKnown'
    BY DEF Guard!OthersFilter, GInv, Guard!BlockIsKnown, Guard!NothingOwned, CallFits, RepairRemoves, GuardTypes
  <1>6. Guard!ReportNamesItsCause'
    BY DEF Guard!OthersFilter, GInv, Guard!ReportNamesItsCause
  <1> QED
    BY <1>1, <1>2, <1>3, <1>4, <1>5, <1>6 DEF GInv

LEMMA OwnFilterChangedKeeps ==
  ASSUME GInv, NEW x \in Guard!Filters, NEW to \in {"absent", "altered"}, Guard!OwnFilterChanged(x, to)
  PROVE  GInv'
  <1> USE DEF Guard!Procs, Guard!wfp, Guard!procs, Guard!told, Guard!bounds
  <1>1. GuardTypes'
    BY DEF Guard!OwnFilterChanged, GInv, GuardTypes, FailureStages
  <1>2. CallFits'
    BY DEF Guard!OwnFilterChanged, GInv, CallFits, GuardTypes
  <1>3. (RepairRemoves /\ RepairIsAlone /\ ReleaseIsAsked)'
    BY DEF Guard!OwnFilterChanged, GInv, RepairRemoves, RepairIsAlone, ReleaseIsAsked, CallFits, GuardTypes, StartedIsBlocked
  <1>4. (StartedIsBlocked /\ Guard!OwedIsBlocked)'
    BY DEF Guard!OwnFilterChanged, GInv, StartedIsBlocked, Guard!OwedIsBlocked, Guard!Intact, RepairRemoves, RepairIsAlone, ReleaseIsAsked, CallFits, GuardTypes
  <1>5. Guard!BlockIsKnown'
    BY DEF Guard!OwnFilterChanged, GInv, Guard!BlockIsKnown, Guard!NothingOwned, CallFits, RepairRemoves, GuardTypes
  <1>6. Guard!ReportNamesItsCause'
    BY DEF Guard!OwnFilterChanged, GInv, Guard!ReportNamesItsCause
  <1> QED
    BY <1>1, <1>2, <1>3, <1>4, <1>5, <1>6 DEF GInv

LEMMA StuttersKeeps ==
  ASSUME GInv, UNCHANGED Guard!vars
  PROVE  GInv'
  <1> USE DEF Guard!Procs, Guard!wfp, Guard!procs, Guard!told, Guard!bounds
  <1>1. GuardTypes'
    BY DEF Guard!vars, GInv, GuardTypes, FailureStages
  <1>2. CallFits'
    BY DEF Guard!vars, GInv, CallFits, GuardTypes
  <1>3. (RepairRemoves /\ RepairIsAlone /\ ReleaseIsAsked)'
    BY DEF Guard!vars, GInv, RepairRemoves, RepairIsAlone, ReleaseIsAsked, CallFits, GuardTypes, StartedIsBlocked
  <1>4. (StartedIsBlocked /\ Guard!OwedIsBlocked)'
    BY DEF Guard!vars, GInv, StartedIsBlocked, Guard!OwedIsBlocked, Guard!Intact, RepairRemoves, RepairIsAlone, ReleaseIsAsked, CallFits, GuardTypes
  <1>5. Guard!BlockIsKnown'
    BY DEF Guard!vars, GInv, Guard!BlockIsKnown, Guard!NothingOwned, CallFits, RepairRemoves, GuardTypes
  <1>6. Guard!ReportNamesItsCause'
    BY DEF Guard!vars, GInv, Guard!ReportNamesItsCause
  <1> QED
    BY <1>1, <1>2, <1>3, <1>4, <1>5, <1>6 DEF GInv

-----------------------------------------------------------------------------
(* The theorems.                                                           *)

LEMMA InitiallyInv ==
  ASSUME Guard!Init
  PROVE  GInv
  <1> USE DEF Guard!Init, Guard!Procs
  <1>1. GuardTypes
    <2>1. PICK f \in {"absent", "ok", "altered"} :
            /\ filter = [x \in Guard!Filters |-> IF x[2] = "block" /\ f # "absent" THEN "ok" ELSE f]
            /\ sublayer = (f # "absent")
      OBVIOUS
    <2>2. sublayer \in BOOLEAN /\ filter \in [Guard!Filters -> {"absent", "ok", "altered"}]
      BY <2>1
    <2> QED
      BY <2>2 DEF GuardTypes, FailureStages
  <1>2. CallFits /\ RepairRemoves /\ RepairIsAlone /\ StartedIsBlocked /\ ReleaseIsAsked
    BY DEF CallFits, RepairRemoves, RepairIsAlone, StartedIsBlocked, ReleaseIsAsked
  <1>3. Guard!BlockIsKnown /\ Guard!OwedIsBlocked /\ Guard!ReportNamesItsCause
    BY DEF Guard!BlockIsKnown, Guard!OwedIsBlocked, Guard!ReportNamesItsCause
  <1> QED
    BY <1>1, <1>2, <1>3 DEF GInv

LEMMA InvariantKept ==
  ASSUME GInv, [Guard!Next]_Guard!vars
  PROVE  GInv'
  BY ReadKeeps, ReadFailsKeeps, InstallKeeps, InstallFailsKeeps, RemoveKeeps, RemoveFailsKeeps,
     ServiceStartsKeeps, StartKeeps, StopCoreKeeps, ReleaseKeeps, ServiceEndsKeeps,
     RepairAsksKeeps, RepairAdoptsKeeps, RepairOffKeeps, RepairExitsKeeps, BfeRestartsKeeps,
     OthersFilterKeeps, OwnFilterChangedKeeps, StuttersKeeps DEF Guard!Next, Guard!Step

\* GInv is inductive, so every reachable state of the guard has it.
THEOREM GuardInvariance == Guard!Spec => []GInv
  <1>1. Guard!Init => GInv
    BY InitiallyInv
  <1>2. GInv /\ [Guard!Next]_Guard!vars => GInv'
    BY InvariantKept
  <1> QED
    BY <1>1, <1>2, PTL DEF Guard!Spec

\* Whatever calls fail, whichever process ends and whatever others do to the
\* engine's filters: a guard that reads armed blocks all but the service, the
\* service never takes a guard for off that is there, filters behind which the
\* Core was stopped stay until their removal is asked for, and the journal names
\* the stage that failed.
THEOREM BlockKept == Guard!Spec => []BlockIsKept
  <1>1. GInv => BlockIsKept
    BY ReadbackHolds DEF GInv, BlockIsKept, Guard!BlockIsKept
  <1> QED
    BY <1>1, GuardInvariance, PTL
=============================================================================

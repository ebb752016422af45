----------------------- MODULE WindowsService_proofs ------------------------
(***************************************************************************)
(* Proofs for the parts of the Windows service that share no state with    *)
(* one another: the pipe server and its sessions (WindowsPipeServer), a    *)
(* call of its client (WindowsServiceClient), the event journal            *)
(* (WindowsEvents), the proof of the control hosts (WindowsControlProof),  *)
(* the check of the Core's egress (WindowsEgressProbe), candidate probes   *)
(* from the window to the Core (WindowsCandidateProbe) and the local DPI   *)
(* engine (WindowsLocalDpi).  A theorem speaks of one of them; a variable  *)
(* that two of them declare is, in a theorem, that of its module.          *)
(***************************************************************************)
EXTENDS WindowsPipe, WindowsProbes, Integers, Sequences, FiniteSets, FiniteSetTheorems,
        SequenceTheorems, WellFoundedInduction, TLAPS

-----------------------------------------------------------------------------
(* The pipe server *)

\* What a session's record may be.
Where ==
  {"none", "listening", "hello", "greet", "linger", "loop", "read", "execute", "respond",
   "close", "closed", "done", "joined"}

Records ==
  [at : Where, open : BOOLEAN, caller : Server!Callers, offer : SUBSET Server!Capabilities,
   used : SUBSET Nonces, ran : Seq(Nonces)]

\* A thread closes its instance before it is done; what ran is spent, once each;
\* nothing runs before the caller is known, and its offer compatible.
Whole(s) ==
  /\ s \in Records
  /\ s.open => s.at \notin {"none", "closed", "done", "joined"}
  /\ IsFiniteSet(s.used) /\ Cardinality(s.used) <= NonceCapacity
  /\ \A a \in 1..Len(s.ran) : s.ran[a] \in s.used
  /\ \A a, b \in 1..Len(s.ran) : a # b => s.ran[a] # s.ran[b]
  /\ s.at \in {"listening", "hello", "greet", "linger"} => s.ran = <<>>
  /\ s.at \in {"greet", "linger", "loop", "read", "execute", "respond"} => s.caller = "owner"
  /\ s.at \in {"loop", "read", "execute", "respond"} => Server!Compatible(s.offer)
  /\ s.ran # <<>> => s.caller = "owner" /\ Server!Compatible(s.offer)

\* The connections that were made and whose thread is not joined.
Threads == {i \in Server!Conns : session[i].at \notin {"none", "joined"}}

SessionsWhole ==
  /\ DOMAIN session = Server!Conns /\ session = [i \in Server!Conns |-> session[i]]
  /\ \A i \in Server!Conns : Whole(session[i])

\* The loop counts every thread and every instance it waits on.
ThreadsFit == Cardinality(Threads) <= MaximumClients

\* Sessions are only made in the accept loop, and none is left at the shutdown.
SessionsEnd ==
  /\ main = "join" => \A i \in Server!Conns : session[i].at # "listening"
  /\ main \in {"close", "reset", "report", "ended"} /\ host = "shutdown" =>
       \A i \in Server!Conns : session[i].at \in {"none", "joined"}
  /\ host = "shutdown" => main \in {"close", "reset", "report", "ended"}

\* Where ServiceMain and the control handler are, what they have told each other
\* and what they have made.  As long as nothing failed the service stops only
\* because the handler told it to, which is the last thing the handler does.
ProcessFits ==
  /\ main \in {"start", "announce", "abandoned", "recover", "accept", "join", "close", "reset",
               "report", "ended"}
  /\ status \in {"startPending", "running", "stopPending", "stopped"}
  /\ stop \in BOOLEAN /\ event \in BOOLEAN /\ sink \in BOOLEAN /\ logged \in BOOLEAN
  /\ failures \in 0..MaxFailures /\ accepted \in 0..MaxConnections
  /\ host \in {"none", "serving", "shutdown"}
  /\ handler = Server!Idle \/ handler \in [at : {"record", "decide", "report", "set"},
                                           control : {"stop", "power"}]

StopIsOrdered ==
  /\ main \in {"start", "announce", "abandoned"} =>
       status = "startPending" /\ handler = Server!Idle /\ ~stop
  /\ main \in {"start", "abandoned", "reset", "report", "ended"} => ~sink
  /\ sink => logged
  /\ status = "startPending" => main \in {"start", "announce", "abandoned"}
  /\ handler.at = "set" => status \in {"stopPending", "stopped"}
  /\ failures = 0 =>
       /\ main \in {"join", "close", "reset", "report"} => stop
       /\ main = "ended" => handler = Server!Idle /\ status # "running"
       /\ stop => handler = Server!Idle /\ status \in {"stopPending", "stopped"}
       /\ handler.at = "record" => logged

SInv == SessionsWhole /\ ThreadsFit /\ SessionsEnd /\ ProcessFits /\ StopIsOrdered

-----------------------------------------------------------------------------
\* An instance brings its own copy of FiniteSets.
LEMMA Counts == ASSUME NEW S PROVE Server!Cardinality(S) = Cardinality(S)
  BY DEF Server!Cardinality, Cardinality

\* A thread, or the caller that gets one, moves the record of one live session.
Serves(i) ==
  /\ UNCHANGED <<main, status, stop, event, sink, logged, failures, accepted, handler, host>>
  /\ session[i].at \notin {"none", "joined", "done"}
  /\ \E r \in Records :
       /\ Whole(r) /\ session' = [session EXCEPT ![i] = r]
       /\ r.at \notin {"none", "listening", "joined"}
       /\ session[i].at = "listening" => main = "accept"

\* A record that nothing has happened to yet is whole, wherever its thread is
\* not served.
LEMMA EmptyIsWhole ==
  ASSUME Server!ServerAssumption, NEW r \in Records, r.used = {}, r.ran = <<>>,
         r.at \in {"none", "listening", "closed", "done", "joined"},
         r.open => r.at = "listening"
  PROVE  Whole(r)
<1>1. IsFiniteSet({}) /\ Cardinality({}) = 0 BY FS_EmptySet, Zenon
<1>2. NonceCapacity \in Nat BY DEF Server!ServerAssumption
<1>3. Len(r.ran) = 0 OBVIOUS
<1> QED BY <1>1, <1>2, <1>3 DEF Whole

\* The records the accept loop and a session's end write.
LEMMA EmptyRecords ==
  ASSUME Server!ServerAssumption,
         NEW r \in {Server!NoSession, Server!Gone, [Server!NoSession EXCEPT !.at = "closed"],
                    [Server!NoSession EXCEPT !.at = "listening", !.open = TRUE],
                    [Server!NoSession EXCEPT !.at = "joined", !.open = FALSE]}
  PROVE  /\ r \in Records /\ Whole(r)
         /\ r.at \in {"none", "joined", "closed", "listening"}
         /\ r = Server!NoSession => r.at = "none"
         /\ r = Server!Gone => r.at = "joined"
<1>1. <<>> \in Seq(Nonces) OBVIOUS
<1>2. /\ r \in Records /\ r.used = {} /\ r.ran = <<>>
      /\ r.at \in {"none", "listening", "closed", "joined"}
      /\ r.open => r.at = "listening"
      /\ r = Server!NoSession => r.at = "none"
      /\ r = Server!Gone => r.at = "joined"
  <2>1. CASE r = Server!NoSession
    BY <2>1, <1>1 DEF Records, Where, Server!NoSession, Server!Gone, Server!Callers
  <2>2. CASE r = Server!Gone
    BY <2>2, <1>1 DEF Records, Where, Server!NoSession, Server!Gone, Server!Callers
  <2>3. CASE r = [Server!NoSession EXCEPT !.at = "closed"]
    BY <2>3, <1>1 DEF Records, Where, Server!NoSession, Server!Gone, Server!Callers
  <2>4. CASE r = [Server!NoSession EXCEPT !.at = "listening", !.open = TRUE]
    BY <2>4, <1>1 DEF Records, Where, Server!NoSession, Server!Gone, Server!Callers
  <2>5. CASE r = [Server!NoSession EXCEPT !.at = "joined", !.open = FALSE]
    BY <2>5, <1>1 DEF Records, Where, Server!NoSession, Server!Gone, Server!Callers
  <2> QED BY <2>1, <2>2, <2>3, <2>4, <2>5
<1> QED BY <1>2, EmptyIsWhole

\* Every step of a session, and the one that gives a caller its thread, is such
\* a move: a nonce is spent before its command runs (ProcessClient).
LEMMA SessionMoves ==
  ASSUME Server!ServerAssumption, SInv, NEW i \in Server!Conns,
         Server!SessionStep(i) \/ Server!ConnectClient(i)
  PROVE  Serves(i)
<1> DEFINE s == session[i]
<1>w. Whole(s) /\ s \in Records BY DEF SInv, SessionsWhole, Whole
<1>r. s = [at |-> s.at, open |-> s.open, caller |-> s.caller, offer |-> s.offer,
           used |-> s.used, ran |-> s.ran]
  BY <1>w DEF Records
<1>f. session = [j \in Server!Conns |-> session[j]] BY DEF SInv, SessionsWhole
<1>a. ASSUME NEW where \in Where, Server!At(i, where)
      PROVE  session' = [session EXCEPT ![i] = [s EXCEPT !.at = where]]
  BY <1>a, <1>f DEF Server!At
<1>1. CASE Server!ConnectClient(i)
  <2>1. Whole([s EXCEPT !.at = "hello"])
    BY <1>w, <1>1 DEF Whole, Records, Where, Server!ConnectClient
  <2> QED BY <1>1, <2>1, <1>a, <1>w DEF Serves, Server!ConnectClient, Where, Records, Whole, Server!process
<1>2. ASSUME NEW offer \in Offers, NEW caller \in Server!Callers, NEW read \in Server!Transfers,
             Server!Hello(i, offer, caller, read)
      PROVE  Serves(i)
  <2> DEFINE r == IF read /\ Server!IsCallerAllowed(caller)
                  THEN [s EXCEPT !.at = "greet", !.offer = offer, !.caller = caller]
                  ELSE [s EXCEPT !.at = "close"]
  <2>0. s.at = "hello" /\ s.ran = <<>> /\ offer \subseteq Server!Capabilities
    BY <1>w, <1>2 DEF Whole, Server!Hello, Server!ServerAssumption
  <2>a. ASSUME read /\ Server!IsCallerAllowed(caller) PROVE Whole(r)
    <3>1. r = [s EXCEPT !.at = "greet", !.offer = offer, !.caller = caller] BY <2>a
    <3>2. /\ r \in Records /\ r.at = "greet" /\ r.caller = "owner" /\ r.ran = <<>>
          /\ r.used = s.used
      BY <3>1, <2>a, <2>0, <1>w DEF Records, Where, Server!IsCallerAllowed
    <3>3. Len(r.ran) = 0 BY <3>2
    <3>4. IsFiniteSet(s.used) /\ Cardinality(s.used) <= NonceCapacity BY <1>w, Zenon DEF Whole
    <3> HIDE DEF r, s
    <3> QED BY <3>2, <3>3, <3>4 DEF Whole
  <2>b. ASSUME ~(read /\ Server!IsCallerAllowed(caller)) PROVE Whole(r)
    <3>1. r = [s EXCEPT !.at = "close"] BY <2>b
    <3>2. r \in Records /\ r.at = "close" /\ r.ran = <<>> /\ r.used = s.used
      BY <3>1, <2>0, <1>w DEF Records, Where
    <3>3. Len(r.ran) = 0 BY <3>2
    <3>4. IsFiniteSet(s.used) /\ Cardinality(s.used) <= NonceCapacity BY <1>w, Zenon DEF Whole
    <3> HIDE DEF r, s
    <3> QED BY <3>2, <3>3, <3>4 DEF Whole
  <2>1. Whole(r) BY <2>a, <2>b, Zenon
  <2>2. r \in Records /\ r.at \in {"greet", "close"} BY <2>1, <1>w DEF Whole, Records
  <2>3. session' = [session EXCEPT ![i] = r] /\ s.at = "hello"
        /\ UNCHANGED <<main, status, stop, event, sink, logged, failures, accepted, handler, host>>
    BY <1>2 DEF Server!Hello, Server!Put, Server!process
  <2> HIDE DEF r
  <2> QED BY <2>1, <2>2, <2>3 DEF Serves
<1>3. ASSUME NEW c \in Asked, NEW nonce \in Nonces, Server!Receive(i, c, nonce)
      PROVE  Serves(i)
  <2> DEFINE entitled == Server!ServerRequires(c) \subseteq Server!Negotiated(s)
             r == [s EXCEPT !.used = s.used \cup {nonce},
                            !.at = IF entitled THEN "execute" ELSE "respond",
                            !.ran = IF entitled THEN Append(s.ran, nonce) ELSE s.ran]
  <2>1. session' = [session EXCEPT ![i] = r] /\ s.at = "read" /\ nonce \notin s.used
        /\ Cardinality(s.used) < NonceCapacity
        /\ UNCHANGED <<main, status, stop, event, sink, logged, failures, accepted, handler, host>>
    <3>1. session' = [session EXCEPT ![i] = r] BY <1>3, Zenon DEF Server!Receive, Server!Put, Server!Use
    <3>2. s.at = "read" /\ nonce \notin s.used /\ Cardinality(s.used) < NonceCapacity
      BY <1>3, Counts, Zenon DEF Server!Receive, Server!Fresh
    <3>3. UNCHANGED <<main, status, stop, event, sink, logged, failures, accepted, handler, host>>
      BY <1>3, Zenon DEF Server!Receive, Server!process
    <3> QED BY <3>1, <3>2, <3>3
  <2>2. IsFiniteSet(s.used \cup {nonce}) /\ Cardinality(s.used \cup {nonce}) <= NonceCapacity
    <3>1. IsFiniteSet(s.used) BY <1>w, Zenon DEF Whole
    <3>2. Cardinality(s.used) \in Nat BY <3>1, FS_CardinalityType
    <3>3. /\ IsFiniteSet(s.used \cup {nonce})
          /\ Cardinality(s.used \cup {nonce}) = Cardinality(s.used) + 1
      BY <3>1, <2>1, FS_AddElement, Zenon
    <3>4. NonceCapacity \in Nat BY DEF Server!ServerAssumption
    <3> QED BY <3>2, <3>3, <3>4, <2>1
  <2>3. r \in Records /\ r.at \in {"execute", "respond"}
    <3>1. s.ran \in Seq(Nonces) BY <1>w DEF Records
    <3>2. Append(s.ran, nonce) \in Seq(Nonces) BY <3>1
    <3> QED BY <3>1, <3>2, <1>w, <2>1 DEF Records, Where
  <2>4. /\ r.used = s.used \cup {nonce} /\ r.caller = s.caller /\ r.offer = s.offer
        /\ r.open = s.open /\ r.ran = IF entitled THEN Append(s.ran, nonce) ELSE s.ran
    BY <1>w DEF Records
  <2>5. s.ran \in Seq(Nonces) /\ s.used \subseteq Nonces BY <1>w DEF Records
  <2>6. /\ \A a \in 1..Len(r.ran) : r.ran[a] \in r.used
        /\ \A a, b \in 1..Len(r.ran) : a # b => r.ran[a] # r.ran[b]
    <3>1. CASE ~entitled BY <3>1, <2>4, <1>w DEF Whole
    <3>2. CASE entitled
      <4>1. r.ran = Append(s.ran, nonce) /\ Len(r.ran) = Len(s.ran) + 1 /\ Len(s.ran) \in Nat
        BY <3>2, <2>4, <2>5
      <4>2. \A a \in 1..Len(r.ran) : r.ran[a] = IF a = Len(s.ran) + 1 THEN nonce ELSE s.ran[a]
        BY <4>1, <2>5
      <4>3. /\ \A a \in 1..Len(s.ran) : s.ran[a] \in s.used
            /\ \A a, b \in 1..Len(s.ran) : a # b => s.ran[a] # s.ran[b]
        BY <1>w DEF Whole
      <4> HIDE DEF r, s, entitled
      <4> QED BY <4>1, <4>2, <4>3, <2>1, <2>4
    <3> QED BY <3>1, <3>2
  <2>7. s.caller = "owner" /\ Server!Compatible(s.offer) BY <1>w, <2>1 DEF Whole
  <2> HIDE DEF r, s, entitled
  <2>8. Whole(r) BY <2>2, <2>3, <2>4, <2>6, <2>7 DEF Whole
  <2> QED BY <2>1, <2>3, <2>8 DEF Serves, s
<1>4. CASE Server!Close(i)
  <2> DEFINE r == [Server!NoSession EXCEPT !.at = "closed"]
  <2>1. r \in Records /\ Whole(r) BY EmptyRecords
  <2>2. r.at = "closed" BY DEF Server!NoSession
  <2>3. session' = [session EXCEPT ![i] = r] /\ s.at = "close"
        /\ UNCHANGED <<main, status, stop, event, sink, logged, failures, accepted, handler, host>>
    BY <1>4 DEF Server!Close, Server!Put, Server!process
  <2> HIDE DEF r
  <2> QED BY <2>1, <2>2, <2>3 DEF Serves
<1>5. CASE \/ \E answered \in Server!Transfers :
                Server!Greet(i, answered) \/ Server!Respond(i, answered)
           \/ Server!Linger(i) \/ Server!Loop(i) \/ Server!ReadEnds(i) \/ Server!Refuse(i)
           \/ Server!ExecuteReturns(i) \/ Server!Done(i)
  <2>1. PICK where \in {"loop", "read", "respond", "linger", "close", "done"} :
          /\ session' = [session EXCEPT ![i].at = where]
          /\ where = "done" => s.at = "closed"
          /\ where = "linger" => s.at = "greet"
          /\ where = "loop" => (s.at = "greet" /\ Server!Compatible(s.offer)) \/ s.at = "respond"
          /\ where = "read" => s.at = "loop"
          /\ where = "respond" => s.at \in {"read", "execute"}
          /\ s.at \notin {"none", "joined", "done", "listening"}
          /\ where = "close" => s.at \notin {"none", "closed", "done", "joined"}
    BY <1>5 DEF Server!At, Server!Greet, Server!Respond, Server!Linger, Server!Loop, Server!ReadEnds,
       Server!Refuse, Server!ExecuteReturns, Server!Done
  <2> DEFINE r == [s EXCEPT !.at = where]
  <2>2. session' = [session EXCEPT ![i] = r] BY <2>1, <1>f
  <2>3. r \in Records /\ r.at = where /\ r.open = s.open /\ r.caller = s.caller /\ r.offer = s.offer
        /\ r.used = s.used /\ r.ran = s.ran
    BY <1>w DEF Records, Where
  <2>4. UNCHANGED <<main, status, stop, event, sink, logged, failures, accepted, handler, host>>
    BY <1>5 DEF Server!Greet, Server!Respond, Server!Linger, Server!Loop, Server!ReadEnds,
       Server!Refuse, Server!ExecuteReturns, Server!Done, Server!process
  <2> HIDE DEF r
  <2>5. Whole(r) BY <2>1, <2>3, <1>w DEF Whole
  <2> QED BY <2>1, <2>2, <2>3, <2>4, <2>5 DEF Serves
<1> QED BY <1>1, <1>2, <1>3, <1>4, <1>5 DEF Server!SessionStep

\* Threads are joined, or an instance nobody opened is closed.
Drops ==
  /\ session' = [i \in Server!Conns |-> session'[i]]
  /\ \A i \in Server!Conns :
       Whole(session'[i]) /\ (session'[i].at = "joined" \/ session'[i] = session[i])

\* What the accept loop takes out of its table is whole, and gone.
LEMMA LoopDrops ==
  ASSUME Server!ServerAssumption, SInv,
         \/ Server!Reap \/ Server!MainShutsDown \/ Server!AcceptFails
         \/ \E i \in Server!Conns : Server!ConnectStops(i)
  PROVE  Drops
<1>w. \A i \in Server!Conns : Whole(session[i]) BY DEF SInv, SessionsWhole
<1>f. session = [j \in Server!Conns |-> session[j]] BY DEF SInv, SessionsWhole
<1>g. Whole(Server!Gone) /\ Server!Gone.at = "joined" BY EmptyRecords
<1>j. ASSUME NEW i \in Server!Conns, session[i].at = "done"
      PROVE  Whole(Server!Joined(i)) /\ Server!Joined(i).at = "joined"
  <2>1. session[i].open = FALSE BY <1>w, <1>j DEF Whole, Records
  <2>2. Server!Joined(i) = [Server!NoSession EXCEPT !.at = "joined", !.open = FALSE]
    BY <2>1, Zenon DEF Server!Joined
  <2>3. Server!Joined(i).at = "joined" BY <2>2 DEF Server!NoSession
  <2> QED BY <2>2, <2>3, EmptyRecords
<1>1. CASE Server!Reap
  <2>1. session' = [i \in Server!Conns |->
                      IF session[i].at = "done" THEN Server!Joined(i) ELSE session[i]]
    BY <1>1 DEF Server!Reap
  <2> QED BY <2>1, <1>w, <1>j DEF Drops
<1>2. CASE Server!MainShutsDown
  <2>1. /\ session' = [i \in Server!Conns |->
                         IF i \in Server!Clients THEN Server!Joined(i) ELSE session[i]]
        /\ \A i \in Server!Clients : session[i].at = "done"
    BY <1>2 DEF Server!MainShutsDown
  <2> QED BY <2>1, <1>w, <1>j DEF Drops
<1>3. CASE Server!AcceptFails
  <2>1. session' = [i \in Server!Conns |->
                      IF i \in Server!Listening THEN Server!Gone ELSE session[i]]
    BY <1>3 DEF Server!AcceptFails
  <2> QED BY <2>1, <1>w, <1>g DEF Drops
<1>4. ASSUME NEW i \in Server!Conns, Server!ConnectStops(i) PROVE Drops
  <2>1. session' = [session EXCEPT ![i] = Server!Gone] BY <1>4 DEF Server!ConnectStops, Server!Put
  <2> HIDE DEF Whole
  <2>2. session' = [j \in Server!Conns |-> IF j = i THEN Server!Gone ELSE session[j]]
    BY <2>1, <1>f
  <2> QED BY <2>2, <1>w, <1>g DEF Drops
<1> QED BY <1>1, <1>2, <1>3, <1>4

\* A new instance takes a number of its own.
LEMMA LoopCreates ==
  ASSUME Server!ServerAssumption, SInv, Server!CreatePipe
  PROVE  /\ accepted + 1 \in Server!Conns
         /\ \E r \in Records : Whole(r) /\ r.at = "listening"
                               /\ session' = [session EXCEPT ![accepted + 1] = r]
<1> DEFINE r == [Server!NoSession EXCEPT !.at = "listening", !.open = TRUE]
<1>1. accepted + 1 \in Server!Conns
  BY DEF Server!CreatePipe, SInv, ProcessFits, Server!ServerAssumption, Server!Conns
<1>2. r \in Records /\ Whole(r) BY EmptyRecords
<1>3. r.at = "listening" BY DEF Server!NoSession
<1>4. session' = [session EXCEPT ![accepted + 1] = r] BY DEF Server!CreatePipe, Server!Put
<1> HIDE DEF r
<1> QED BY <1>1, <1>2, <1>3, <1>4

\* Every other step leaves the sessions alone.
Elsewhere ==
  \/ \E opened, ok \in BOOLEAN : Server!MainStarts(opened, ok)
  \/ Server!MainAbandons \/ Server!MainRuns
  \/ \E secured \in BOOLEAN : Server!MainRecovers(secured)
  \/ Server!LeaveLoop \/ Server!MainCloses \/ Server!MainResets \/ Server!MainReports
  \/ Server!HandlerStep \/ \E c \in {"stop", "power"} : Server!Control(c)

LEMMA ServerKinds ==
  ASSUME Server!ServerAssumption, SInv, [Server!Next]_Server!vars
  PROVE  \/ \E i \in Server!Conns : Serves(i)
         \/ Server!Reap \/ Server!MainShutsDown \/ Server!AcceptFails
         \/ \E i \in Server!Conns : Server!ConnectStops(i)
         \/ Server!CreatePipe \/ Elsewhere \/ UNCHANGED Server!vars
  BY SessionMoves DEF Server!Next, Server!MainStep, Server!Ended, Server!Waits, Elsewhere

LEMMA ElsewhereKeeps == ASSUME Elsewhere PROVE UNCHANGED session
  BY DEF Elsewhere, Server!MainStarts, Server!MainAbandons, Server!MainRuns, Server!MainRecovers,
     Server!LeaveLoop, Server!MainCloses, Server!MainResets, Server!MainReports,
     Server!HandlerStep, Server!HandlerRecords, Server!HandlerDecides, Server!HandlerReports,
     Server!HandlerSets, Server!Control

LEMMA WholeKept ==
  ASSUME Server!ServerAssumption, SInv, [Server!Next]_Server!vars
  PROVE  SessionsWhole'
<1>f. /\ session = [j \in Server!Conns |-> session[j]]
      /\ \A i \in Server!Conns : Whole(session[i])
  BY DEF SInv, SessionsWhole
<1>m. ASSUME NEW i \in Server!Conns, NEW r, Whole(r), session' = [session EXCEPT ![i] = r]
      PROVE  SessionsWhole'
  <2>1. session' = [j \in Server!Conns |-> IF j = i THEN r ELSE session[j]] BY <1>m, <1>f
  <2>2. \A j \in Server!Conns : Whole(session'[j]) BY <2>1, <1>m, <1>f
  <2>3. DOMAIN session' = Server!Conns /\ session' = [j \in Server!Conns |-> session'[j]]
    BY <2>1
  <2> QED BY <2>2, <2>3 DEF SessionsWhole, Whole, Records, Server!Compatible, Server!Conns
<1>1. CASE \E i \in Server!Conns : Serves(i) BY <1>1, <1>m DEF Serves
<1>2. CASE Server!CreatePipe BY <1>2, <1>m, LoopCreates
<1>3. CASE Drops
  <2>1. DOMAIN session' = Server!Conns BY <1>3 DEF Drops
  <2> QED BY <1>3, <2>1 DEF Drops, SessionsWhole, Whole, Records, Server!Compatible, Server!Conns
<1>4. CASE UNCHANGED session
  BY <1>4, <1>f DEF SInv, SessionsWhole, Whole, Records, Server!Compatible, Server!Conns
<1> QED BY <1>1, <1>2, <1>3, <1>4, ServerKinds, LoopDrops, ElsewhereKeeps DEF Server!vars

LEMMA FitKept ==
  ASSUME Server!ServerAssumption, SInv, [Server!Next]_Server!vars
  PROVE  ThreadsFit'
<1>f. session = [j \in Server!Conns |-> session[j]] BY DEF SInv, SessionsWhole
<1>n. MaximumClients \in Nat /\ MaxConnections \in Nat BY DEF Server!ServerAssumption
<1>i. IsFiniteSet(Server!Conns) BY <1>n, FS_Interval DEF Server!Conns
<1>t. IsFiniteSet(Threads) /\ Cardinality(Threads) \in Nat
  <2>1. Threads \in SUBSET Server!Conns BY DEF Threads
  <2>2. IsFiniteSet(Threads) BY <2>1, <1>i, FS_Subset, Zenon
  <2> QED BY <2>2, FS_CardinalityType
<1>s. ASSUME Threads' \subseteq Threads PROVE ThreadsFit'
  <2>1. Cardinality(Threads') <= Cardinality(Threads) /\ Cardinality(Threads') \in Nat
    <3>1. Threads' \in SUBSET Threads BY <1>s
    <3>2. IsFiniteSet(Threads') /\ Cardinality(Threads') <= Cardinality(Threads)
      BY <3>1, <1>t, FS_Subset, Zenon
    <3> QED BY <3>2, FS_CardinalityType
  <2>2. Cardinality(Threads) <= MaximumClients BY DEF SInv, ThreadsFit
  <2>3. Cardinality(Threads') <= MaximumClients BY <2>1, <2>2, <1>t, <1>n
  <2> QED BY <2>3 DEF ThreadsFit
<1>1. ASSUME NEW i \in Server!Conns, Serves(i) PROVE ThreadsFit'
  <2>1. Threads' \subseteq Threads BY <1>1, <1>f DEF Serves, Threads, Server!Conns
  <2> QED BY <2>1, <1>s
<1>2. CASE Server!CreatePipe
  <2>1. PICK r \in Records : r.at = "listening" /\ session' = [session EXCEPT ![accepted + 1] = r]
    BY <1>2, LoopCreates
  <2>2. /\ Server!Listening = {} /\ Cardinality(Server!Clients) < MaximumClients
    BY <1>2, Counts, Zenon DEF Server!CreatePipe
  <2>3. Threads = Server!Clients
    BY <2>2 DEF Threads, Server!Clients, Server!Listening
  <2>4. Threads' \subseteq Threads \cup {accepted + 1}
    BY <2>1, <1>f DEF Threads, Server!Conns
  <2>5. /\ IsFiniteSet(Threads \cup {accepted + 1})
        /\ Cardinality(Threads \cup {accepted + 1}) \in Nat
        /\ Cardinality(Threads \cup {accepted + 1}) <= Cardinality(Threads) + 1
    <3>1. /\ IsFiniteSet(Threads \cup {accepted + 1})
          /\ Cardinality(Threads \cup {accepted + 1})
             = IF accepted + 1 \in Threads THEN Cardinality(Threads) ELSE Cardinality(Threads) + 1
      BY <1>t, FS_AddElement, Zenon
    <3> QED BY <3>1, <1>t
  <2>6. /\ Cardinality(Threads') <= Cardinality(Threads \cup {accepted + 1})
        /\ Cardinality(Threads') \in Nat
    <3>1. Threads' \in SUBSET (Threads \cup {accepted + 1}) BY <2>4
    <3>2. IsFiniteSet(Threads') /\ Cardinality(Threads') <= Cardinality(Threads \cup {accepted + 1})
      BY <3>1, <2>5, FS_Subset, Zenon
    <3> QED BY <3>2, FS_CardinalityType
  <2>7. Cardinality(Threads) < MaximumClients BY <2>2, <2>3
  <2>8. Cardinality(Threads') <= MaximumClients BY <2>5, <2>6, <2>7, <1>t, <1>n
  <2> QED BY <2>8 DEF ThreadsFit
<1>3. CASE Drops
  <2>1. Threads' \subseteq Threads BY <1>3 DEF Drops, Threads, Server!Conns
  <2> QED BY <2>1, <1>s
<1>4. CASE UNCHANGED session
  <2>1. Threads' = Threads BY <1>4 DEF Threads, Server!Conns
  <2> QED BY <2>1, <1>s
<1> QED BY <1>1, <1>2, <1>3, <1>4, ServerKinds, LoopDrops, ElsewhereKeeps DEF Server!vars

LEMMA EndKept ==
  ASSUME Server!ServerAssumption, SInv, [Server!Next]_Server!vars
  PROVE  SessionsEnd'
<1>e. SessionsEnd /\ main \in {"start", "announce", "abandoned", "recover", "accept", "join",
                               "close", "reset", "report", "ended"}
  BY DEF SInv, ProcessFits
<1>f. session = [j \in Server!Conns |-> session[j]] BY DEF SInv, SessionsWhole
<1>1. ASSUME NEW i \in Server!Conns, Serves(i) PROVE SessionsEnd'
  <2>1. PICK r \in Records : session' = [session EXCEPT ![i] = r] /\ r.at # "listening"
    BY <1>1 DEF Serves
  <2>2. \A j \in Server!Conns : session'[j] = IF j = i THEN r ELSE session[j] BY <2>1, <1>f
  <2>3. UNCHANGED <<main, host>> /\ session[i].at \notin {"none", "joined"} BY <1>1 DEF Serves
  <2> QED BY <1>e, <2>1, <2>2, <2>3 DEF SessionsEnd, Server!Conns
<1>2. CASE Server!CreatePipe
  <2>1. main = "accept" /\ UNCHANGED <<main, host>> BY <1>2 DEF Server!CreatePipe
  <2> QED BY <1>e, <2>1 DEF SessionsEnd
<1>3. CASE Server!Reap \/ Server!AcceptFails \/ \E i \in Server!Conns : Server!ConnectStops(i)
  <2>1. main = "accept" /\ UNCHANGED <<main, host>>
    BY <1>3 DEF Server!Reap, Server!AcceptFails, Server!ConnectStops, Server!process
  <2> QED BY <1>e, <2>1 DEF SessionsEnd
<1>4. CASE Server!MainShutsDown
  <2>1. main = "join" /\ main' = "close" BY <1>4 DEF Server!MainShutsDown
  <2>2. \A i \in Server!Conns :
          session'[i] = IF i \in Server!Clients THEN Server!Joined(i) ELSE session[i]
    BY <1>4 DEF Server!MainShutsDown
  <2>3. \A i \in Server!Conns : i \notin Server!Clients => session'[i].at \in {"none", "joined"}
    BY <2>1, <2>2, <1>e DEF SessionsEnd, Server!Clients
  <2>4. \A i \in Server!Conns : i \in Server!Clients => session'[i].at = "joined"
    BY <2>2 DEF Server!Joined, Server!NoSession
  <2> QED BY <2>1, <2>3, <2>4 DEF SessionsEnd, Server!Conns
<1>5. CASE Elsewhere
  <2>1. UNCHANGED session BY <1>5, ElsewhereKeeps
  <2>2. CASE Server!LeaveLoop
    <3>1. main' = "join" /\ host' = host /\ main = "accept" /\ Server!Listening = {}
      BY <2>2 DEF Server!LeaveLoop
    <3> QED BY <3>1, <2>1, <1>e DEF SessionsEnd, Server!Listening, Server!Conns
  <2>3. CASE ~Server!LeaveLoop
    <3>1. /\ main' = "join" => main = "join"
          /\ host' = "shutdown" => host = "shutdown" /\ main' \in {"close", "reset", "report", "ended"}
      BY <1>5, <2>3, <1>e DEF SessionsEnd, Elsewhere, Server!MainStarts, Server!MainAbandons,
         Server!MainRuns, Server!MainRecovers, Server!MainCloses, Server!MainResets,
         Server!MainReports, Server!HandlerStep, Server!HandlerRecords, Server!HandlerDecides,
         Server!HandlerReports, Server!HandlerSets, Server!Control
    <3> QED BY <3>1, <2>1, <1>e DEF SessionsEnd, Server!Conns
  <2> QED BY <2>2, <2>3
<1>6. CASE UNCHANGED Server!vars BY <1>6, <1>e DEF Server!vars, SessionsEnd, Server!Conns
<1> QED BY <1>1, <1>2, <1>3, <1>4, <1>5, <1>6, ServerKinds

LEMMA ProcessKept ==
  ASSUME Server!ServerAssumption, SInv, [Server!Next]_Server!vars
  PROVE  ProcessFits' /\ StopIsOrdered'
<1>p. ProcessFits /\ StopIsOrdered BY DEF SInv
<1>n. MaxFailures \in Nat /\ MaxConnections \in Nat BY DEF Server!ServerAssumption
<1>h. handler.at \in {"idle", "record", "decide", "report", "set"}
      /\ (handler.at = "idle" => handler = Server!Idle)
  BY <1>p DEF ProcessFits, Server!Idle
<1>i. Server!Idle.at = "idle" BY DEF Server!Idle
<1> USE <1>n DEF ProcessFits, StopIsOrdered
<1>1. ASSUME NEW i \in Server!Conns, Serves(i) PROVE ProcessFits' /\ StopIsOrdered'
  BY <1>1, <1>p DEF Serves, Server!Idle
<1>2. CASE \/ Server!CreatePipe \/ Server!Reap \/ \E i \in Server!Conns : Server!ConnectStops(i)
  BY <1>2, <1>p DEF Server!CreatePipe, Server!Reap, Server!ConnectStops, Server!process, Server!Idle
<1>3. CASE Server!AcceptFails BY <1>3, <1>p DEF Server!AcceptFails, Server!Idle
<1>4. CASE Server!MainShutsDown BY <1>4, <1>p DEF Server!MainShutsDown, Server!Idle
<1>5. ASSUME NEW opened \in BOOLEAN, NEW ok \in BOOLEAN, Server!MainStarts(opened, ok)
      PROVE  ProcessFits' /\ StopIsOrdered'
  BY <1>5, <1>p DEF Server!MainStarts, Server!Idle
<1>6. CASE Server!MainAbandons
  <2>1. /\ main' = "ended" /\ status' = "stopped" /\ logged' = FALSE /\ sink = FALSE
        /\ handler = Server!Idle
        /\ UNCHANGED <<stop, event, sink, failures, accepted, handler, host>> /\ stop = FALSE
    BY <1>6, <1>p DEF Server!MainAbandons
  <2> QED BY <2>1, <1>p, <1>i
<1>7. CASE Server!MainRuns BY <1>7, <1>p DEF Server!MainRuns, Server!Idle
<1>8. ASSUME NEW secured \in BOOLEAN, Server!MainRecovers(secured)
      PROVE  ProcessFits' /\ StopIsOrdered'
  BY <1>8, <1>p DEF Server!MainRecovers, Server!Idle
<1>9. CASE Server!LeaveLoop BY <1>9, <1>p DEF Server!LeaveLoop, Server!Idle
<1>10. CASE Server!MainCloses BY <1>10, <1>p DEF Server!MainCloses, Server!Idle
<1>11. CASE Server!MainResets
  <2>1. /\ main = "reset" /\ main' = "report" /\ logged' = FALSE /\ sink = FALSE
        /\ UNCHANGED <<status, stop, event, sink, failures, accepted, handler, host>>
    BY <1>11, <1>p DEF Server!MainResets
  <2>2. failures = 0 => handler = Server!Idle BY <2>1, <1>p
  <2> QED BY <2>1, <2>2, <1>p, <1>i
<1>12. CASE Server!MainReports BY <1>12, <1>p DEF Server!MainReports, Server!Idle
<1>13. ASSUME NEW c \in {"stop", "power"}, Server!Control(c)
       PROVE  ProcessFits' /\ StopIsOrdered'
  BY <1>13, <1>p DEF Server!Control, Server!Idle
<1>14. CASE Server!HandlerRecords BY <1>14, <1>p, <1>h DEF Server!HandlerRecords, Server!Idle
<1>15. CASE Server!HandlerDecides BY <1>15, <1>p, <1>h DEF Server!HandlerDecides, Server!Idle
<1>16. CASE Server!HandlerReports BY <1>16, <1>p, <1>h DEF Server!HandlerReports, Server!Idle
<1>17. CASE Server!HandlerSets BY <1>17, <1>p, <1>h DEF Server!HandlerSets, Server!Idle
<1>18. CASE UNCHANGED Server!vars BY <1>18, <1>p DEF Server!vars, Server!Idle
<1> QED
  BY <1>1, <1>2, <1>3, <1>4, <1>5, <1>6, <1>7, <1>8, <1>9, <1>10, <1>11, <1>12, <1>13, <1>14,
     <1>15, <1>16, <1>17, <1>18, ServerKinds DEF Elsewhere, Server!HandlerStep

LEMMA ServerStarts == ASSUME Server!ServerAssumption, Server!Init PROVE SInv
<1>n. MaxFailures \in Nat /\ MaxConnections \in Nat /\ MaximumClients \in Nat
  BY DEF Server!ServerAssumption
<1>1. session = [i \in Server!Conns |-> Server!NoSession] BY DEF Server!Init
<1>2. Whole(Server!NoSession) /\ Server!NoSession.at = "none" BY EmptyRecords
<1>3. SessionsWhole BY <1>1, <1>2 DEF SessionsWhole
<1>4. Threads = {} BY <1>1, <1>2 DEF Threads
<1>5. ThreadsFit BY <1>4, <1>n, FS_EmptySet DEF ThreadsFit
<1>6. SessionsEnd BY <1>1, <1>2 DEF SessionsEnd, Server!Init
<1>7. ProcessFits
  <2>1. 0 \in 0..MaxFailures /\ 0 \in 0..MaxConnections BY <1>n
  <2> QED BY <2>1, Zenon DEF ProcessFits, Server!Init
<1>8. StopIsOrdered
  <2>1. Server!Idle.at = "idle" BY DEF Server!Idle
  <2> QED BY <2>1 DEF StopIsOrdered, Server!Init
<1> QED BY <1>3, <1>5, <1>6, <1>7, <1>8 DEF SInv

\* What the inductive invariant says of the properties that the run checks.
LEMMA ServerInvariant == ASSUME Server!ServerAssumption, SInv PROVE Server!ServesInOrder
<1>w. \A i \in Server!Conns : Whole(session[i]) BY DEF SInv, SessionsWhole
<1>1. Server!TypeOK
  <2>1. \A i \in Server!Conns :
          /\ session[i] \in Records /\ Server!Cardinality(session[i].used) <= NonceCapacity
    BY <1>w, Counts DEF Whole
  <2>2. ProcessFits BY DEF SInv
  <2> QED BY <2>1, <2>2 DEF Server!TypeOK, ProcessFits, Records, Where
<1>2. Server!InstancesFit
  <2>1. Server!Instances \in SUBSET Threads
    BY <1>w DEF Server!Instances, Threads, Whole
  <2>2. MaxConnections \in Nat /\ MaximumClients \in Nat BY DEF Server!ServerAssumption
  <2>3. IsFiniteSet(Server!Conns) BY <2>2, FS_Interval DEF Server!Conns
  <2>4. Threads \in SUBSET Server!Conns BY DEF Threads
  <2>5. IsFiniteSet(Threads) BY <2>3, <2>4, FS_Subset, Zenon
  <2>6. IsFiniteSet(Server!Instances) /\ Cardinality(Server!Instances) <= Cardinality(Threads)
    BY <2>1, <2>5, FS_Subset, Zenon
  <2>7. Cardinality(Threads) \in Nat /\ Cardinality(Server!Instances) \in Nat
    BY <2>5, <2>6, FS_CardinalityType
  <2>8. Cardinality(Threads) <= MaximumClients BY DEF SInv, ThreadsFit
  <2>9. Cardinality(Server!Instances) <= MaximumClients BY <2>2, <2>6, <2>7, <2>8
  <2>10. Server!Cardinality(Server!Instances) = Cardinality(Server!Instances) BY Counts
  <2> QED BY <2>9, <2>10 DEF Server!InstancesFit
<1>3. Server!NonceRunsOnce BY <1>w DEF Server!NonceRunsOnce, Whole, Server!Compatible
<1>4. Server!NoCommandAfterShutdown BY DEF SInv, SessionsEnd, Server!NoCommandAfterShutdown
<1>5. Server!HandlerFindsJournal BY DEF SInv, StopIsOrdered, Server!HandlerFindsJournal
<1> QED BY <1>1, <1>2, <1>3, <1>4, <1>5 DEF Server!ServesInOrder

\* The threads of the service never use what another of them has taken away, for
\* any number of clients, connections, nonces and failures, any peers and any
\* commands: the pipe never has more instances than it may (ServeClients), a
\* nonce runs once and for a known caller (ProcessClient), the runtime host is
\* shut down when no session can call it (RunPipeServer), and the control handler
\* finds the journal it looked for (ServiceMain).
THEOREM ServerInOrder == ASSUME Server!ServerAssumption PROVE Server!Spec => []ServesInOrder
<1>1. Server!Init => SInv BY ServerStarts
<1>2. SInv /\ [Server!Next]_Server!vars => SInv'
  BY WholeKept, FitKept, EndKept, ProcessKept DEF SInv
<1>3. SInv => ServesInOrder BY ServerInvariant DEF ServesInOrder
<1> QED BY <1>1, <1>2, <1>3, PTL DEF Server!Spec

-----------------------------------------------------------------------------
(* A call of the client *)

ClientTypes ==
  /\ kind \in {"connect", "bound", "probe"} /\ kind \in Kinds
  /\ owned \in BOOLEAN /\ finished \in BOOLEAN /\ tried \in BOOLEAN
  /\ call \in {"begin", "open", "trust", "hello", "limit", "publish", "write", "wait", "done",
               "failed", "strange", "lost", "cancel", "returned"}
  /\ control \in [cancel : BOOLEAN, abandon : BOOLEAN, completed : BOOLEAN, target : BOOLEAN]
  /\ companion \in [at : {"none", "look", "flag", "ended"}, done : BOOLEAN]
  /\ outcome \in {"none", "unsent", "withdrawn", "lost", "failed", "accepted"}
  /\ receipt \in {"none", "unsettled", "stopped"}
  /\ request \in {"none", "sent", "read", "dropped"}
  /\ op \in [at : {"unseen", "running", "up", "ended"}, interrupted : BOOLEAN]
  /\ reply \in {"none", "done", "failed"}

Before == {"begin", "open", "trust", "hello", "limit", "publish"}

\* Nothing is on its way before the write, and what is unsent or withdrawn never
\* will be; the operation is the one of a request that was read.
SentIsKnown ==
  /\ call \in Before \cup {"write"} => request = "none" /\ companion.at = "none" /\ ~finished
  /\ outcome \in {"unsent", "withdrawn"} => request = "none"
  /\ request # "read" <=> op.at = "unseen"
  /\ op.at \in {"unseen", "running"} => reply = "none"
  /\ kind = "probe" => op.at # "up"
  /\ call \in {"done", "failed", "strange"} => reply # "none"

\* A bound call publishes its target before it writes.
TargetIsPublished ==
  kind = "bound" => /\ owned
                    /\ request # "none" \/ call \notin Before \cup {"returned"} => control.target

ReturnIsMarked ==
  /\ call = "returned" <=> control.completed
  /\ call = "returned" <=> outcome # "none"
  /\ receipt = "stopped" => control.completed /\ kind = "bound"

\* The companion runs while an owned call waits, and learns that it is over only
\* after the flag of a lost one was raised: so it has sent the cancellation.
CompanionKnows ==
  /\ owned /\ call \in {"wait", "done", "failed", "strange", "lost"} => companion.at # "none"
  /\ companion.at # "none" => owned
  /\ call = "wait" => ~finished
  /\ companion.done => finished
  /\ owned /\ call = "lost" => control.cancel
  /\ companion.at = "ended" /\ call \in {"wait", "lost"} => tried

CInv ==
  /\ ClientTypes /\ SentIsKnown /\ TargetIsPublished /\ ReturnIsMarked /\ CompanionKnows
  /\ CompanionJoined /\ LostIsCancelled /\ StoppedStaysStopped

\* A cancellation that is heard, or not, leaves the operation where it is.
LEMMA InterruptKeeps ==
  ASSUME CInv, Interrupt \/ UNCHANGED op
  PROVE  /\ op'.at = op.at
         /\ op' \in [at : {"unseen", "running", "up", "ended"}, interrupted : BOOLEAN]
  BY DEF CInv, ClientTypes, Interrupt

\* Every step of the call, of its companion, of its owner and of the service.
LEMMA ClientStep == ASSUME CInv, [Next]_vars PROVE CInv'
<1> USE DEF CInv, ClientTypes, Before, SentIsKnown, TargetIsPublished, ReturnIsMarked,
      CompanionKnows, CompanionJoined, LostIsCancelled,
      StoppedStaysStopped, client, service, Return, Unsent,
      Cancelled, Abandoned, Lost
<1>1. CASE Begin BY <1>1 DEF Begin
<1>2. ASSUME NEW here \in Before, NEW there \in Before, NEW ok \in BOOLEAN,
             Step(here, there, ok)
      PROVE  CInv'
  <2>1. CASE ok
    <3>1. /\ call = here /\ call' = there
          /\ UNCHANGED <<kind, owned, control, finished, companion, tried, outcome, receipt, request, op, reply>>
      BY <1>2, <2>1 DEF Step
    <3> QED BY <3>1
  <2>2. CASE ~ok
    <3>1. /\ call = here /\ call' = "returned" /\ outcome' \in {"unsent", "withdrawn"}
          /\ control' = [control EXCEPT !.completed = TRUE]
          /\ UNCHANGED <<kind, owned, finished, companion, tried, receipt, request, op, reply>>
      BY <1>2, <2>2 DEF Step
    <3> QED BY <3>1
  <2> QED BY <2>1, <2>2
<1>3. ASSUME NEW ok \in BOOLEAN,
             \/ OpenNamedPipeClient(ok) \/ IsExpectedServer(ok)
             \/ Hello(ok) \/ BoundIpcWait(ok)
      PROVE  CInv'
  <2>1. \E here, there \in Before : Step(here, there, ok)
    BY <1>3 DEF OpenNamedPipeClient, IsExpectedServer, Hello, BoundIpcWait
  <2> HIDE DEF CInv
  <2> QED BY <2>1, <1>2, Zenon
<1>4. CASE Publish
  <2>1. /\ call = "publish" /\ call' \in {"write", "returned"}
        /\ control' \in [cancel : BOOLEAN, abandon : BOOLEAN, completed : BOOLEAN, target : BOOLEAN]
        /\ control'.cancel = control.cancel
        /\ call' = "returned" => control'.completed /\ outcome' \in {"unsent", "withdrawn"}
        /\ call' = "write" => /\ control'.completed = control.completed /\ outcome' = outcome
                              /\ control'.target = (kind = "bound")
    <3>1. CASE Cancelled
      <4>1. /\ call = "publish" /\ call' = "returned" /\ outcome' \in {"unsent", "withdrawn"}
            /\ control' = [control EXCEPT !.completed = TRUE]
        BY <1>4, <3>1 DEF Publish
      <4> QED BY <4>1
    <3>2. CASE ~Cancelled
      <4>1. /\ call = "publish" /\ call' = "write" /\ outcome' = outcome
            /\ control' = [control EXCEPT !.target = (kind = "bound")]
        BY <1>4, <3>2 DEF Publish
      <4>2. (kind = "bound") \in BOOLEAN OBVIOUS
      <4> QED BY <4>1, <4>2
    <3> QED BY <3>1, <3>2
  <2>2. UNCHANGED <<kind, owned, finished, companion, tried, receipt, request, op, reply>>
    BY <1>4 DEF Publish
  <2> QED BY <2>1, <2>2
<1>5. CASE Write BY <1>5 DEF Write
<1>6. ASSUME NEW got \in BOOLEAN, WriteFails(got) PROVE CInv' BY <1>6 DEF WriteFails
<1>7. ASSUME NEW strange \in BOOLEAN, Answered(strange) PROVE CInv'
  BY <1>7 DEF Answered
<1>8. CASE NoAnswer BY <1>8 DEF NoAnswer
<1>9. CASE Finish BY <1>9 DEF Finish
<1>10. ASSUME NEW intact \in BOOLEAN, Judge(intact) PROVE CInv'
  <2>0. /\ call \in {"done", "failed", "strange", "lost"} /\ finished
        /\ companion.at \in {"none", "ended"}
        /\ UNCHANGED <<kind, owned, finished, companion, tried, receipt, request, op, reply>>
    BY <1>10 DEF Judge, Verdict
  <2>1. CASE call' = "cancel" /\ UNCHANGED <<control, outcome>> BY <2>0, <2>1
  <2>2. ASSUME NEW what \in {"lost", "failed", "accepted"}, Return(what),
               what = "lost" => (call = "lost" /\ owned) \/ (kind = "probe" /\ call = "done")
        PROVE  CInv'
    <3>1. /\ call' = "returned" /\ outcome' = what /\ control'.completed = TRUE
          /\ control'.cancel = control.cancel /\ control'.target = control.target
          /\ control' \in [cancel : BOOLEAN, abandon : BOOLEAN, completed : BOOLEAN, target : BOOLEAN]
      BY <2>2
    <3>2. op.at \in {"unseen", "running", "up", "ended"} OBVIOUS
    <3>3. what = "lost" /\ request # "none" /\ (kind = "probe" => op.at # "ended") => tried
      BY <2>0, <2>2, <3>2
    <3> QED BY <2>0, <3>1, <3>3
  <2>3. \/ call' = "cancel" /\ UNCHANGED <<control, outcome>>
        \/ \E what \in {"lost", "failed", "accepted"} :
             /\ Return(what)
             /\ what = "lost" => (call = "lost" /\ owned) \/ (kind = "probe" /\ call = "done")
    <3> HIDE DEF Return
    <3> QED BY <1>10 DEF Judge, Verdict
  <2> HIDE DEF CInv
  <2> QED BY <2>1, <2>2, <2>3, Zenon
<1>11. ASSUME NEW heard \in BOOLEAN, CancelOnce(heard) PROVE CInv'
  <2>1. /\ op'.at = op.at
        /\ op' \in [at : {"unseen", "running", "up", "ended"}, interrupted : BOOLEAN]
    <3> HIDE DEF CInv
    <3> QED BY <1>11, InterruptKeeps, Zenon DEF CancelOnce
  <2>2. /\ call' = "returned" /\ outcome' = "lost" /\ control'.completed = TRUE
        /\ control'.cancel = control.cancel /\ control'.target = control.target
        /\ control' \in [cancel : BOOLEAN, abandon : BOOLEAN, completed : BOOLEAN, target : BOOLEAN]
    BY <1>11 DEF CancelOnce
  <2>3. /\ call = "cancel" /\ tried' = TRUE
        /\ UNCHANGED <<kind, owned, finished, companion, receipt, request, reply>>
    BY <1>11 DEF CancelOnce
  <2> QED BY <2>1, <2>2, <2>3
<1>12. CASE CompanionLooks BY <1>12 DEF CompanionLooks
<1>13. ASSUME NEW heard \in BOOLEAN, CompanionActs(heard) PROVE CInv'
  <2>1. /\ op'.at = op.at
        /\ op' \in [at : {"unseen", "running", "up", "ended"}, interrupted : BOOLEAN]
    <3> HIDE DEF CInv
    <3> QED BY <1>13, InterruptKeeps, Zenon DEF CompanionActs
  <2>2. /\ companion.at = "flag" /\ companion'.at \in {"ended", "look"}
        /\ companion'.done = companion.done /\ tried' \in BOOLEAN /\ (tried => tried')
        /\ companion' \in [at : {"none", "look", "flag", "ended"}, done : BOOLEAN]
        /\ companion'.at = "ended" => tried' \/ (~Cancelled /\ companion.done)
    BY <1>13 DEF CompanionActs
  <2>3. UNCHANGED <<kind, owned, call, control, finished, outcome, receipt, request, reply>>
    BY <1>13 DEF CompanionActs
  <2> QED BY <2>1, <2>2, <2>3
<1>14. CASE ServiceReads BY <1>14 DEF ServiceReads
<1>15. CASE RequestDropped BY <1>15 DEF RequestDropped
<1>16. CASE ServiceStops BY <1>16 DEF ServiceStops
<1>17. ASSUME NEW well \in BOOLEAN, ServiceEnds(well) PROVE CInv'
  <2>1. /\ op.at = "running" /\ op'.at \in {"up", "ended"} /\ (kind = "probe" => op'.at = "ended")
        /\ op' \in [at : {"unseen", "running", "up", "ended"}, interrupted : BOOLEAN]
        /\ reply' \in {"done", "failed"}
    BY <1>17 DEF ServiceEnds
  <2>2. UNCHANGED <<kind, owned, finished, companion, outcome, receipt, call, control, tried, request>>
    BY <1>17 DEF ServiceEnds
  <2> QED BY <2>1, <2>2
<1>18. ASSUME NEW b \in BOOLEAN, Wish(b) PROVE CInv'
  <2>1. /\ control'.cancel = TRUE /\ control'.completed = control.completed
        /\ control'.target = control.target
        /\ control' \in [cancel : BOOLEAN, abandon : BOOLEAN, completed : BOOLEAN, target : BOOLEAN]
    BY <1>18 DEF Wish
  <2>2. UNCHANGED <<kind, owned, finished, companion, outcome, receipt, call, tried, request, op, reply>>
    BY <1>18 DEF Wish
  <2> QED BY <2>1, <2>2
<1>19. ASSUME NEW b \in BOOLEAN, ExactCancel(b) PROVE CInv'
  <2>1. /\ op'.at = op.at
        /\ op' \in [at : {"unseen", "running", "up", "ended"}, interrupted : BOOLEAN]
    <3> HIDE DEF CInv
    <3> QED BY <1>19, InterruptKeeps, Zenon DEF ExactCancel
  <2>2. /\ control'.cancel = TRUE /\ control'.completed = control.completed
        /\ control'.target = control.target
        /\ control' \in [cancel : BOOLEAN, abandon : BOOLEAN, completed : BOOLEAN, target : BOOLEAN]
    BY <1>19 DEF ExactCancel
  <2>3. /\ tried' \in BOOLEAN /\ (tried => tried')
        /\ UNCHANGED <<kind, owned, finished, companion, outcome, receipt, call, request, reply>>
    BY <1>19 DEF ExactCancel
  <2> QED BY <2>1, <2>2, <2>3
<1>20. ASSUME NEW b \in BOOLEAN, ConfirmAnswered(b) PROVE CInv'
  <2>1. /\ kind = "bound" /\ control.completed /\ control'.cancel = TRUE
        /\ control'.completed = control.completed /\ control'.target = control.target
        /\ control' \in [cancel : BOOLEAN, abandon : BOOLEAN, completed : BOOLEAN, target : BOOLEAN]
    BY <1>20 DEF ConfirmAnswered
  <2>2. /\ op' \in [at : {"unseen", "running", "up", "ended"}, interrupted : BOOLEAN]
        /\ op'.at = op.at \/ (op.at \in {"running", "up"} /\ op'.at = "ended")
        /\ receipt' \in {"stopped", "unsettled"}
        /\ receipt' = "stopped" => op.at \in {"running", "up", "ended"} /\ op'.at = "ended"
    BY <1>20 DEF ConfirmAnswered, Active, Settled
  <2>3. /\ tried' = TRUE
        /\ UNCHANGED <<kind, owned, call, finished, companion, outcome, request, reply>>
    BY <1>20 DEF ConfirmAnswered
  <2> QED BY <2>1, <2>2, <2>3
<1>21. CASE ConfirmUnwritten
  <2>1. /\ kind = "bound" /\ control'.cancel = TRUE
        /\ control'.completed = control.completed /\ control'.target = control.target
        /\ control' \in [cancel : BOOLEAN, abandon : BOOLEAN, completed : BOOLEAN, target : BOOLEAN]
    BY <1>21 DEF ConfirmUnwritten
  <2>2. /\ receipt' \in {"stopped", "none"}
        /\ receipt' = "stopped" => control.completed /\ ~control.target
        /\ UNCHANGED <<kind, owned, call, finished, companion, tried, outcome, request, op, reply>>
    BY <1>21 DEF ConfirmUnwritten
  <2>3. receipt' = "stopped" => request = "none" /\ op.at = "unseen" BY <2>1, <2>2
  <2> QED BY <2>1, <2>2, <2>3
<1>22. CASE UNCHANGED vars BY <1>22 DEF vars
<1> QED
  BY <1>1, <1>3, <1>4, <1>5, <1>6, <1>7, <1>8, <1>9, <1>10, <1>11, <1>12, <1>13, <1>14, <1>15,
     <1>16, <1>17, <1>18, <1>19, <1>20, <1>21, <1>22, Zenon
     DEF Next, CallStep, CompanionStep, ServiceStep,
         OwnerStep, Rests

LEMMA ClientStarts == ASSUME KindsAssumption, Init PROVE CInv
  BY DEF KindsAssumption, Init, NewControl, NewOperation, CInv,
     ClientTypes, Before, SentIsKnown, TargetIsPublished, ReturnIsMarked, CompanionKnows,
     CompanionJoined, LostIsCancelled, StoppedStaysStopped

LEMMA ClientInvariant == ASSUME CInv PROVE NothingRunsUnseen
<1>1. TypeOK BY DEF CInv, ClientTypes, TypeOK
<1>2. WithdrawnNeverRuns BY DEF CInv, SentIsKnown, WithdrawnNeverRuns
<1>3. NoTargetNothingSent BY DEF CInv, TargetIsPublished, NoTargetNothingSent
<1> QED BY <1>1, <1>2, <1>3 DEF CInv, NothingRunsUnseen

\* Whatever is lost, cancelled or withdrawn between the call, its companion, the
\* owner and the service (Exchange, InvokeService, ConfirmStoppedConnect), no
\* operation goes on that its owner takes for ended.
THEOREM ClientSeesAll == ASSUME KindsAssumption PROVE Spec => []NothingRunsUnseen
<1>1. Init => CInv BY ClientStarts
<1>2. CInv /\ [Next]_vars => CInv' BY ClientStep
<1>3. CInv => NothingRunsUnseen BY ClientInvariant
<1> QED BY <1>1, <1>2, <1>3, PTL DEF Spec

-----------------------------------------------------------------------------
(* The event journal *)

Texts ==
  Events!Commands \cup {"event", "core", "none", "invalid", "local_dpi_child_failed",
                        "local_dpi_unavailable"}
\* A record as a thread forms it, and one that AppendLine accepts.
Formed == [n : Nat \ {0}, by : Producers, size : Nat \ {0}, numbered : BOOLEAN, text : Texts]
Lines == [n : Nat \ {0}, by : Producers, size : 1..MaxLine, numbered : BOOLEAN, text : Texts]
LogFiles == [size : 0..FileLimit, whole : Seq(Lines)]

JournalTypes ==
  /\ journal \in {"none", "open", "stopping"}
  /\ writer \in {"none", "waits", "rotates", "writes", "ended"}
  /\ formed \in 0..MaxEvents /\ faults \in 0..MaxFaults
  /\ held \in [Producers -> Formed \cup {Events!NoLine}]
  /\ queue \in Seq(Lines) /\ Len(queue) <= MaxPending
  /\ line \in Lines \cup {Events!NoLine}
  /\ log \in LogFiles /\ older \in LogFiles /\ written \in Seq(Lines)

\* The writer has a record while it rotates and writes, and has made room for it
\* before it writes; once it has ended nothing is queued.
WriterFits ==
  /\ (writer = "none") = (journal = "none")
  /\ writer \in {"rotates", "writes"} <=> line \in Lines
  /\ writer = "writes" => log.size + line.size <= FileLimit
  /\ writer = "ended" => journal = "stopping" /\ queue = <<>>

\* What was accepted was taken or waits.
GivenFits == given = passed \cup {queue[i].n : i \in 1..Len(queue)}

\* A thread's records pass from its hands through the queue and the writer into
\* the file one after the other.
Earlier(a, b) == a.by = b.by => a.n < b.n

NumbersFit ==
  /\ \A p \in Producers : held[p] \in Formed => held[p].by = p /\ held[p].n <= formed
  /\ \A i \in 1..Len(queue) : queue[i].n <= formed
  /\ line \in Lines => line.n <= formed
  /\ \A i \in 1..Len(written) : written[i].n <= formed

OrderFits ==
  /\ \A i, j \in 1..Len(written) : i < j => Earlier(written[i], written[j])
  /\ \A i, j \in 1..Len(queue) : i < j => Earlier(queue[i], queue[j])
  /\ \A i \in 1..Len(written), j \in 1..Len(queue) : Earlier(written[i], queue[j])
  /\ line \in Lines =>
       /\ \A i \in 1..Len(written) : Earlier(written[i], line)
       /\ \A j \in 1..Len(queue) : Earlier(line, queue[j])
  /\ \A p \in Producers : held[p] \in Formed =>
       /\ \A i \in 1..Len(written) : Earlier(written[i], held[p])
       /\ \A j \in 1..Len(queue) : Earlier(queue[j], held[p])
       /\ line \in Lines => Earlier(line, held[p])

JInv ==
  JournalTypes /\ WriterFits /\ GivenFits /\ NumbersFit /\ OrderFits /\ Events!NewestAreKept

LEMMA NoLineIsNone == Events!NoLine \notin Lines /\ Events!NoLine \notin Formed
BY DEF Events!NoLine, Lines, Formed

LEMMA JournalReports == ASSUME JInv PROVE EventsJournalIsSound
<1> USE DEF JInv
<1>1. Events!TypeOK BY DEF Events!TypeOK, JournalTypes, WriterFits, GivenFits
<1>2. Events!FilesAreBounded BY DEF Events!FilesAreBounded, JournalTypes, LogFiles
<1>3. DOMAIN written = 1..Len(written) /\ \A i \in 1..Len(written) : written[i] \in Lines
  BY DEF JournalTypes
<1>4. Events!ThreadOrder BY <1>3 DEF Events!ThreadOrder, OrderFits, Earlier
<1>5. Events!NothingLeftBehind
  <2>1. ASSUME writer = "ended" PROVE {queue[i].n : i \in 1..Len(queue)} = {}
    <3>1. Len(queue) = 0 BY <2>1, EmptySeq DEF WriterFits
    <3> QED BY <3>1
  <2> QED BY <2>1 DEF Events!NothingLeftBehind, GivenFits
<1>6. Events!ClosedValues BY <1>3 DEF Events!ClosedValues, Lines, Texts
<1> QED BY <1>1, <1>2, <1>4, <1>5, <1>6 DEF EventsJournalIsSound, Events!JournalIsSound

LEMMA JournalInit == ASSUME Events!EventsAssumption, Events!Init PROVE JInv
<1> USE DEF Events!Init, Events!EventsAssumption
<1>1. <<>> \in Seq(Lines) /\ Len(<<>>) = 0 BY EmptySeq
<1>2. Events!NoFile \in LogFiles BY <1>1 DEF Events!NoFile, LogFiles
<1>3. JournalTypes BY <1>1, <1>2 DEF JournalTypes
<1>4. WriterFits BY NoLineIsNone DEF WriterFits
<1>5. GivenFits
  <2>1. {queue[i].n : i \in 1..Len(queue)} = {} BY <1>1
  <2> QED BY <2>1 DEF GivenFits
<1>6. NumbersFit /\ OrderFits BY <1>1, NoLineIsNone DEF NumbersFit, OrderFits
<1>7. Events!NewestAreKept
  <2>1. older.whole \o log.whole = <<>> BY DEF Events!NoFile
  <2> QED BY <2>1, <1>1 DEF Events!NewestAreKept
<1> QED BY <1>3, <1>4, <1>5, <1>6, <1>7 DEF JInv

\* What a thread forms is one of the closed values.
LEMMA FormsALine ==
  ASSUME Events!EventsAssumption,
         NEW l \in UNION {Events!EventLine, Events!IpcLine, Events!DpiLine, Events!CoreLine}
  PROVE  l.size \in Nat \ {0} /\ l.numbered \in BOOLEAN /\ l.text \in Texts
<1>1. CASE l \in Events!EventLine
  <2>1. l = [size |-> 1, numbered |-> TRUE, text |-> "event"] BY <1>1 DEF Events!EventLine
  <2> QED BY <2>1 DEF Texts
<1>2. CASE l \in Events!IpcLine
  <2>1. PICK c \in Sent : l = [size |-> 1, numbered |-> TRUE, text |-> Events!CommandName(c)]
    BY <1>2 DEF Events!IpcLine
  <2>2. c \in Events!Commands BY DEF Events!EventsAssumption
  <2>3. {"status", "connect", "stageProfile", "configureSmartAccessRuntimeControl"}
          \subseteq Events!Commands
    BY DEF Events!Commands, Events!Reads, Events!Connects, Events!Staging, Events!SmartControls
  <2>4. Events!CommandName(c) \in Events!Commands \cup {"invalid"}
    BY <2>2, <2>3 DEF Events!CommandName
  <2> QED BY <2>1, <2>4 DEF Texts
<1>3. CASE l \in Events!DpiLine
  <2>1. PICK f \in Failures : l = [size |-> 1, numbered |-> TRUE, text |-> Events!LocalDpiFailureName(f)]
    BY <1>3 DEF Events!DpiLine
  <2>2. Events!LocalDpiFailureName(f) \in Texts BY DEF Events!LocalDpiFailureName, Texts
  <2> QED BY <2>1, <2>2
<1>4. CASE l \in Events!CoreLine
  <2>1. PICK s \in 2..(MaxLine + 1) : l = [size |-> s, numbered |-> FALSE, text |-> "core"]
    BY <1>4 DEF Events!CoreLine
  <2> QED BY <2>1 DEF Texts
<1> QED BY <1>1, <1>2, <1>3, <1>4

LEMMA FormLineSound ==
  ASSUME JInv, Events!EventsAssumption, NEW p \in Producers, Events!FormLine(p) PROVE JInv'
<1> USE DEF JInv
<1>1. PICK l \in UNION {Events!EventLine, Events!IpcLine, Events!DpiLine, Events!CoreLine} :
        held' = [held EXCEPT ![p] = [n |-> formed', by |-> p, size |-> l.size,
                                     numbered |-> l.numbered, text |-> l.text]]
  BY DEF Events!FormLine
<1>2. l.size \in Nat \ {0} /\ l.numbered \in BOOLEAN /\ l.text \in Texts BY <1>1, FormsALine
<1>3. /\ formed < MaxEvents /\ formed' = formed + 1 /\ formed \in 0..MaxEvents /\ MaxEvents \in Nat
      /\ UNCHANGED <<journal, queue, writer, line, log, older, written, passed, given, faults>>
  BY DEF Events!FormLine, Events!files, JournalTypes, Events!EventsAssumption
<1> DEFINE new == [n |-> formed', by |-> p, size |-> l.size, numbered |-> l.numbered,
                   text |-> l.text]
<1>4. new \in Formed /\ new.by = p /\ new.n = formed + 1 BY <1>2, <1>3 DEF Formed
<1> HIDE DEF new
<1>5. /\ held' \in [Producers -> Formed \cup {Events!NoLine}]
      /\ held' = [held EXCEPT ![p] = new]
      /\ \A q \in Producers : held'[q] = IF q = p THEN new ELSE held[q]
  BY <1>1, <1>4 DEF JournalTypes, new
<1>6. JournalTypes' BY <1>3, <1>5 DEF JournalTypes
<1>7. WriterFits' /\ GivenFits' BY <1>3 DEF WriterFits, GivenFits
<1>8. (\A x \in Lines : x.n \in Nat) /\ \A x \in Formed : x.n \in Nat BY DEF Lines, Formed
<1>9. NumbersFit'
  BY <1>3, <1>4, <1>5, <1>8 DEF NumbersFit, JournalTypes
<1>10. OrderFits'
  <2>1. \A i \in 1..Len(written) : Earlier(written[i], new)
    BY <1>3, <1>4, <1>8 DEF NumbersFit, Earlier, JournalTypes
  <2>2. \A i \in 1..Len(queue) : Earlier(queue[i], new)
    BY <1>3, <1>4, <1>8 DEF NumbersFit, Earlier, JournalTypes
  <2>3. line \in Lines => Earlier(line, new)
    BY <1>3, <1>4, <1>8 DEF NumbersFit, Earlier, JournalTypes
  <2> QED BY <1>3, <1>5, <2>1, <2>2, <2>3 DEF OrderFits
<1>11. Events!NewestAreKept' BY <1>3 DEF Events!NewestAreKept
<1> QED BY <1>6, <1>7, <1>9, <1>10, <1>11

LEMMA AppendLineSound ==
  ASSUME JInv, Events!EventsAssumption, NEW p \in Producers, Events!AppendLine(p) PROVE JInv'
<1> USE DEF JInv
<1>1. /\ journal # "none" /\ held[p] # Events!NoLine
      /\ held' = [held EXCEPT ![p] = Events!NoLine]
      /\ UNCHANGED <<journal, formed, writer, line, log, older, written, passed, faults>>
  BY DEF Events!AppendLine, Events!files
<1>2. /\ held[p] \in Formed
      /\ held' \in [Producers -> Formed \cup {Events!NoLine}]
      /\ \A q \in Producers : held'[q] = IF q = p THEN Events!NoLine ELSE held[q]
  BY <1>1 DEF JournalTypes
<1>3. Events!NewestAreKept' BY <1>1 DEF Events!NewestAreKept
<1>4. CASE held[p].size > MaxLine \/ Events!NoRoom
  <2>1. queue' = queue /\ given' = given BY <1>4 DEF Events!AppendLine
  <2>2. JournalTypes' BY <1>1, <1>2, <2>1 DEF JournalTypes
  <2>3. WriterFits' /\ GivenFits' BY <1>1, <2>1 DEF WriterFits, GivenFits
  <2>4. NumbersFit' /\ OrderFits'
    BY <1>1, <1>2, <2>1, NoLineIsNone DEF NumbersFit, OrderFits
  <2> QED BY <1>3, <2>2, <2>3, <2>4
<1>5. CASE ~(held[p].size > MaxLine \/ Events!NoRoom)
  <2>0. held[p] \in Lines
    <3>1. MaxLine \in Nat BY DEF Events!EventsAssumption
    <3>2. held[p].size \in 1..MaxLine BY <1>2, <1>5, <3>1 DEF Formed
    <3> QED BY <1>2, <3>2 DEF Formed, Lines
  <2>1. queue' = Append(queue, held[p]) /\ given' = given \cup {held[p].n}
    BY <1>5 DEF Events!AppendLine
  <2>2. /\ queue' \in Seq(Lines) /\ Len(queue') = Len(queue) + 1 /\ Len(queue) \in Nat
        /\ queue'[Len(queue) + 1] = held[p]
        /\ \A i \in 1..Len(queue) : queue'[i] = queue[i]
    BY <2>0, <2>1, AppendProperties, LenProperties DEF JournalTypes
  <2>3. journal # "stopping" /\ Len(queue) < MaxPending
    BY <1>5, <2>2 DEF Events!NoRoom, Events!EventsAssumption
  <2>4. JournalTypes' BY <1>1, <1>2, <2>2, <2>3 DEF JournalTypes, Events!EventsAssumption
  <2>5. WriterFits' BY <1>1, <2>3 DEF WriterFits
  <2>6. \A i \in 1..Len(queue') : i \in 1..Len(queue) \/ i = Len(queue) + 1 BY <2>2
  <2>7. GivenFits'
    <3>1. {queue'[i].n : i \in 1..Len(queue')} = {queue[i].n : i \in 1..Len(queue)} \cup {held[p].n}
      BY <2>2, <2>6
    <3> QED BY <1>1, <2>1, <3>1 DEF GivenFits
  <2>8. NumbersFit'
    BY <1>1, <1>2, <2>2, <2>6, NoLineIsNone DEF NumbersFit
  <2>9. OrderFits'
    <3>1. \A i, j \in 1..Len(queue') : i < j => Earlier(queue'[i], queue'[j])
      BY <1>2, <2>2, <2>6 DEF OrderFits
    <3>2. \A i \in 1..Len(written), j \in 1..Len(queue') : Earlier(written[i], queue'[j])
      BY <1>2, <2>2, <2>6 DEF OrderFits
    <3>3. line \in Lines => \A j \in 1..Len(queue') : Earlier(line, queue'[j])
      BY <1>2, <2>2, <2>6 DEF OrderFits
    <3>4. ASSUME NEW q \in Producers, held'[q] \in Formed
          PROVE  \A j \in 1..Len(queue') : Earlier(queue'[j], held'[q])
      <4>1. q # p /\ held'[q] = held[q] BY <1>2, <3>4, NoLineIsNone
      <4>2. Earlier(held[p], held[q]) BY <1>2, <3>4, <4>1 DEF Earlier, NumbersFit
      <4> QED BY <2>2, <2>6, <3>4, <4>1, <4>2 DEF OrderFits
    <3> QED BY <1>1, <1>2, <3>1, <3>2, <3>3, <3>4, NoLineIsNone DEF OrderFits
  <2> QED BY <1>3, <2>4, <2>5, <2>7, <2>8, <2>9
<1> QED BY <1>4, <1>5

LEMMA TakeSound == ASSUME JInv, Events!EventsAssumption, Events!Take PROVE JInv'
<1> USE DEF JInv
<1>1. /\ writer = "waits" /\ queue # <<>> /\ writer' = "rotates"
      /\ line' = Head(queue) /\ queue' = Tail(queue) /\ passed' = passed \cup {line'.n}
      /\ UNCHANGED <<journal, formed, held, log, older, written, given, faults>>
  BY DEF Events!Take, Events!files
<1>2. /\ queue \in Seq(Lines) /\ Len(queue) \in Nat \ {0}
      /\ \A i \in 1..Len(queue) : queue[i] \in Lines
  BY <1>1, EmptySeq, ElementOfSeq DEF JournalTypes
<1>3. /\ line' \in Lines /\ line' = queue[1]
      /\ queue' \in Seq(Lines) /\ Len(queue') = Len(queue) - 1
      /\ \A i \in 1..Len(queue') : queue'[i] = queue[i + 1]
  <2>1. Head(queue) = queue[1] BY <1>2
  <2> QED BY <1>1, <1>2, <2>1, HeadTailProperties
<1>4. JournalTypes' BY <1>1, <1>2, <1>3 DEF JournalTypes, Events!EventsAssumption
<1>5. WriterFits' BY <1>1, <1>3 DEF WriterFits
<1>6. \A i \in 1..Len(queue') : i + 1 \in 1..Len(queue) /\ i + 1 > 1 /\ queue'[i] = queue[i + 1]
  BY <1>2, <1>3
<1>7. GivenFits'
  <2>1. {queue[i].n : i \in 1..Len(queue)} = {queue'[i].n : i \in 1..Len(queue')} \cup {line'.n}
    <3>1. \A i \in 1..Len(queue) : i = 1 \/ (i - 1 \in 1..Len(queue') /\ queue'[i - 1] = queue[i])
      BY <1>2, <1>3
    <3>2. 1 \in 1..Len(queue) BY <1>2
    <3>3. \A i \in 1..Len(queue) :
            queue[i].n \in {queue'[j].n : j \in 1..Len(queue')} \cup {line'.n}
      BY <1>3, <3>1
    <3>4. \A i \in 1..Len(queue') : queue'[i].n \in {queue[j].n : j \in 1..Len(queue)} BY <1>6
    <3>5. line'.n \in {queue[j].n : j \in 1..Len(queue)} BY <1>3, <3>2
    <3> QED BY <3>3, <3>4, <3>5
  <2> QED BY <1>1, <2>1 DEF GivenFits
<1>8. NumbersFit' BY <1>1, <1>2, <1>3, <1>6 DEF NumbersFit
<1>9. OrderFits'
  <2>1. 1 \in 1..Len(queue) BY <1>2
  <2>2. \A i, j \in 1..Len(queue') : i < j => Earlier(queue'[i], queue'[j])
    <3>1. \A i, j \in 1..Len(queue) : i < j => Earlier(queue[i], queue[j]) BY DEF OrderFits
    <3>2. TAKE i, j \in 1..Len(queue')
    <3>3. HAVE i < j
    <3>4. /\ i + 1 \in 1..Len(queue) /\ queue'[i] = queue[i + 1]
          /\ j + 1 \in 1..Len(queue) /\ queue'[j] = queue[j + 1]
      BY <1>6, <3>2
    <3>5. i + 1 < j + 1
      <4>1. i \in Int /\ j \in Int BY <3>2
      <4> QED BY <3>3, <4>1
    <3>6. Earlier(queue[i + 1], queue[j + 1]) BY <3>1, <3>4, <3>5
    <3> QED BY <3>4, <3>6
  <2>3. \A i \in 1..Len(written), j \in 1..Len(queue') : Earlier(written[i], queue'[j])
    BY <1>6 DEF OrderFits
  <2>4. \A i \in 1..Len(written) : Earlier(written[i], line') BY <1>3, <2>1 DEF OrderFits
  <2>5. \A j \in 1..Len(queue') : Earlier(line', queue'[j]) BY <1>3, <1>6, <2>1 DEF OrderFits
  <2>6. \A p \in Producers : held[p] \in Formed =>
          Earlier(line', held[p]) /\ \A j \in 1..Len(queue') : Earlier(queue'[j], held[p])
    BY <1>3, <1>6, <2>1 DEF OrderFits
  <2> QED BY <1>1, <2>2, <2>3, <2>4, <2>5, <2>6 DEF OrderFits
<1>10. Events!NewestAreKept' BY <1>1 DEF Events!NewestAreKept
<1> QED BY <1>4, <1>5, <1>7, <1>8, <1>9, <1>10

\* A record that is given up, or of which a part is written, leaves what was written.
LEMMA LineGivenUp ==
  ASSUME JInv, line' = Events!NoLine, writer' = "waits", writer \in {"rotates", "writes"},
         UNCHANGED <<journal, formed, held, queue, older, written, passed, given>>,
         faults' \in 0..MaxFaults, log' \in LogFiles, log'.whole = log.whole
  PROVE  JInv'
<1> USE DEF JInv
<1>1. JournalTypes' BY DEF JournalTypes
<1>2. WriterFits' /\ GivenFits' BY NoLineIsNone DEF WriterFits, GivenFits
<1>3. NumbersFit' /\ OrderFits' BY NoLineIsNone DEF NumbersFit, OrderFits
<1>4. Events!NewestAreKept' BY DEF Events!NewestAreKept
<1> QED BY <1>1, <1>2, <1>3, <1>4

LEMMA TornFits ==
  ASSUME JInv, Events!EventsAssumption, writer = "writes", NEW f \in Events!Torn
  PROVE  f \in LogFiles /\ f.whole = log.whole
<1>1. PICK part \in 1..line.size : f = [log EXCEPT !.size = @ + part] BY DEF Events!Torn
<1>2. log \in LogFiles /\ line \in Lines /\ log.size + line.size <= FileLimit /\ FileLimit \in Nat
  BY DEF JInv, JournalTypes, WriterFits, Events!EventsAssumption
<1>3. log.size + part \in 0..FileLimit BY <1>2 DEF LogFiles, Lines
<1> QED BY <1>1, <1>2, <1>3 DEF LogFiles

LEMMA FaultCounts ==
  ASSUME JInv, Events!EventsAssumption, Events!Fault PROVE faults' \in 0..MaxFaults
BY DEF JInv, JournalTypes, Events!Fault, Events!EventsAssumption

LEMMA WriteFailsSound == ASSUME JInv, Events!EventsAssumption, Events!WriteFails PROVE JInv'
<1>1. log' = log /\ log \in LogFiles BY DEF JInv, JournalTypes, Events!WriteFails, Events!files
<1> QED BY <1>1, LineGivenUp, FaultCounts DEF Events!WriteFails, Events!files, Events!Drop

LEMMA WriteTearsSound == ASSUME JInv, Events!EventsAssumption, Events!WriteTears PROVE JInv'
<1>1. log' \in LogFiles /\ log'.whole = log.whole BY TornFits DEF Events!WriteTears
<1> QED BY <1>1, LineGivenUp, FaultCounts DEF Events!WriteTears

LEMMA RotatedSound == ASSUME JInv, Events!EventsAssumption, Events!Rotated PROVE JInv'
<1> USE DEF JInv
<1>1. /\ writer = "rotates" /\ writer' = "writes" /\ line \in Lines
      /\ log' = (IF Events!RotateIfNeeded THEN Events!NoFile ELSE log)
      /\ older' = (IF Events!RotateIfNeeded THEN log ELSE older)
      /\ UNCHANGED <<journal, formed, held, queue, line, written, passed, given, faults>>
  BY DEF Events!Rotated, Events!Rotate, WriterFits
<1>2. <<>> \in Seq(Lines) /\ Len(<<>>) = 0 BY EmptySeq
<1>3. Events!NoFile \in LogFiles BY <1>2 DEF Events!NoFile, LogFiles, Events!EventsAssumption
<1>4. JournalTypes' BY <1>1, <1>3 DEF JournalTypes
<1>5. log.size \in Nat /\ line.size \in 1..MaxLine /\ FileLimit \in Nat /\ MaxLine \in 1..FileLimit
  BY <1>1 DEF JournalTypes, LogFiles, Lines, Events!EventsAssumption
<1>6. WriterFits'
  <2>1. log'.size + line'.size <= FileLimit
    <3>1. CASE Events!RotateIfNeeded BY <1>1, <1>5, <3>1 DEF Events!NoFile
    <3>2. CASE ~Events!RotateIfNeeded BY <1>1, <1>5, <3>2 DEF Events!RotateIfNeeded
    <3> QED BY <3>1, <3>2
  <2> QED BY <1>1, <2>1 DEF WriterFits
<1>7. GivenFits' /\ NumbersFit' /\ OrderFits' BY <1>1 DEF GivenFits, NumbersFit, OrderFits
<1>8. Events!NewestAreKept'
  <2>1. CASE ~Events!RotateIfNeeded BY <1>1, <2>1 DEF Events!NewestAreKept
  <2>2. CASE Events!RotateIfNeeded
    <3>1. /\ older.whole \in Seq(Lines) /\ log.whole \in Seq(Lines) /\ written \in Seq(Lines)
          /\ log' = Events!NoFile /\ older' = log
      BY <1>1, <2>2 DEF JournalTypes, LogFiles
    <3>2. older'.whole \o log'.whole = log.whole BY <3>1, ConcatEmptySeq DEF Events!NoFile
    <3>3. PICK a \in Seq(Lines), b \in Seq(Lines) : a = older.whole /\ b = log.whole BY <3>1
    <3>4. /\ Len(a) \in Nat /\ Len(b) \in Nat /\ Len(written) \in Nat
          /\ Len(a \o b) = Len(a) + Len(b)
          /\ \A i \in 1..Len(b) : (a \o b)[Len(a) + i] = b[i]
      <4>1. Len(a) \in Nat /\ Len(b) \in Nat /\ Len(written) \in Nat BY <3>1, LenProperties
      <4>2. Len(a \o b) = Len(a) + Len(b) BY ConcatProperties
      <4>3. ASSUME NEW i \in 1..Len(b) PROVE (a \o b)[Len(a) + i] = b[i]
        <5>1. Len(a) + i \in 1..(Len(a) + Len(b)) /\ Len(a) + i > Len(a) /\ (Len(a) + i) - Len(a) = i
          BY <4>1
        <5> QED BY <4>1, <5>1, ConcatProperties
      <4> QED BY <4>1, <4>2, <4>3
    <3>5. /\ Len(a \o b) <= Len(written)
          /\ \A i \in 1..Len(a \o b) : (a \o b)[i] = written[Len(written) - Len(a \o b) + i]
      BY <3>3 DEF Events!NewestAreKept
    <3>6. Len(b) <= Len(written) BY <3>4, <3>5
    <3>7. ASSUME NEW i \in 1..Len(b) PROVE b[i] = written[Len(written) - Len(b) + i]
      <4>1. /\ Len(a) + i \in 1..Len(a \o b)
            /\ Len(written) - Len(a \o b) + (Len(a) + i) = Len(written) - Len(b) + i
        BY <3>4
      <4>2. (a \o b)[Len(a) + i] = written[Len(written) - Len(a \o b) + (Len(a) + i)]
        BY <3>5, <4>1
      <4> QED BY <3>4, <4>1, <4>2
    <3> QED BY <1>1, <3>2, <3>3, <3>6, <3>7 DEF Events!NewestAreKept
  <2> QED BY <2>1, <2>2
<1> QED BY <1>4, <1>6, <1>7, <1>8

LEMMA WriteLineSound == ASSUME JInv, Events!EventsAssumption, Events!WriteLine PROVE JInv'
<1> USE DEF JInv
<1>1. /\ writer = "writes" /\ writer' = "waits" /\ line' = Events!NoLine
      /\ log' = [size |-> log.size + line.size, whole |-> Append(log.whole, line)]
      /\ written' = Append(written, line)
      /\ UNCHANGED <<journal, formed, held, queue, older, passed, given, faults>>
  BY DEF Events!WriteLine
<1>2. /\ line \in Lines /\ log \in LogFiles /\ log.size + line.size <= FileLimit
      /\ older.whole \in Seq(Lines) /\ log.whole \in Seq(Lines) /\ written \in Seq(Lines)
  BY <1>1 DEF WriterFits, JournalTypes, LogFiles
<1>3. /\ Append(log.whole, line) \in Seq(Lines)
      /\ written' \in Seq(Lines) /\ Len(written') = Len(written) + 1 /\ Len(written) \in Nat
      /\ written'[Len(written) + 1] = line /\ \A i \in 1..Len(written) : written'[i] = written[i]
  BY <1>1, <1>2, AppendProperties, LenProperties
<1>4. log' \in LogFiles
  <2>1. log.size + line.size \in 0..FileLimit BY <1>2 DEF LogFiles, Lines, Events!EventsAssumption
  <2> QED BY <1>1, <1>3, <2>1 DEF LogFiles
<1>5. JournalTypes' BY <1>1, <1>3, <1>4 DEF JournalTypes
<1>6. WriterFits' /\ GivenFits' BY <1>1, NoLineIsNone DEF WriterFits, GivenFits
<1>7. \A i \in 1..Len(written') : i \in 1..Len(written) \/ i = Len(written) + 1 BY <1>3
<1>8. NumbersFit' BY <1>1, <1>2, <1>3, <1>7, NoLineIsNone DEF NumbersFit
<1>9. OrderFits'
  <2>1. \A i, j \in 1..Len(written') : i < j => Earlier(written'[i], written'[j])
    BY <1>2, <1>3, <1>7 DEF OrderFits
  <2>2. \A i \in 1..Len(written'), j \in 1..Len(queue) : Earlier(written'[i], queue[j])
    BY <1>2, <1>3, <1>7 DEF OrderFits
  <2>3. \A p \in Producers : held[p] \in Formed =>
          \A i \in 1..Len(written') : Earlier(written'[i], held[p])
    BY <1>2, <1>3, <1>7 DEF OrderFits
  <2> QED BY <1>1, <2>1, <2>2, <2>3, NoLineIsNone DEF OrderFits
<1>10. Events!NewestAreKept'
  <2>1. PICK kept \in Seq(Lines) : kept = older.whole \o log.whole
    BY <1>2, ConcatProperties
  <2>2. older'.whole \o log'.whole = Append(kept, line)
    <3>1. PICK a \in Seq(Lines), b \in Seq(Lines), l \in Lines :
            a = older.whole /\ b = log.whole /\ l = line
      BY <1>2
    <3>2. <<l>> \in Seq(Lines) OBVIOUS
    <3>3. Append(b, l) = b \o <<l>> /\ Append(kept, l) = kept \o <<l>> BY AppendIsConcat
    <3>4. a \o (b \o <<l>>) = (a \o b) \o <<l>> BY <3>2, ConcatAssociative
    <3>5. older'.whole = a /\ log'.whole = Append(b, l) /\ kept = a \o b BY <1>1, <2>1, <3>1
    <3> QED BY <3>1, <3>3, <3>4, <3>5
  <2>3. /\ Len(Append(kept, line)) = Len(kept) + 1 /\ Len(kept) \in Nat
        /\ \A i \in 1..Len(kept) : Append(kept, line)[i] = kept[i]
        /\ Append(kept, line)[Len(kept) + 1] = line
    <3>1. PICK l \in Lines : l = line BY <1>2
    <3>2. Len(kept) \in Nat BY LenProperties
    <3> QED BY <3>1, <3>2, AppendProperties
  <2>4. Len(kept) <= Len(written) BY <2>1 DEF Events!NewestAreKept
  <2>5. ASSUME NEW i \in 1..(Len(kept) + 1)
        PROVE  Append(kept, line)[i] = written'[(Len(written) + 1) - (Len(kept) + 1) + i]
    <3>1. CASE i \in 1..Len(kept)
      <4>1. kept[i] = written[Len(written) - Len(kept) + i]
        BY <2>1, <3>1 DEF Events!NewestAreKept
      <4>2. Len(written) - Len(kept) + i \in 1..Len(written)
        BY <1>3, <2>3, <2>4, <3>1
      <4>3. (Len(written) + 1) - (Len(kept) + 1) + i = Len(written) - Len(kept) + i
        BY <1>3, <2>3
      <4> QED BY <1>3, <2>3, <3>1, <4>1, <4>2, <4>3
    <3>2. CASE i = Len(kept) + 1
      <4>1. (Len(written) + 1) - (Len(kept) + 1) + i = Len(written) + 1 BY <1>3, <2>3, <3>2
      <4> QED BY <1>3, <2>3, <3>2, <4>1
    <3> QED BY <2>3, <3>1, <3>2
  <2>6. Len(kept) + 1 <= Len(written) + 1 BY <1>3, <2>3, <2>4
  <2> QED BY <1>3, <2>2, <2>3, <2>5, <2>6 DEF Events!NewestAreKept
<1> QED BY <1>5, <1>6, <1>8, <1>9, <1>10

\* The process ends, and with it what was held, queued or taken.
LEMMA GoneSound ==
  ASSUME JInv, Events!EventsAssumption, Events!Gone, UNCHANGED <<formed, older, written>>, faults' \in 0..MaxFaults,
         log' \in LogFiles, log'.whole = log.whole
  PROVE  JInv'
<1> USE DEF JInv, Events!Gone
<1>1. <<>> \in Seq(Lines) /\ Len(<<>>) = 0 BY EmptySeq
<1>2. JournalTypes' BY <1>1 DEF JournalTypes, Events!EventsAssumption
<1>3. WriterFits' BY NoLineIsNone DEF WriterFits
<1>4. GivenFits'
  <2>1. {queue'[i].n : i \in 1..Len(queue')} = {} BY <1>1
  <2> QED BY <2>1 DEF GivenFits
<1>5. NumbersFit' /\ OrderFits' BY <1>1, NoLineIsNone DEF NumbersFit, OrderFits
<1>6. Events!NewestAreKept' BY DEF Events!NewestAreKept
<1> QED BY <1>2, <1>3, <1>4, <1>5, <1>6

LEMMA KillSound == ASSUME JInv, Events!EventsAssumption, Events!Kill PROVE JInv'
<1>1. log' = log \/ (writer = "writes" /\ log' \in Events!Torn) BY DEF Events!Kill
<1>2. log' \in LogFiles /\ log'.whole = log.whole
  BY <1>1, TornFits DEF JInv, JournalTypes
<1> QED BY <1>2, FaultCounts, GoneSound DEF Events!Kill

LEMMA JoinedSound == ASSUME JInv, Events!EventsAssumption, Events!Joined PROVE JInv'
<1>1. log' = log /\ log \in LogFiles /\ faults' \in 0..MaxFaults
  BY DEF JInv, JournalTypes, Events!Joined, Events!files
<1> QED BY <1>1, GoneSound DEF Events!Joined, Events!files

\* Steps of the journal's life, and of the writer's.
LEMMA LifeSound ==
  ASSUME JInv, Events!Create \/ Events!Stop \/ Events!WriterEnds \/ UNCHANGED Events!vars
  PROVE  JInv'
<1> USE DEF JInv
<1>1. /\ UNCHANGED <<formed, held, queue, line, log, older, written, passed, given, faults>>
      /\ journal' \in {"none", "open", "stopping"}
      /\ writer' \in {"none", "waits", "rotates", "writes", "ended"}
  BY DEF Events!Create, Events!Stop, Events!WriterEnds, Events!vars, Events!files, JournalTypes
<1>2. JournalTypes' BY <1>1 DEF JournalTypes
<1>3. WriterFits'
  BY <1>1 DEF WriterFits, Events!Create, Events!Stop, Events!WriterEnds, Events!vars, Events!files
<1>4. GivenFits' /\ NumbersFit' /\ OrderFits' BY <1>1 DEF GivenFits, NumbersFit, OrderFits
<1>5. Events!NewestAreKept' BY <1>1 DEF Events!NewestAreKept
<1> QED BY <1>2, <1>3, <1>4, <1>5

\* Neither file outgrows its limit, the two hold the newest records that were
\* written, those of a thread in its order, nothing accepted is left when the
\* destructor ends, and only closed values are written (AppendLine, WritePending,
\* WriteLine, RotateIfNeeded), for any threads, records, limits, failing writes and
\* ends of the process.
THEOREM JournalSound ==
  ASSUME Events!EventsAssumption PROVE Events!Spec => []EventsJournalIsSound
<1>1. Events!Init => JInv BY JournalInit
<1>2. JInv /\ [Events!Next]_(Events!vars) => JInv'
  <2>1. SUFFICES ASSUME JInv, [Events!Next]_(Events!vars) PROVE JInv' OBVIOUS
  <2>2. CASE Events!ProducerStep
    BY <2>1, <2>2, FormLineSound, AppendLineSound DEF Events!ProducerStep
  <2>3. CASE Events!WriterStep
    BY <2>1, <2>3, TakeSound, RotatedSound, WriteFailsSound, WriteLineSound, WriteTearsSound,
       LifeSound DEF Events!WriterStep
  <2> QED BY <2>1, <2>2, <2>3, LifeSound, JoinedSound, KillSound DEF Events!Next, Events!Rests
<1>3. JInv => EventsJournalIsSound BY JournalReports
<1> QED BY <1>1, <1>2, <1>3, PTL DEF Events!Spec

-----------------------------------------------------------------------------
(* The proof of the control hosts *)

Stages ==
  {"endpoint", "resolve", "bind", "permit", "connect", "connecting", "tls", "send", "read",
   "unwind", "judge"}

ProofTypes ==
  /\ proves \in {"control", "observe"} /\ index \in Nat /\ remaining \in Nat /\ wait \in Nat
  /\ share \in Nat /\ sent \in Nat /\ code \in Nat /\ response \in Nat
  /\ at \in Stages \cup {"idle", "next"} /\ guard \in BOOLEAN /\ current \in BOOLEAN
  /\ socket \in {"none", "bound"} /\ permit \in {"none", "session", "guard", "own"}
  /\ syn \in BOOLEAN /\ tls \in {"none", "1.2", "1.3"}

\* What the exchange has made and done at each of its stages.
ExchangeFits ==
  /\ at \in {"idle", "next", "endpoint", "resolve", "bind", "judge"} => socket = "none"
  /\ at \in {"permit", "connect", "connecting", "tls", "send", "read"} => socket = "bound"
  /\ at \in {"idle", "next", "endpoint", "resolve", "bind", "permit", "judge"} => permit = "none"
  /\ permit # "none" => socket = "bound"
  /\ at \in {"endpoint", "resolve", "bind", "permit", "connect", "connecting", "tls", "send"}
       => sent = 0
  /\ sent <= 1
  /\ at \in Stages \ {"unwind", "judge"} => error = "none"
  /\ at \in {"connecting", "tls", "send", "read"} => syn
  /\ at \in {"send", "read"} => tls # "none"
  /\ at = "read" => sent = 1
  /\ at \in {"unwind", "judge"} /\ error = "ok" => syn /\ tls # "none" /\ sent = 1

\* The hosts that are left have their share, and an exchange takes no more than
\* its own: what it has not used yet is over and above the shares of the others.
SharesAreKept ==
  LET q == Budget \div Hosts IN
  proves = "control" =>
    /\ at = "next" => index <= Hosts /\ remaining >= q * (Hosts - index)
    /\ at \in Stages => /\ index < Hosts /\ share >= q
                        /\ remaining >= share * (Hosts - index - 1) + wait

PInv == ProofTypes /\ ExchangeFits /\ SharesAreKept /\ Proof!ProofIsComplete

\* The least share of n hosts in t is no less than q if t is q for each of them.
LEMMA ShareOf ==
  ASSUME NEW t \in Nat, NEW n \in Nat \ {0}, NEW q \in Nat
  PROVE  /\ t \div n \in Nat /\ t >= (t \div n) * n
         /\ t >= q * n => t \div n >= q
<1>1. t \div n \in Nat /\ t >= (t \div n) * n /\ t < (t \div n) * n + n OBVIOUS
<1>2. ASSUME t >= q * n, t \div n < q PROVE FALSE
  <2> DEFINE d == t \div n
  <2>1. d \in Nat /\ t < d * n + n /\ d + 1 <= q BY <1>1, <1>2
  <2> HIDE DEF d
  <2>2. (d + 1) * n <= q * n BY <2>1
  <2>3. (d + 1) * n = d * n + n BY <2>1
  <2>4. d * n \in Nat /\ q * n \in Nat BY <2>1
  <2> QED BY <1>2, <2>1, <2>2, <2>3, <2>4
<1> QED BY <1>1, <1>2

\* A larger share makes a larger sum.
LEMMA SharesGrow ==
  ASSUME NEW s \in Nat, NEW q \in Nat, NEW n \in Nat, s >= q PROVE s * n >= q * n
  OBVIOUS

LEMMA ProofStep == ASSUME Proof!Sizes, PInv, [Proof!Next]_Proof!vars PROVE PInv'
<1>n. Hosts \in Nat \ {0} /\ Budget \in Nat \ {0} /\ ObserveTime \in Nat \ {0}
      /\ MaxResponse \in Nat \ {0}
  BY DEF Proof!Sizes
<1> DEFINE q == Budget \div Hosts
<1>q. q \in Nat /\ Budget >= q * Hosts BY <1>n, ShareOf
<1>s. SharesAreKept <=> (proves = "control" =>
        /\ at = "next" => index <= Hosts /\ remaining >= q * (Hosts - index)
        /\ at \in Stages => /\ index < Hosts /\ share >= q
                            /\ remaining >= share * (Hosts - index - 1) + wait)
  BY DEF SharesAreKept
<1>t. SharesAreKept' <=> (proves' = "control" =>
        /\ at' = "next" => index' <= Hosts /\ remaining' >= q * (Hosts - index')
        /\ at' \in Stages => /\ index' < Hosts /\ share' >= q
                             /\ remaining' >= share' * (Hosts - index' - 1) + wait')
  BY DEF SharesAreKept
<1> HIDE DEF q
<1> USE DEF ProofTypes, ExchangeFits, Stages, Proof!ProofIsComplete, Proof!fixed, Proof!Goes,
      Proof!Returns, Proof!Less
<1>1. CASE Proof!Begin
  <2>1. CASE proves' = "observe"
    <3>1. SharesAreKept' BY <2>1, <1>t
    <3>2. /\ at = "idle" /\ at' = "endpoint" /\ wait' = ObserveTime /\ share' = ObserveTime
          /\ syn' = FALSE /\ tls' = "none" /\ sent' = 0 /\ response' = 0 /\ code' = 0
          /\ error' = "none" /\ guard' \in BOOLEAN /\ current' = TRUE
          /\ UNCHANGED <<socket, permit, index, remaining>>
      BY <1>1, <2>1 DEF Proof!Begin, Proof!Fresh
    <3>3. syn' \in BOOLEAN /\ current' \in BOOLEAN /\ guard' \in BOOLEAN BY <3>2, Zenon
    <3> QED BY <2>1, <3>1, <3>2, <3>3, <1>n DEF PInv
  <2>2. CASE proves' = "control"
    <3>1. /\ proves' = "control" /\ index' = 0 /\ remaining' = Budget /\ at' = "next" /\ at = "idle"
          /\ guard' \in BOOLEAN /\ current' = TRUE
          /\ UNCHANGED <<wait, socket, permit, syn, tls, sent, response, code, error, share>>
      BY <1>1, <2>2 DEF Proof!Begin
    <3>2. SharesAreKept' BY <3>1, <1>t, <1>n, <1>q
    <3> QED BY <3>1, <3>2, <1>n DEF PInv
  <2> QED BY <1>1, <2>1, <2>2 DEF Proof!Begin
<1>2. CASE Proof!NextHost
  <2>1. CASE index < Hosts /\ current /\ remaining > 0 /\ Proof!Timeout > 0
    <3> DEFINE share1 == remaining \div (Hosts - index)
    <3>1. /\ at = "next" /\ at' = "endpoint" /\ wait' = share1 /\ share' = share1 /\ syn' = FALSE
          /\ tls' = "none" /\ sent' = 0 /\ response' = 0 /\ code' = 0 /\ error' = "none"
          /\ UNCHANGED <<socket, permit, proves, index, remaining, guard, current>>
      BY <1>2, <2>1 DEF Proof!NextHost, Proof!Fresh, Proof!Timeout
    <3>2. Hosts - index \in Nat \ {0} /\ remaining \in Nat BY <2>1, <1>n DEF PInv
    <3>3. share1 \in Nat /\ remaining >= share1 * (Hosts - index) BY <3>2, <1>q, ShareOf
    <3>4. proves = "control" => share1 >= q
      BY <3>1, <3>2, <1>q, <1>s, ShareOf DEF PInv
    <3> HIDE DEF share1
    <3>5. share1 * (Hosts - index) = share1 * (Hosts - index - 1) + share1
      BY <3>2, <3>3
    <3>6. SharesAreKept' BY <3>1, <3>3, <3>4, <3>5, <2>1, <1>t
    <3>7. share1 \in Nat BY <3>3
    <3>8. syn' \in BOOLEAN BY <3>1, Zenon
    <3> QED BY <3>1, <3>6, <3>7, <3>8 DEF PInv
  <2>2. CASE ~(index < Hosts /\ current /\ remaining > 0 /\ Proof!Timeout > 0)
    <3>1. /\ at = "next" /\ at' = "idle"
          /\ UNCHANGED <<wait, socket, permit, syn, tls, sent, response, code, error, share,
                         proves, index, remaining, guard, current>>
      BY <1>2, <2>2 DEF Proof!NextHost
    <3> QED BY <3>1, <1>t DEF PInv
  <2> QED BY <2>1, <2>2
<1>3. CASE Proof!Judge
  <2>1. CASE proves = "observe"
    BY <1>3, <2>1, <1>t DEF PInv, Proof!Judge, Proof!Verdict
  <2>2. CASE proves = "control"
    <3>1. /\ at = "judge" /\ at' = "next" /\ index' = index + 1 /\ error' = Proof!Verdict
          /\ UNCHANGED <<proves, guard, share, remaining, wait, socket, permit, syn, tls, sent, response,
                         code, current>>
      BY <1>3, <2>2 DEF Proof!Judge
    <3>2. /\ index < Hosts /\ share >= q /\ remaining >= share * (Hosts - index - 1) + wait
          /\ index \in Nat /\ share \in Nat /\ remaining \in Nat /\ wait \in Nat
      BY <2>2, <3>1, <1>s DEF PInv
    <3>3. Hosts - index - 1 \in Nat BY <3>2, <1>n
    <3>4. share * (Hosts - index - 1) >= q * (Hosts - index - 1) BY <3>2, <3>3, <1>q, SharesGrow
    <3>5. Hosts - (index + 1) = Hosts - index - 1 BY <3>2, <1>n
    <3>6. remaining >= q * (Hosts - (index + 1)) BY <3>2, <3>3, <3>4, <3>5, <1>q
    <3>7. SharesAreKept' BY <3>1, <3>2, <3>6, <1>n, <1>t
    <3>8. error' = "ok" => error = "ok" /\ code = 200 BY <2>2, <3>1 DEF Proof!Verdict
    <3> QED BY <3>1, <3>2, <3>7, <3>8, <2>2 DEF PInv
  <2> QED BY <2>1, <2>2 DEF PInv
<1>4. CASE Proof!Tick
  <2>1. /\ at \in {"resolve", "connecting", "tls", "send", "read"} /\ wait > 0 /\ wait' = wait - 1
        /\ UNCHANGED <<proves, index, guard, share, at, socket, permit, syn, tls, sent, response,
                       code, error, current>>
    BY <1>4 DEF PInv, Proof!Tick, Proof!Waiting, Proof!InTime
  <2>2. remaining' = IF proves = "control" THEN (IF remaining = 0 THEN 0 ELSE remaining - 1) ELSE remaining
    BY <1>4 DEF Proof!Tick
  <2>3. wait' \in Nat /\ remaining' \in Nat BY <2>1, <2>2 DEF PInv
  <2>4. SharesAreKept'
    <3>1. SUFFICES ASSUME proves = "control"
                   PROVE  remaining' >= share * (Hosts - index - 1) + wait' /\ index < Hosts /\ share >= q
      BY <2>1, <1>t
    <3>2. /\ index < Hosts /\ share >= q /\ remaining >= share * (Hosts - index - 1) + wait
          /\ index \in Nat /\ share \in Nat /\ remaining \in Nat /\ wait \in Nat
      BY <3>1, <2>1, <1>s DEF PInv
    <3>3. share * (Hosts - index - 1) \in Nat BY <3>2, <1>n
    <3> QED BY <3>1, <3>2, <3>3, <2>1, <2>2
  <2> QED BY <2>1, <2>3, <2>4 DEF PInv
<1>e. ASSUME Proof!Exchange \/ Proof!OwnerLost \/ UNCHANGED Proof!vars
      PROVE  SharesAreKept'
  <2>1. /\ UNCHANGED <<proves, index, share, remaining, wait>>
        /\ at' \in Stages => at \in Stages
        /\ at' = "next" => at = "next"
    BY <1>e DEF PInv, Proof!Exchange, Proof!Endpoint, Proof!Resolve, Proof!BoundSocket,
       Proof!OpenBoundSocket, Proof!Connect, Proof!Connected, Proof!Handshake, Proof!SendRequest,
       Proof!Record, Proof!Unwind, Proof!Unwinds, Proof!Renegotiated, Proof!OwnerLost, Proof!vars
  <2> QED BY <2>1, <1>s, <1>t DEF PInv
<1>5. CASE Proof!Endpoint BY <1>5, <1>e DEF PInv, Proof!Endpoint, Proof!Exchange
<1>6. CASE Proof!Resolve BY <1>6, <1>e DEF PInv, Proof!Resolve, Proof!Exchange
<1>7. CASE Proof!BoundSocket BY <1>7, <1>e DEF PInv, Proof!BoundSocket, Proof!Exchange
<1>8. CASE Proof!OpenBoundSocket BY <1>8, <1>e DEF PInv, Proof!OpenBoundSocket, Proof!Exchange
<1>9. CASE Proof!Connect BY <1>9, <1>e DEF PInv, Proof!Connect, Proof!Exchange
<1>10. CASE Proof!Connected BY <1>10, <1>e DEF PInv, Proof!Connected, Proof!Exchange
<1>11. CASE Proof!Handshake BY <1>11, <1>e DEF PInv, Proof!Handshake, Proof!Exchange
<1>12. CASE Proof!SendRequest BY <1>12, <1>e DEF PInv, Proof!SendRequest, Proof!Exchange
<1>13. CASE Proof!Record
  BY <1>13, <1>e, <1>n DEF PInv, Proof!Record, Proof!Renegotiated, Proof!Exchange
<1>14. CASE Proof!Unwind BY <1>14, <1>e DEF PInv, Proof!Unwind, Proof!Unwinds, Proof!Exchange
<1>15. CASE Proof!OwnerLost
  <2>1. SharesAreKept' BY <1>15, <1>e
  <2>2. /\ UNCHANGED <<proves, index, guard, share, remaining, wait, at, socket, permit, syn, tls, sent,
                        response, code, error>>
        /\ current' \in BOOLEAN
    BY <1>15, Zenon DEF Proof!OwnerLost
  <2> QED BY <2>1, <2>2 DEF PInv
<1>16. CASE UNCHANGED Proof!vars BY <1>16, <1>e DEF PInv, Proof!vars
<1> QED
  BY <1>1, <1>2, <1>3, <1>4, <1>5, <1>6, <1>7, <1>8, <1>9, <1>10, <1>11, <1>12, <1>13, <1>14,
     <1>15, <1>16 DEF Proof!Next, Proof!Exchange

\* A proof stays inside its socket, its request and its time, and is complete, for
\* any number of hosts, any budget and any response: the permit is gone before
\* the port is free (BoundHttpExchange), the HEAD request is sent once, and what a
\* slow host uses is never taken from the share of the hosts after it.
THEOREM ProofExact == ASSUME Proof!Sizes PROVE Proof!Spec => []ProofIsExact
<1>1. Proof!Init => PInv
  <2>1. Proof!Init => SharesAreKept BY DEF Proof!Init, SharesAreKept, Stages
  <2>2. Proof!Init => ProofTypes
    <3>1. Budget \in Nat /\ 0 \in Nat BY DEF Proof!Sizes
    <3> QED BY <3>1, Zenon DEF Proof!Init, ProofTypes, Stages
  <2>3. Proof!Init => ExchangeFits /\ Proof!ProofIsComplete
    BY DEF Proof!Init, ExchangeFits, Proof!ProofIsComplete, Stages
  <2> QED BY <2>1, <2>2, <2>3 DEF PInv
<1>2. PInv /\ [Proof!Next]_Proof!vars => PInv' BY ProofStep
<1>3. PInv => ProofIsExact
  BY DEF PInv, ProofTypes, ExchangeFits, SharesAreKept, Stages, ProofIsExact,
     Proof!ProofIsExact, Proof!PermitInsideSocket, Proof!HeadSentOnce, Proof!EveryHostGetsItsShare
<1> QED BY <1>1, <1>2, <1>3, PTL DEF Proof!Spec

-----------------------------------------------------------------------------
(* The check of the Core's egress *)

Connection == {"connect", "tls", "send", "response", "body", "proved", "observed"}
Trying == {"dns_setup", "dns_wait"} \cup Connection

EgressTypes ==
  /\ pc \in Trying \cup {"idle", "attempt", "judge", "gap", "done"}
  /\ deadline \in Nat /\ slice \in Nat /\ attempt \in Nat /\ budget \in Nat /\ left \in Nat
  /\ cancelled \in BOOLEAN /\ reserve \in BOOLEAN

\* What the connection has carried at each stage, and what it had carried when an
\* attempt succeeded.
EvidenceFits ==
  /\ pc \in Connection => "dns" \in seen
  /\ pc \in Connection \ {"connect"} => "tun" \in seen
  /\ pc \in Connection \ {"connect", "tls"} => "tls" \in seen
  /\ pc \in {"body", "proved", "observed"} => "proof" \in seen
  /\ pc = "judge" /\ failure = "ok" =>
       {"dns", "tun", "tls", "proof"} \cup (IF check = "startup" THEN {"data"} ELSE {}) \subseteq seen

\* A success that is not returned was interrupted, and so is all that follows.
VerdictFits ==
  /\ verdict # "none" => pc \in {"done", "idle"}
  /\ pc \in {"attempt", "gap"} /\ failure = "ok" => Egress!Interrupted
  /\ pc \in Trying => failure # "ok"
  /\ refused => invalid \/ (pc = "judge" /\ failure = "probe_unavailable") \/ verdict = "ok"

\* The primary has its slice and no more; the reserve is tried with what is left.
TimeIsShared ==
  check = "periodic" =>
    /\ deadline <= budget /\ budget < NoTime
    /\ reserve /\ attempt = 0 =>
         /\ pc = "attempt" => deadline = budget
         /\ pc # "gap"
         /\ pc \in Trying \cup {"judge"} =>
              deadline >= Gap + slice \/ (deadline = budget /\ slice = 0)
    /\ reserve /\ attempt = 1 /\ pc = "attempt" => deadline >= Gap \/ deadline = budget
    /\ reserve /\ pc \notin {"idle", "done"} /\ left = NoTime =>
         attempt = 0 \/ (attempt = 1 /\ pc = "attempt")

\* A retry wait only replaces what is no failure.
CauseIsKept == last = ioLast \/ ioLast.outcome \in {"none", "succeeded"}

EInv ==
  /\ EgressTypes /\ EvidenceFits /\ VerdictFits /\ TimeIsShared /\ CauseIsKept
  /\ Egress!SuccessIsProven /\ Egress!ReserveGetsItsShare /\ Egress!InvalidProofIsReported

-----------------------------------------------------------------------------
\* What every step of an attempt leaves alone.
TryKeeps ==
  /\ pc \in Trying
  /\ UNCHANGED <<check, reserve, budget, deadline, slice, attempt, invalid, left, cancelled,
                 verdict, validated>>
  /\ ioLast' = last' \/ UNCHANGED <<last, ioLast>>

\* The attempt fails, and a proof that is refused fails it as such.
Fails ==
  /\ TryKeeps /\ pc' = "judge" /\ failure' # "ok" /\ seen' = seen
  /\ refused' = refused \/ failure' = "probe_unavailable"

\* It gets to its next stage, with the evidence of that stage.
Advances ==
  /\ TryKeeps /\ pc' \in Trying /\ EvidenceFits' /\ UNCHANGED <<failure, refused>>

\* It is over on one connection, at startup with the data.
Succeeds ==
  /\ TryKeeps /\ pc = "observed" /\ pc' = "judge" /\ failure' = "ok"
  /\ UNCHANGED <<seen, refused>> /\ (check = "startup" => "data" \in seen)

LEMMA FailureIsNamed == ASSUME NEW o PROVE Egress!ObservedFailure(o) # "ok"
  BY DEF Egress!ObservedFailure

\* ProbeOnce in one step: it advances, fails or succeeds.
LEMMA TryKinds ==
  ASSUME EInv, Egress!DnsSetup \/ Egress!DnsWait \/ Egress!Exchange
  PROVE  Fails \/ Advances \/ Succeeds
<1>e. EvidenceFits /\ pc \in Trying \cup {"idle", "attempt", "judge", "gap", "done"}
  BY DEF EInv, EgressTypes
<1> USE DEF Egress!fixed, Egress!Stop, Egress!EndAttempt, Egress!Record, Trying, Connection
<1>1. CASE Egress!DnsSetup
  <2>k. TryKeeps /\ seen' = seen /\ refused' = refused BY <1>1 DEF Egress!DnsSetup, TryKeeps
  <2>1. CASE pc' = "judge" /\ failure' = "dns_failed" BY <2>1, <2>k DEF Fails
  <2>2. CASE pc' = "dns_wait" /\ UNCHANGED failure
    <3>1. EvidenceFits' BY <2>2 DEF EvidenceFits
    <3> QED BY <2>2, <3>1, <2>k DEF Advances
  <2> QED BY <1>1, <2>1, <2>2 DEF Egress!DnsSetup
<1>2. CASE Egress!DnsWait
  <2>k. TryKeeps /\ refused' = refused BY <1>2 DEF Egress!DnsWait, TryKeeps
  <2>1. CASE pc' = "judge" /\ failure' = "dns_failed" /\ seen' = seen BY <2>1, <2>k DEF Fails
  <2>2. CASE pc' = "connect" /\ seen' = {"dns"} /\ UNCHANGED failure
    <3>1. EvidenceFits' BY <2>2 DEF EvidenceFits
    <3> QED BY <2>2, <3>1, <2>k DEF Advances
  <2> QED BY <1>2, <2>1, <2>2 DEF Egress!DnsWait
<1>3. CASE Egress!Exchange
  <2>x. /\ UNCHANGED <<check, reserve, budget, deadline, slice, attempt, invalid, left, cancelled,
                       verdict, validated>>
        /\ \/ Egress!Connect \/ Egress!Handshake \/ Egress!Write \/ Egress!ReadProof
           \/ Egress!ReadBody \/ Egress!Proved \/ Egress!Observed
    BY <1>3 DEF Egress!Exchange
  <2>f. ASSUME Egress!StageFails, pc \in Trying, UNCHANGED <<seen, refused>> PROVE Fails
    BY <2>f, <2>x, FailureIsNamed DEF Egress!StageFails, Fails, TryKeeps
  <2>g. ASSUME NEW next \in Trying, NEW stage, NEW time, NEW fact, pc \in Trying,
               Egress!Goes(next, stage, time, fact), EvidenceFits'
        PROVE  Advances
    BY <2>g, <2>x DEF Egress!Goes, Advances, TryKeeps
  <2>1. CASE Egress!Connect
    <3>1. CASE Egress!Goes("tls", "tls", IoTime, {"tun"})
      <4>1. EvidenceFits' BY <2>1, <3>1, <1>e DEF Egress!Connect, Egress!Goes, EvidenceFits
      <4> QED BY <2>1, <3>1, <4>1, <2>g DEF Egress!Connect
    <3> QED BY <2>1, <3>1, <2>f DEF Egress!Connect
  <2>2. CASE Egress!Handshake
    <3>1. CASE Egress!Goes("send", "sending", IoTime, {"tls"})
      <4>1. EvidenceFits' BY <2>2, <3>1, <1>e DEF Egress!Handshake, Egress!Goes, EvidenceFits
      <4> QED BY <2>2, <3>1, <4>1, <2>g DEF Egress!Handshake
    <3> QED BY <2>2, <3>1, <2>f DEF Egress!Handshake
  <2>3. CASE Egress!Write
    <3>1. CASE Egress!Goes("response", "response", HeadTime, {})
      <4>1. EvidenceFits' BY <2>3, <3>1, <1>e DEF Egress!Write, Egress!Goes, EvidenceFits
      <4> QED BY <2>3, <3>1, <4>1, <2>g DEF Egress!Write
    <3> QED BY <2>3, <3>1, <2>f DEF Egress!Write
  <2>4. CASE Egress!ReadProof
    <3>1. CASE Egress!Goes("body", "response", HeadTime, {}) /\ Egress!Request = "data"
      <4>1. EvidenceFits'
        BY <2>4, <3>1, <1>e DEF Egress!ReadProof, Egress!Goes, Egress!Request, EvidenceFits
      <4> QED BY <2>4, <3>1, <4>1, <2>g DEF Egress!ReadProof
    <3>2. CASE Egress!Goes("proved", "proof", HeadTime, {"proof"})
      <4>1. EvidenceFits' BY <2>4, <3>2, <1>e DEF Egress!ReadProof, Egress!Goes, EvidenceFits
      <4> QED BY <2>4, <3>2, <4>1, <2>g DEF Egress!ReadProof
    <3>3. CASE /\ UNCHANGED <<io, seen>> /\ refused' = TRUE
               /\ Egress!Stop([obs EXCEPT !.stage = "proof"], "probe_unavailable")
      BY <3>3, <2>4, <2>x DEF Egress!ReadProof, Fails, TryKeeps
    <3> QED BY <2>4, <3>1, <3>2, <3>3, <2>f DEF Egress!ReadProof
  <2>5. CASE Egress!ReadBody
    <3>1. CASE Egress!Goes("body", "response", HeadTime, {"part"})
      <4>1. EvidenceFits' BY <2>5, <3>1, <1>e DEF Egress!ReadBody, Egress!Goes, EvidenceFits
      <4> QED BY <2>5, <3>1, <4>1, <2>g DEF Egress!ReadBody
    <3>2. CASE Egress!Goes("proved", "proof", HeadTime, {"data"})
      <4>1. EvidenceFits' BY <2>5, <3>2, <1>e DEF Egress!ReadBody, Egress!Goes, EvidenceFits
      <4> QED BY <2>5, <3>2, <4>1, <2>g DEF Egress!ReadBody
    <3> QED BY <2>5, <3>1, <3>2, <2>f DEF Egress!ReadBody
  <2>6. CASE Egress!Proved
    <3>1. CASE Egress!TargetInterrupted
      BY <2>6, <3>1, <2>x, FailureIsNamed DEF Egress!Proved, Fails, TryKeeps
    <3>2. CASE ~Egress!TargetInterrupted
      <4>1. EvidenceFits' BY <2>6, <3>2, <1>e DEF Egress!Proved, EvidenceFits
      <4> QED BY <2>6, <3>2, <4>1, <2>x DEF Egress!Proved, Advances, TryKeeps
    <3> QED BY <3>1, <3>2
  <2>7. CASE Egress!Observed
    <3>1. CASE ~Egress!TargetInterrupted /\ check = "startup" /\ "data" \notin seen
      <4>1. EvidenceFits' BY <2>7, <3>1, <1>e DEF Egress!Observed, EvidenceFits
      <4> QED BY <2>7, <3>1, <4>1, <2>x DEF Egress!Observed, Advances, TryKeeps
    <3>2. CASE Egress!TargetInterrupted
      BY <2>7, <3>2, <2>x, FailureIsNamed DEF Egress!Observed, Fails, TryKeeps
    <3>3. CASE ~Egress!TargetInterrupted /\ ~(check = "startup" /\ "data" \notin seen)
      BY <2>7, <3>3, <2>x DEF Egress!Observed, Succeeds, TryKeeps
    <3> QED BY <3>1, <3>2, <3>3
  <2> QED BY <2>x, <2>1, <2>2, <2>3, <2>4, <2>5, <2>6, <2>7
<1> QED BY <1>1, <1>2, <1>3

LEMMA ThreeQuarters == ASSUME NEW t \in Nat PROVE (t * 3) \div 4 \in Nat /\ (t * 3) \div 4 <= t
  OBVIOUS

\* The step of an attempt, one of the loop, or one of the clock and the owner.
LEMMA EgressTry == ASSUME EInv, Fails \/ Advances \/ Succeeds PROVE EInv'
<1> USE DEF TryKeeps, Trying, Connection
<1>k. TryKeeps BY DEF Fails, Advances, Succeeds
<1>p. pc' \in Trying \cup {"judge"} /\ pc \in Trying BY DEF Fails, Advances, Succeeds
<1>v. verdict = "none" /\ verdict' = "none" BY <1>k DEF EInv, VerdictFits
<1>f. failure # "ok" BY <1>k DEF EInv, VerdictFits
<1>1. EgressTypes' BY <1>k, <1>p DEF EInv, EgressTypes
<1>2. EvidenceFits'
  <2>1. CASE Fails BY <2>1 DEF Fails, EvidenceFits
  <2>2. CASE Succeeds BY <2>2 DEF Succeeds, EvidenceFits, EInv
  <2> QED BY <2>1, <2>2 DEF Advances
<1>3. VerdictFits'
  <2>1. CASE Fails BY <2>1, <1>v DEF Fails, VerdictFits, EInv
  <2>2. CASE Succeeds BY <2>2, <1>v, <1>f DEF Succeeds, VerdictFits, EInv
  <2>3. CASE Advances BY <2>3, <1>v, <1>f DEF Advances, VerdictFits, EInv
  <2> QED BY <2>1, <2>2, <2>3
<1>4. TimeIsShared' BY <1>k, <1>p DEF EInv, TimeIsShared
<1>5. CauseIsKept' BY <1>k DEF EInv, CauseIsKept
<1>6. Egress!SuccessIsProven' /\ Egress!InvalidProofIsReported'
  BY <1>v, <1>p DEF Egress!SuccessIsProven, Egress!InvalidProofIsReported
<1>7. Egress!ReserveGetsItsShare' BY <1>k DEF EInv, Egress!ReserveGetsItsShare
<1> QED BY <1>1, <1>2, <1>3, <1>4, <1>5, <1>6, <1>7 DEF EInv

LEMMA EgressAttempt == ASSUME Egress!Times, EInv, Egress!Attempt PROVE EInv'
<1> USE DEF Trying, Connection, Egress!fixed
<1>n. NoTime \in Nat /\ Gap \in Nat BY DEF Egress!Times
<1>k. /\ pc = "attempt" /\ verdict = "none"
      /\ UNCHANGED <<check, reserve, budget, deadline, attempt, io, failure, invalid, refused,
                     last, ioLast, cancelled, validated>>
  BY DEF Egress!Attempt, EInv, VerdictFits
<1>1. CASE attempt < 3 /\ ~Egress!Interrupted
  <2>1. /\ pc' = "dns_setup" /\ slice' = Egress!Slice /\ seen' = {} /\ verdict' = verdict
        /\ left' = IF left = NoTime /\ Egress!Index(attempt) = 1 THEN deadline ELSE left
    BY <1>1 DEF Egress!Attempt
  <2>f. failure # "ok" BY <1>1, <1>k DEF EInv, VerdictFits
  <2>s. /\ slice' \in Nat
        /\ check = "periodic" /\ reserve /\ attempt = 0 /\ deadline > Gap => slice' <= deadline - Gap
        /\ check = "periodic" /\ reserve /\ attempt = 0 /\ deadline <= Gap => slice' = 0
    <3>1. deadline \in Nat BY DEF EInv, EgressTypes
    <3>2. CASE check = "periodic" /\ reserve /\ attempt = 0 /\ deadline > Gap
      <4>1. slice' = ((deadline - Gap) * 3) \div 4
        BY <3>2, <2>1 DEF Egress!Slice, Egress!Count
      <4>2. deadline - Gap \in Nat BY <3>1, <3>2, <1>n
      <4>3. slice' \in Nat /\ slice' <= deadline - Gap BY <4>1, <4>2, ThreeQuarters
      <4> QED BY <3>1, <3>2, <4>3, <1>n
    <3>3. CASE check = "periodic" /\ reserve /\ attempt = 0 /\ deadline <= Gap
      <4>0. ~(deadline > Gap) BY <3>3, <3>1, <1>n
      <4>1. slice' = (0 * 3) \div 4 BY <3>3, <4>0, <2>1 DEF Egress!Slice, Egress!Count
      <4>2. slice' = 0 BY <4>1
      <4> QED BY <3>3, <4>0, <4>2
    <3>4. CASE ~(check = "periodic" /\ reserve /\ attempt = 0)
      <4>1. slice' = deadline BY <3>4, <2>1 DEF Egress!Slice, Egress!Count
      <4> QED BY <3>1, <3>4, <4>1
    <3> QED BY <3>1, <3>2, <3>3, <3>4, <1>n
  <2>l. /\ reserve /\ attempt = 1 => left' = IF left = NoTime THEN deadline ELSE left
        /\ reserve /\ attempt = 0 => left' = left
        /\ ~reserve => left' = left
        /\ attempt # 1 /\ left # NoTime => left' = left
    BY <2>1 DEF Egress!Index, Egress!Count
  <2>2. EgressTypes' BY <1>k, <2>1, <2>s DEF EInv, EgressTypes
  <2>3. EvidenceFits' BY <2>1 DEF EvidenceFits
  <2>4. VerdictFits' BY <1>k, <2>1, <2>f DEF EInv, VerdictFits
  <2>5. TimeIsShared'
    <3>1. SUFFICES ASSUME check = "periodic" PROVE TimeIsShared' BY <1>k DEF TimeIsShared
    <3>2. /\ deadline <= budget /\ budget < NoTime
          /\ reserve /\ attempt = 0 => deadline = budget
          /\ reserve /\ left = NoTime => attempt = 0 \/ attempt = 1
      BY <3>1, <1>k DEF EInv, TimeIsShared
    <3>3. /\ deadline \in Nat /\ budget \in Nat BY DEF EInv, EgressTypes
    <3>4. reserve /\ attempt = 0 => deadline >= Gap + slice' \/ (deadline = budget /\ slice' = 0)
      <4>1. CASE deadline > Gap
        <5>1. ASSUME reserve, attempt = 0 PROVE slice' \in Nat /\ slice' <= deadline - Gap
          BY <4>1, <5>1, <3>1, <2>s
        <5>2. ASSUME NEW s \in Nat, s <= deadline - Gap PROVE deadline >= Gap + s
          BY <4>1, <5>2, <3>3, <1>n
        <5> QED BY <5>1, <5>2
      <4>2. CASE deadline <= Gap BY <4>2, <3>1, <3>2, <3>3, <2>s, <1>n
      <4> QED BY <4>1, <4>2, <3>3, <1>n
    <3>5. reserve /\ left' = NoTime => attempt = 0
      BY <3>2, <3>3, <2>l, <1>n
    <3> QED BY <1>k, <2>1, <3>2, <3>4, <3>5 DEF TimeIsShared
  <2>6. CauseIsKept' BY <1>k DEF EInv, CauseIsKept
  <2>7. Egress!SuccessIsProven' /\ Egress!InvalidProofIsReported'
    BY <1>k, <2>1 DEF Egress!SuccessIsProven, Egress!InvalidProofIsReported
  <2>8. Egress!ReserveGetsItsShare'
    <3>1. CASE left' = left \/ check # "periodic"
      BY <3>1, <1>k DEF EInv, Egress!ReserveGetsItsShare
    <3>2. CASE left' # left /\ check = "periodic"
      <4>1. reserve /\ left = NoTime /\ left' = deadline BY <3>2, <2>1, <2>l
      <4>2. attempt = 1 BY <3>2, <4>1, <2>l, <1>k DEF EInv, TimeIsShared
      <4> QED BY <3>2, <4>1, <4>2, <1>k DEF EInv, TimeIsShared, Egress!ReserveGetsItsShare
    <3> QED BY <3>1, <3>2
  <2> QED BY <2>2, <2>3, <2>4, <2>5, <2>6, <2>7, <2>8 DEF EInv
<1>2. CASE ~(attempt < 3 /\ ~Egress!Interrupted)
  <2>1. /\ pc' = "done" /\ UNCHANGED <<slice, obs, seen, left>>
        /\ verdict' = IF invalid THEN "probe_unavailable"
                      ELSE IF Egress!Interrupted THEN "probe_failed" ELSE failure
    BY <1>2 DEF Egress!Attempt
  <2>2. verdict' # "ok" BY <1>k, <2>1 DEF EInv, VerdictFits
  <2>3. refused => verdict' = "probe_unavailable" BY <1>k, <2>1 DEF EInv, VerdictFits
  <2>4. EgressTypes' /\ EvidenceFits' BY <1>k, <2>1 DEF EInv, EgressTypes, EvidenceFits
  <2>5. VerdictFits' BY <1>k, <2>1 DEF EInv, VerdictFits
  <2>6. TimeIsShared' BY <1>k, <2>1 DEF EInv, TimeIsShared
  <2>7. CauseIsKept' /\ Egress!ReserveGetsItsShare'
    BY <1>k, <2>1 DEF EInv, CauseIsKept, Egress!ReserveGetsItsShare
  <2>8. Egress!SuccessIsProven' /\ Egress!InvalidProofIsReported'
    BY <1>k, <2>2, <2>3 DEF Egress!SuccessIsProven, Egress!InvalidProofIsReported
  <2> QED BY <2>4, <2>5, <2>6, <2>7, <2>8 DEF EInv
<1> QED BY <1>1, <1>2

LEMMA EgressLoop ==
  ASSUME Egress!Times, EInv, Egress!Judge \/ Egress!RetryWait \/ Egress!Finish
  PROVE  EInv'
<1> USE DEF Trying, Connection, Egress!fixed
<1>n. NoTime \in Nat /\ Gap \in Nat BY DEF Egress!Times
<1>1. CASE Egress!Judge
  <2>k. /\ pc = "judge" /\ verdict = "none"
        /\ UNCHANGED <<check, reserve, budget, deadline, slice, obs, seen, failure, refused, last,
                       ioLast, left, cancelled, validated>>
    BY <1>1 DEF Egress!Judge, EInv, VerdictFits
  <2>t. /\ deadline \in Nat /\ slice \in Nat /\ attempt \in Nat /\ budget \in Nat /\ left \in Nat
        /\ cancelled \in BOOLEAN /\ reserve \in BOOLEAN
    BY DEF EInv, EgressTypes
  <2>c. CauseIsKept' /\ Egress!ReserveGetsItsShare'
    BY <2>k DEF EInv, CauseIsKept, Egress!ReserveGetsItsShare
  <2>1. CASE failure = "ok" /\ ~Egress!Interrupted
    <3>1. pc' = "done" /\ verdict' = "ok" /\ UNCHANGED <<attempt, io, invalid>>
      BY <1>1, <2>1 DEF Egress!Judge
    <3>2. EgressTypes' /\ EvidenceFits' /\ VerdictFits'
      BY <2>k, <2>t, <3>1 DEF EgressTypes, EvidenceFits, VerdictFits
    <3>3. TimeIsShared' BY <2>k, <3>1 DEF EInv, TimeIsShared
    <3>4. Egress!SuccessIsProven' /\ Egress!InvalidProofIsReported'
      BY <2>k, <2>1, <3>1 DEF EInv, EvidenceFits, Egress!SuccessIsProven, Egress!InvalidProofIsReported
    <3> QED BY <2>c, <3>2, <3>3, <3>4 DEF EInv
  <2>2. CASE ~(failure = "ok" /\ ~Egress!Interrupted)
    <3>1. /\ invalid' = (invalid \/ failure = "probe_unavailable") /\ verdict' = verdict
          /\ \/ pc' = "gap" /\ attempt' = attempt /\ Egress!Waits
             \/ pc' = "attempt" /\ attempt' = attempt + 1
      BY <1>1, <2>2 DEF Egress!Judge, Egress!InvalidAfter
    <3>2. EgressTypes' /\ EvidenceFits' BY <2>k, <2>t, <3>1 DEF EgressTypes, EvidenceFits
    <3>3. VerdictFits'
      BY <2>k, <2>2, <3>1 DEF EInv, VerdictFits, Egress!Interrupted
    <3>w. pc' = "gap" /\ check = "periodic" /\ reserve => attempt # 0
      BY <3>1 DEF Egress!Waits, Egress!Index, Egress!Count
    <3>4. TimeIsShared'
      <4>1. SUFFICES ASSUME check = "periodic" PROVE TimeIsShared' BY <2>k DEF TimeIsShared
      <4>2. /\ deadline <= budget /\ budget < NoTime
            /\ reserve /\ attempt = 0 => deadline >= Gap + slice \/ deadline = budget
            /\ reserve /\ left = NoTime => attempt = 0
        BY <4>1, <2>k DEF EInv, TimeIsShared
      <4>3. reserve /\ attempt = 0 => deadline >= Gap \/ deadline = budget
        BY <4>2, <2>t, <1>n
      <4>4. CASE pc' = "gap" /\ attempt' = attempt
        BY <4>1, <4>2, <4>4, <3>w, <2>k DEF TimeIsShared
      <4>5. CASE pc' = "attempt" /\ attempt' = attempt + 1
        <5>1. attempt' # 0 /\ (attempt' = 1 => attempt = 0) /\ (attempt = 0 => attempt' = 1)
          BY <4>5, <2>t
        <5> QED BY <4>2, <4>3, <4>5, <5>1, <2>k DEF TimeIsShared
      <4> QED BY <3>1, <4>4, <4>5
    <3>5. Egress!SuccessIsProven' /\ Egress!InvalidProofIsReported'
      BY <2>k, <3>1 DEF Egress!SuccessIsProven, Egress!InvalidProofIsReported
    <3> QED BY <2>c, <3>2, <3>3, <3>4, <3>5 DEF EInv
  <2> QED BY <2>1, <2>2
<1>2. CASE Egress!RetryWait
  <2>k. /\ pc = "gap" /\ verdict = "none" /\ pc' = "attempt" /\ attempt' = attempt + 1
        /\ last' = (IF Egress!Interrupted THEN Egress!WaitRecord ELSE last)
        /\ UNCHANGED <<check, reserve, budget, deadline, slice, io, obs, seen, failure, invalid,
                       refused, ioLast, left, cancelled, verdict, validated>>
    BY <1>2 DEF Egress!RetryWait, EInv, VerdictFits
  <2>t. /\ deadline \in Nat /\ slice \in Nat /\ attempt \in Nat /\ budget \in Nat /\ left \in Nat
        /\ cancelled \in BOOLEAN /\ reserve \in BOOLEAN
    BY DEF EInv, EgressTypes
  <2>1. EgressTypes' /\ EvidenceFits' BY <2>k, <2>t DEF EgressTypes, EvidenceFits
  <2>2. VerdictFits' BY <2>k DEF EInv, VerdictFits, Egress!Interrupted
  <2>3. TimeIsShared'
    <3>1. SUFFICES ASSUME check = "periodic" PROVE TimeIsShared' BY <2>k DEF TimeIsShared
    <3>2. /\ deadline <= budget /\ budget < NoTime /\ (reserve => attempt # 0)
          /\ ~(reserve /\ left = NoTime)
      BY <3>1, <2>k DEF EInv, TimeIsShared
    <3>3. attempt' # 0 /\ (reserve => attempt' # 1) BY <3>2, <2>k, <2>t
    <3> QED BY <3>2, <3>3, <2>k DEF TimeIsShared
  <2>4. CauseIsKept'
    <3>1. last' = last \/ last.outcome \in {"none", "succeeded"}
      <4>1. Egress!NoRecord.outcome = "none" BY DEF Egress!NoRecord
      <4> QED BY <4>1, <2>k DEF Egress!WaitRecord
    <3> QED BY <3>1, <2>k DEF EInv, CauseIsKept
  <2>5. Egress!ReserveGetsItsShare' BY <2>k DEF EInv, Egress!ReserveGetsItsShare
  <2>6. Egress!SuccessIsProven' /\ Egress!InvalidProofIsReported'
    BY <2>k DEF Egress!SuccessIsProven, Egress!InvalidProofIsReported
  <2> QED BY <2>1, <2>2, <2>3, <2>4, <2>5, <2>6 DEF EInv
<1>3. CASE Egress!Finish
  BY <1>3 DEF Egress!Finish, EInv, EgressTypes, EvidenceFits, VerdictFits, TimeIsShared,
     CauseIsKept, Egress!ReserveGetsItsShare, Egress!SuccessIsProven, Egress!InvalidProofIsReported
<1> QED BY <1>1, <1>2, <1>3

\* Time passes, or the owner cancels.
LEMMA EgressClock == ASSUME Egress!Times, EInv, Egress!Tick \/ Egress!Cancel PROVE EInv'
<1> USE DEF Trying, Connection, Egress!fixed
<1>n. NoTime \in Nat /\ Gap \in Nat BY DEF Egress!Times
<1>t. /\ deadline \in Nat /\ slice \in Nat /\ attempt \in Nat /\ budget \in Nat /\ left \in Nat
      /\ cancelled \in BOOLEAN /\ reserve \in BOOLEAN
  BY DEF EInv, EgressTypes
<1>1. CASE Egress!Tick
  <2>k. /\ pc \notin {"idle", "done"}
        /\ UNCHANGED <<check, reserve, budget, attempt, pc, obs, seen, failure, invalid, refused,
                       last, ioLast, left, cancelled, verdict, validated>>
    BY <1>1 DEF Egress!Tick
  <2>d. deadline' = Egress!Less(deadline) /\ slice' = Egress!Less(slice) BY <1>1 DEF Egress!Tick
  <2>i. deadline # 0 /\ ~cancelled /\ pc # "attempt" /\ pc # "judge" /\ (pc # "gap" => slice # 0)
    BY <1>1 DEF Egress!Tick, Egress!Waiting, Egress!TargetInterrupted, Egress!Interrupted
  <2>1. EgressTypes' BY <1>t, <2>k, <2>d DEF EInv, EgressTypes, Egress!Less
  <2>2. EvidenceFits' BY <2>k DEF EInv, EvidenceFits
  <2>3. VerdictFits'
    <3>1. pc = "gap" => failure # "ok" BY <2>i DEF EInv, VerdictFits, Egress!Interrupted
    <3> QED BY <3>1, <2>k, <2>i DEF EInv, VerdictFits
  <2>4. TimeIsShared'
    <3>1. SUFFICES ASSUME check = "periodic" PROVE TimeIsShared' BY <2>k DEF TimeIsShared
    <3>2. deadline <= budget /\ budget < NoTime BY <3>1 DEF EInv, TimeIsShared
    <3>3. deadline' = deadline - 1 BY <3>2, <2>d, <2>i, <1>t, <1>n DEF Egress!Less
    <3>4. reserve /\ attempt = 0 => pc \in Trying /\ deadline' >= Gap + slice'
      <4>1. SUFFICES ASSUME reserve, attempt = 0 PROVE pc \in Trying /\ deadline' >= Gap + slice'
        OBVIOUS
      <4>2. pc # "gap" /\ pc \in Trying BY <4>1, <3>1, <2>k, <2>i DEF EInv, TimeIsShared, EgressTypes
      <4>3. deadline >= Gap + slice BY <4>1, <4>2, <3>1, <2>i DEF EInv, TimeIsShared
      <4>4. slice' = slice - 1 BY <4>2, <4>3, <3>2, <2>d, <2>i, <1>t, <1>n DEF Egress!Less
      <4> QED BY <4>2, <4>3, <4>4, <3>3, <1>t, <1>n
    <3>5. deadline' <= budget BY <3>2, <3>3, <1>t
    <3>6. reserve /\ left = NoTime => attempt = 0 BY <3>1, <2>k, <2>i DEF EInv, TimeIsShared
    <3> QED BY <3>2, <3>4, <3>5, <3>6, <2>k, <2>i DEF TimeIsShared
  <2>5. CauseIsKept' /\ Egress!ReserveGetsItsShare'
    BY <2>k DEF EInv, CauseIsKept, Egress!ReserveGetsItsShare
  <2>6. Egress!SuccessIsProven' /\ Egress!InvalidProofIsReported'
    BY <2>k DEF EInv, Egress!SuccessIsProven, Egress!InvalidProofIsReported
  <2> QED BY <2>1, <2>2, <2>3, <2>4, <2>5, <2>6 DEF EInv
<1>2. CASE Egress!Cancel
  <2>k. /\ cancelled' = TRUE
        /\ UNCHANGED <<check, reserve, budget, deadline, slice, attempt, pc, obs, seen, failure,
                       invalid, refused, last, ioLast, left, verdict>>
    BY <1>2 DEF Egress!Cancel
  <2>1. EgressTypes'
    <3>1. cancelled' \in BOOLEAN BY <2>k, Zenon
    <3> QED BY <3>1, <1>t, <2>k DEF EInv, EgressTypes
  <2>2. EvidenceFits' /\ TimeIsShared' BY <2>k DEF EInv, EvidenceFits, TimeIsShared
  <2>3. VerdictFits' BY <2>k DEF EInv, VerdictFits, Egress!Interrupted
  <2>4. /\ CauseIsKept' /\ Egress!ReserveGetsItsShare' /\ Egress!SuccessIsProven'
        /\ Egress!InvalidProofIsReported'
    BY <2>k DEF EInv, CauseIsKept, Egress!ReserveGetsItsShare, Egress!SuccessIsProven,
       Egress!InvalidProofIsReported
  <2> QED BY <2>1, <2>2, <2>3, <2>4 DEF EInv
<1> QED BY <1>1, <1>2

LEMMA EgressStart == ASSUME Egress!Times, EInv, NEW k \in Checks, Egress!Start(k) PROVE EInv'
<1>n. NoTime \in Nat /\ Budgets \subseteq 0..(NoTime - 1) BY DEF Egress!Times
<1>k. /\ check' = k /\ pc' = "attempt" /\ budget' = deadline' /\ attempt' = 0 /\ seen' = {}
      /\ slice' = NoTime /\ failure' = "probe_failed" /\ last' = ioLast'
      /\ left' = NoTime /\ verdict' = "none"
  BY DEF Egress!Start
<1>b. reserve' \in BOOLEAN /\ cancelled' \in BOOLEAN /\ refused' = FALSE
  BY Zenon DEF Egress!Start
<1>d. deadline' \in Nat /\ (check' = "periodic" => deadline' < NoTime)
  BY <1>n DEF Egress!Start
<1>1. EgressTypes' BY <1>n, <1>k, <1>b, <1>d DEF EgressTypes
<1>2. EvidenceFits' /\ VerdictFits' BY <1>k, <1>b DEF EvidenceFits, VerdictFits, Connection, Trying
<1>3. TimeIsShared' BY <1>k, <1>d DEF TimeIsShared, Connection, Trying
<1>4. CauseIsKept' /\ Egress!ReserveGetsItsShare' BY <1>k DEF CauseIsKept, Egress!ReserveGetsItsShare
<1>5. Egress!SuccessIsProven' /\ Egress!InvalidProofIsReported'
  BY <1>k DEF Egress!SuccessIsProven, Egress!InvalidProofIsReported
<1> QED BY <1>1, <1>2, <1>3, <1>4, <1>5 DEF EInv

LEMMA EgressInit == ASSUME Egress!Times, Egress!Init PROVE EInv
<1>n. NoTime \in Nat BY DEF Egress!Times
<1>k. /\ check = "startup" /\ pc = "idle" /\ budget = NoTime /\ deadline = NoTime /\ attempt = 0
      /\ slice = NoTime /\ failure = "none" /\ last = ioLast /\ left = NoTime /\ verdict = "none"
  BY DEF Egress!Init
<1>b. reserve \in BOOLEAN /\ cancelled \in BOOLEAN /\ refused = FALSE BY Zenon DEF Egress!Init
<1> QED BY <1>n, <1>k, <1>b DEF EInv, EgressTypes, EvidenceFits, VerdictFits, TimeIsShared,
   CauseIsKept, Connection, Trying, Egress!SuccessIsProven, Egress!ReserveGetsItsShare,
   Egress!InvalidProofIsReported

\* Success is a proof on one connection through the TUN, the reserve gets its
\* share of the time, a failure is reported with the exchange that caused it, and
\* a refused proof is reported as such whatever failed afterwards (Verify,
\* ProbeOnce), for every budget and every time of the waits.
THEOREM EgressFounded == ASSUME Egress!Times PROVE Egress!Spec => []VerdictIsFounded
<1>1. Egress!Init => EInv BY EgressInit
<1>2. EInv /\ [Egress!Next]_Egress!vars => EInv'
  <2>1. SUFFICES ASSUME EInv, [Egress!Next]_Egress!vars PROVE EInv' OBVIOUS
  <2>2. CASE UNCHANGED Egress!vars
    BY <2>1, <2>2 DEF Egress!vars, EInv, EgressTypes, EvidenceFits, VerdictFits, TimeIsShared,
       CauseIsKept, Egress!Interrupted, Egress!SuccessIsProven, Egress!ReserveGetsItsShare,
       Egress!InvalidProofIsReported
  <2>3. CASE Egress!Step BY <2>1, <2>3, TryKinds, EgressTry, EgressAttempt, EgressLoop DEF Egress!Step
  <2> QED BY <2>1, <2>2, <2>3, EgressStart, EgressClock DEF Egress!Next
<1>3. EInv => VerdictIsFounded
  <2>1. EInv => Egress!WaitKeepsTheCause BY DEF EInv, CauseIsKept, Egress!WaitKeepsTheCause
  <2> QED BY <2>1 DEF EInv, VerdictIsFounded, Egress!VerdictIsFounded
<1> QED BY <1>1, <1>2, <1>3, PTL DEF Egress!Spec

-----------------------------------------------------------------------------
(* Candidate probes *)

\* What a call's record may be.
CallRecords ==
  [id : Ids, worker : 1..MaxWorkers, flag : BOOLEAN,
   at : {"free", "queued", "invoked", "waiting", "lost", "over"},
   answer : {"none", "settled", "lost"},
   svc : {"none", "sent", "listed", "core", "back", "judged", "retired"},
   cancelled : BOOLEAN, expected : Nat, seen : Nat, changed : BOOLEAN,
   result : {"none", "success", "failed"}, waiters : 0..1,
   told : {"none", "settled", "unconfirmed"}]

InCall == {"invoked", "waiting", "lost"}
OnTheWay == {"sent", "listed", "core", "back", "judged"}

\* A request leaves with the call, an answer is that of a probe that is over, and
\* what is measured is measured on one network or known to be not.
CallFits(r) ==
  /\ r \in CallRecords
  /\ r.at \in {"free", "queued", "invoked"} => r.svc = "none"
  /\ r.at = "over" => r.answer # "none"
  /\ r.at = "over" /\ r.answer = "settled" => r.svc \in {"none", "retired"}
  /\ r.told = "settled" => r.at = "over" /\ r.answer = "settled"
  /\ r.svc \in {"none", "sent", "listed"} => ~r.changed
  /\ r.svc \in {"core", "back"} =>
       r.seen = r.expected /\ r.seen <= net /\ (r.changed => r.seen # net)
  /\ r.svc \in {"judged", "retired"} /\ r.result = "success" =>
       ~r.changed /\ r.seen = r.expected

CallsFit == probe = [c \in Candidate!Calls |-> probe[c]] /\ \A c \in Candidate!Calls : CallFits(probe[c])

\* A worker has one call or nothing, and while the window is open the table of
\* pending candidates names it.
Idles(w) == worker[w].tasks = <<>> /\ worker[w].running = 0 /\ worker[w].ready = <<>>
Has(w, c) ==
  \/ /\ worker[w].tasks = <<c>> /\ worker[w].running = 0 /\ worker[w].ready = <<>>
     /\ probe[c].at = "queued"
  \/ /\ worker[w].tasks = <<>> /\ worker[w].running = c /\ worker[w].ready = <<>>
     /\ probe[c].at \in InCall
  \/ /\ worker[w].tasks = <<>> /\ worker[w].running = 0 /\ worker[w].ready = <<c>>
     /\ probe[c].at = "over"
Named(c) == window = 0 => pending[probe[c].id] = c
WorkerFits(w) ==
  Idles(w) \/ \E c \in Candidate!Calls : probe[c].worker = w /\ Named(c) /\ Has(w, c)

WorkersFit ==
  /\ worker \in [Candidate!Workers ->
                   [tasks : Seq(Candidate!Calls), running : 0..MaxCalls, ready : Seq(Candidate!Calls)]]
  /\ \A w \in Candidate!Workers : WorkerFits(w)
  /\ \A c \in Candidate!Calls : probe[c].at \in InCall => worker[probe[c].worker].running = c

TableFits ==
  /\ pending \in [Ids -> 0..MaxCalls]
  /\ \A i \in Ids : pending[i] # 0 => probe[pending[i]].id = i /\ probe[pending[i]].at # "free"

WindowFits ==
  /\ lost \in BOOLEAN /\ forgiven \subseteq Candidate!Calls
  /\ window \in 0..(MaxWorkers + 1) /\ net \in 1..MaxNet

KInv ==
  /\ WindowFits /\ TableFits /\ WorkersFit /\ CallsFit
  /\ Candidate!WatchedOrLatched /\ Cardinality(Candidate!Listed) <= MaxProbes

-----------------------------------------------------------------------------
LEMMA ProbeCounts == ASSUME NEW S PROVE Candidate!Cardinality(S) = Cardinality(S)
  BY DEF Candidate!Cardinality, Cardinality

LEMMA One == ASSUME NEW c PROVE /\ Append(<<>>, c) = <<c>> /\ <<c>> # <<>> /\ Len(<<c>>) = 1
                                /\ Head(<<c>>) = c /\ Tail(<<c>>) = <<>> /\ Len(<<>>) = 0
  OBVIOUS

\* Of any workers one has the smallest number.
LEMMA Smallest == ASSUME NEW S, S \subseteq Nat, S # {} PROVE Candidate!Min(S) \in S
<1> DEFINE Below == OpToRel(<, Nat)
<1>1. IsWellFoundedOn(Below, Nat) BY NatLessThanWellFounded
<1>2. \E x \in S : \A y \in S : ~ (<<y, x>> \in Below)
  <2> HIDE DEF Below
  <2> QED BY <1>1, WFMin
<1>3. PICK x \in S : \A y \in S : ~ (<<y, x>> \in Below) BY <1>2
<1>4. \A y \in S : ~ (y < x) BY <1>3 DEF OpToRel
<1>5. \A y \in S : x <= y BY <1>4
<1> QED BY <1>5 DEF Candidate!Min

\* The counts that the steps below need.
LEMMA CandidateNumbers ==
  ASSUME Candidate!ProbeAssumption
  PROVE  /\ MaxWorkers \in Nat \ {0} /\ MaxProbes \in Nat \ {0} /\ MaxCalls \in Nat \ {0}
         /\ MaxNet \in Nat \ {0} /\ Candidate!Calls = 1..MaxCalls
         /\ Candidate!Workers = 1..MaxWorkers /\ IsFiniteSet(Candidate!Calls)
         /\ 0 \notin Candidate!Calls /\ Candidate!Calls \subseteq Nat
<1>1. /\ MaxWorkers \in Nat \ {0} /\ MaxProbes \in Nat \ {0} /\ MaxCalls \in Nat \ {0}
      /\ MaxNet \in Nat \ {0}
  BY DEF Candidate!ProbeAssumption
<1>2. IsFiniteSet(1..MaxCalls) BY <1>1, FS_Interval
<1> QED BY <1>1, <1>2 DEF Candidate!Calls, Candidate!Workers

\* A list that grows by at most the call that is admitted stays in its bound.
LEMMA ListFits ==
  ASSUME Candidate!ProbeAssumption, KInv, Candidate!Listed' \subseteq Candidate!Listed
  PROVE  Cardinality(Candidate!Listed') <= MaxProbes
<1>1. IsFiniteSet(Candidate!Listed)
  <2>1. Candidate!Listed \in SUBSET Candidate!Calls BY DEF Candidate!Listed
  <2> QED BY <2>1, CandidateNumbers, FS_Subset, Zenon
<1>2. /\ IsFiniteSet(Candidate!Listed')
      /\ Cardinality(Candidate!Listed') <= Cardinality(Candidate!Listed)
  BY <1>1, FS_Subset
<1>3. Cardinality(Candidate!Listed) \in Nat /\ Cardinality(Candidate!Listed') \in Nat
  BY <1>1, <1>2, FS_CardinalityType
<1>4. Cardinality(Candidate!Listed) <= MaxProbes BY DEF KInv
<1>5. MaxProbes \in Nat BY CandidateNumbers
<1> QED BY <1>2, <1>3, <1>4, <1>5

\* A step that writes one record, of a call that stays where its worker has it.
LEMMA MoveKept ==
  ASSUME Candidate!ProbeAssumption, KInv, NEW c \in Candidate!Calls, NEW r, CallFits(r),
         probe' = [probe EXCEPT ![c] = r],
         UNCHANGED <<pending, lost, worker, window, net, forgiven>>,
         r.id = probe[c].id, r.worker = probe[c].worker,
         r.at = probe[c].at \/ (r.at \in InCall /\ probe[c].at \in InCall),
         r.svc \in OnTheWay => Candidate!Active(c) \/ Named(c),
         Cardinality(Candidate!Listed') <= MaxProbes
  PROVE  KInv'
<1>1. /\ probe'[c] = r
      /\ \A d \in Candidate!Calls : d # c => probe'[d] = probe[d]
      /\ probe' = [d \in Candidate!Calls |-> probe'[d]]
  BY DEF KInv, CallsFit
<1>2. CallsFit'
  <2>1. \A d \in Candidate!Calls : CallFits(probe'[d]) BY <1>1 DEF KInv, CallsFit
  <2> QED BY <1>1, <2>1 DEF CallsFit, CallFits
<1>3. \A d \in Candidate!Calls :
        /\ probe'[d].id = probe[d].id /\ probe'[d].worker = probe[d].worker
        /\ probe'[d].at = probe[d].at \/ (probe'[d].at \in InCall /\ probe[d].at \in InCall)
  BY <1>1
<1>4. TableFits'
  <2>1. \A i \in Ids : pending[i] # 0 => pending[i] \in Candidate!Calls
    BY CandidateNumbers DEF KInv, TableFits
  <2> QED BY <1>3, <2>1 DEF KInv, TableFits, InCall
<1>5. WorkersFit'
  <2>1. ASSUME NEW w \in Candidate!Workers PROVE WorkerFits(w)'
    BY <1>3 DEF KInv, WorkersFit, WorkerFits, Has, Named, Idles, InCall
  <2>2. \A d \in Candidate!Calls : probe'[d].at \in InCall => worker[probe'[d].worker].running = d
    BY <1>3 DEF KInv, WorkersFit, InCall
  <2> QED BY <2>1, <2>2 DEF KInv, WorkersFit
<1>6. Candidate!WatchedOrLatched'
  BY <1>1, <1>3 DEF KInv, Candidate!WatchedOrLatched, Candidate!Active, OnTheWay, Named, Candidate!Open
<1>7. WindowFits' BY DEF KInv, WindowFits
<1> QED BY <1>2, <1>4, <1>5, <1>6, <1>7 DEF KInv

\* What KInv says of the record of a call.
LEMMA RecordOf ==
  ASSUME KInv, NEW c \in Candidate!Calls
  PROVE  CallFits(probe[c]) /\ probe[c] \in CallRecords
  BY DEF KInv, CallsFit, CallFits

\* A record that stays as listed as it was.
LEMMA SameList ==
  ASSUME Candidate!ProbeAssumption, KInv, NEW c \in Candidate!Calls, NEW r,
         probe' = [probe EXCEPT ![c] = r],
         r.svc \in {"listed", "core", "back", "judged"} =>
           probe[c].svc \in {"listed", "core", "back", "judged"}
  PROVE  Cardinality(Candidate!Listed') <= MaxProbes
<1>1. \A d \in Candidate!Calls : d # c => probe'[d] = probe[d] BY DEF KInv, CallsFit
<1>2. probe'[c] = r BY DEF KInv, CallsFit
<1>3. Candidate!Listed' \subseteq Candidate!Listed BY <1>1, <1>2 DEF Candidate!Listed
<1> QED BY <1>3, ListFits

\* The service's steps.
LEMMA AdmitKept ==
  ASSUME Candidate!ProbeAssumption, KInv, NEW c \in Candidate!Calls, Candidate!Admit(c)
  PROVE  KInv'
<1> DEFINE full == Candidate!Cardinality(Candidate!Listed) >= MaxProbes
                     \/ \E d \in Candidate!Listed : probe[d].id = probe[c].id
           rejected == [probe[c] EXCEPT !.svc = "retired", !.result = "failed"]
           taken == [probe[c] EXCEPT !.svc = "listed"]
<1>r. CallFits(probe[c]) /\ probe[c] \in CallRecords BY RecordOf
<1>0. /\ probe[c].svc = "sent" /\ Candidate!Active(c)
      /\ UNCHANGED <<pending, lost, worker, window, net, forgiven>>
      /\ probe' = [probe EXCEPT ![c] = IF full THEN rejected ELSE taken]
  BY DEF Candidate!Admit, Candidate!Service, Candidate!Active
<1>1. CASE full
  <2>1. probe' = [probe EXCEPT ![c] = rejected] BY <1>0, <1>1
  <2>2. /\ CallFits(rejected) /\ rejected.id = probe[c].id /\ rejected.worker = probe[c].worker
        /\ rejected.at = probe[c].at /\ rejected.svc = "retired"
    <3>1. /\ rejected \in CallRecords /\ rejected.id = probe[c].id
          /\ rejected.worker = probe[c].worker /\ rejected.at = probe[c].at
          /\ rejected.answer = probe[c].answer /\ rejected.svc = "retired"
          /\ rejected.told = probe[c].told /\ rejected.changed = probe[c].changed
          /\ rejected.seen = probe[c].seen /\ rejected.expected = probe[c].expected
          /\ rejected.result = "failed"
      BY <1>r DEF CallRecords
    <3> HIDE DEF rejected
    <3> QED BY <1>r, <1>0, <3>1 DEF CallFits
  <2>3. Cardinality(Candidate!Listed') <= MaxProbes
    <3> HIDE DEF rejected
    <3> QED BY <2>1, <2>2, SameList
  <2> HIDE DEF rejected
  <2> QED BY <1>0, <2>1, <2>2, <2>3, MoveKept
<1>2. CASE ~full
  <2>1. probe' = [probe EXCEPT ![c] = taken] BY <1>0, <1>2
  <2>2. /\ CallFits(taken) /\ taken.id = probe[c].id /\ taken.worker = probe[c].worker
        /\ taken.at = probe[c].at /\ taken.svc = "listed"
    <3>1. /\ taken \in CallRecords /\ taken.id = probe[c].id
          /\ taken.worker = probe[c].worker /\ taken.at = probe[c].at
          /\ taken.answer = probe[c].answer /\ taken.svc = "listed"
          /\ taken.told = probe[c].told /\ taken.changed = probe[c].changed
          /\ taken.seen = probe[c].seen /\ taken.expected = probe[c].expected
          /\ taken.result = probe[c].result
      BY <1>r DEF CallRecords
    <3> HIDE DEF taken
    <3> QED BY <1>r, <1>0, <3>1 DEF CallFits
  <2>3. Cardinality(Candidate!Listed') <= MaxProbes
    <3>1. \A d \in Candidate!Calls : d # c => probe'[d] = probe[d] BY <2>1 DEF KInv, CallsFit
    <3>2. probe'[c] = taken BY <2>1 DEF KInv, CallsFit
    <3>3. Candidate!Listed' = Candidate!Listed \cup {c} /\ c \notin Candidate!Listed
      BY <3>1, <3>2, <2>2, <1>0 DEF Candidate!Listed
    <3>4. IsFiniteSet(Candidate!Listed)
      <4>1. Candidate!Listed \in SUBSET Candidate!Calls BY DEF Candidate!Listed
      <4> QED BY <4>1, CandidateNumbers, FS_Subset, Zenon
    <3>5. Cardinality(Candidate!Listed \cup {c}) = Cardinality(Candidate!Listed) + 1
      BY <3>3, <3>4, FS_AddElement
    <3>6. Cardinality(Candidate!Listed) \in Nat BY <3>4, FS_CardinalityType
    <3>7. ~ (Cardinality(Candidate!Listed) >= MaxProbes) BY <1>2, ProbeCounts
    <3> QED BY <3>3, <3>5, <3>6, <3>7, CandidateNumbers
  <2> HIDE DEF taken
  <2> QED BY <1>0, <2>1, <2>2, <2>3, MoveKept
<1> QED BY <1>1, <1>2

\* A step that writes one record of a call in the service, and keeps its place.
LEMMA PlaceKept ==
  ASSUME Candidate!ProbeAssumption, KInv, NEW c \in Candidate!Calls, NEW r, CallFits(r),
         probe' = [probe EXCEPT ![c] = r],
         UNCHANGED <<pending, lost, worker, window, net, forgiven>>,
         r.id = probe[c].id, r.worker = probe[c].worker,
         r.at = probe[c].at \/ (r.at \in InCall /\ probe[c].at \in InCall),
         r.svc \in OnTheWay =>
           probe[c].svc \in {"listed", "core", "back", "judged"} \/ r.svc = probe[c].svc
  PROVE  KInv'
<1>1. Cardinality(Candidate!Listed') <= MaxProbes BY SameList DEF OnTheWay
<1> QED BY <1>1, MoveKept DEF OnTheWay, Candidate!Active

LEMMA ReadNetworkKept ==
  ASSUME Candidate!ProbeAssumption, KInv, NEW c \in Candidate!Calls, NEW fresh \in BOOLEAN,
         Candidate!ReadNetwork(c, fresh)
  PROVE  KInv'
<1> DEFINE good == [probe[c] EXCEPT !.svc = "core", !.seen = net]
           bad == [probe[c] EXCEPT !.svc = "judged", !.result = "failed"]
<1>r. CallFits(probe[c]) /\ probe[c] \in CallRecords BY RecordOf
<1>n. net \in Nat BY CandidateNumbers DEF KInv, WindowFits
<1>0. /\ probe[c].svc = "listed" /\ UNCHANGED <<pending, lost, worker, window, net, forgiven>>
      /\ probe' = [probe EXCEPT ![c] = IF fresh /\ probe[c].expected = net THEN good ELSE bad]
  BY DEF Candidate!ReadNetwork, Candidate!Service
<1>1. CASE fresh /\ probe[c].expected = net
  <2>1. probe' = [probe EXCEPT ![c] = good] BY <1>0, <1>1
  <2>2. /\ CallFits(good) /\ good.id = probe[c].id /\ good.worker = probe[c].worker
        /\ good.at = probe[c].at
    <3>1. /\ good \in CallRecords /\ good.id = probe[c].id /\ good.worker = probe[c].worker
          /\ good.at = probe[c].at /\ good.svc = "core" /\ good.seen = net
          /\ good.expected = probe[c].expected /\ good.answer = probe[c].answer
          /\ good.told = probe[c].told /\ good.changed = probe[c].changed
      BY <1>r, <1>n DEF CallRecords
    <3>2. ~probe[c].changed BY <1>r, <1>0 DEF CallFits
    <3>3. net <= net BY <1>n
    <3> HIDE DEF good
    <3> QED BY <1>r, <1>0, <1>1, <3>1, <3>2, <3>3 DEF CallFits
  <2> HIDE DEF good
  <2> QED BY <1>0, <2>1, <2>2, PlaceKept
<1>2. CASE ~(fresh /\ probe[c].expected = net)
  <2>1. probe' = [probe EXCEPT ![c] = bad] BY <1>0, <1>2
  <2>2. /\ CallFits(bad) /\ bad.id = probe[c].id /\ bad.worker = probe[c].worker
        /\ bad.at = probe[c].at
    <3>1. /\ bad \in CallRecords /\ bad.id = probe[c].id
          /\ bad.worker = probe[c].worker /\ bad.at = probe[c].at
          /\ bad.answer = probe[c].answer /\ bad.svc = "judged"
          /\ bad.told = probe[c].told /\ bad.changed = probe[c].changed
          /\ bad.seen = probe[c].seen /\ bad.expected = probe[c].expected
          /\ bad.result = "failed"
      BY <1>r DEF CallRecords
    <3> HIDE DEF bad
    <3> QED BY <1>r, <1>0, <3>1 DEF CallFits
  <2> HIDE DEF bad
  <2> QED BY <1>0, <2>1, <2>2, PlaceKept
<1> QED BY <1>1, <1>2

LEMMA CoreProbeKept ==
  ASSUME Candidate!ProbeAssumption, KInv, NEW c \in Candidate!Calls, NEW success \in BOOLEAN,
         Candidate!CoreProbe(c, success)
  PROVE  KInv'
<1> DEFINE r == [probe[c] EXCEPT !.svc = "back",
                                !.result = IF success THEN "success" ELSE "failed"]
<1>r. CallFits(probe[c]) /\ probe[c] \in CallRecords BY RecordOf
<1>0. /\ probe[c].svc = "core" /\ UNCHANGED <<pending, lost, worker, window, net, forgiven>>
      /\ probe' = [probe EXCEPT ![c] = r]
  BY DEF Candidate!CoreProbe, Candidate!Service
<1>2. /\ CallFits(r) /\ r.id = probe[c].id /\ r.worker = probe[c].worker /\ r.at = probe[c].at
  <2>1. /\ r \in CallRecords /\ r.id = probe[c].id /\ r.worker = probe[c].worker
        /\ r.at = probe[c].at /\ r.answer = probe[c].answer /\ r.svc = "back"
        /\ r.told = probe[c].told /\ r.changed = probe[c].changed
        /\ r.seen = probe[c].seen /\ r.expected = probe[c].expected
        /\ r.result = IF success THEN "success" ELSE "failed"
    BY <1>r DEF CallRecords
  <2> HIDE DEF r
  <2> QED BY <1>r, <1>0, <2>1 DEF CallFits
<1> HIDE DEF r
<1> QED BY <1>0, <1>2, PlaceKept

LEMMA JudgeKept ==
  ASSUME Candidate!ProbeAssumption, KInv, NEW c \in Candidate!Calls, Candidate!Judge(c)
  PROVE  KInv'
<1> DEFINE r == [probe[c] EXCEPT !.svc = "judged",
                   !.result = IF probe[c].seen # net \/ probe[c].cancelled THEN "failed" ELSE @]
<1>r. CallFits(probe[c]) /\ probe[c] \in CallRecords BY RecordOf
<1>0. /\ probe[c].svc = "back" /\ UNCHANGED <<pending, lost, worker, window, net, forgiven>>
      /\ probe' = [probe EXCEPT ![c] = r]
  BY DEF Candidate!Judge, Candidate!Service
<1>2. /\ CallFits(r) /\ r.id = probe[c].id /\ r.worker = probe[c].worker /\ r.at = probe[c].at
  <2>1. /\ r \in CallRecords /\ r.id = probe[c].id /\ r.worker = probe[c].worker
        /\ r.at = probe[c].at /\ r.answer = probe[c].answer /\ r.svc = "judged"
        /\ r.told = probe[c].told /\ r.changed = probe[c].changed
        /\ r.seen = probe[c].seen /\ r.expected = probe[c].expected
        /\ r.result = IF probe[c].seen # net \/ probe[c].cancelled THEN "failed" ELSE probe[c].result
    BY <1>r DEF CallRecords
  <2> HIDE DEF r
  <2> QED BY <1>r, <1>0, <2>1 DEF CallFits
<1> HIDE DEF r
<1> QED BY <1>0, <1>2, PlaceKept

LEMMA RetireKept ==
  ASSUME Candidate!ProbeAssumption, KInv, NEW c \in Candidate!Calls, Candidate!Retire(c)
  PROVE  KInv'
<1> DEFINE r == [probe[c] EXCEPT !.svc = "retired"]
<1>r. CallFits(probe[c]) /\ probe[c] \in CallRecords BY RecordOf
<1>0. /\ probe[c].svc = "judged" /\ UNCHANGED <<pending, lost, worker, window, net, forgiven>>
      /\ probe' = [probe EXCEPT ![c] = r]
  BY DEF Candidate!Retire, Candidate!Service
<1>2. /\ CallFits(r) /\ r.id = probe[c].id /\ r.worker = probe[c].worker /\ r.at = probe[c].at
  <2>1. /\ r \in CallRecords /\ r.id = probe[c].id /\ r.worker = probe[c].worker
        /\ r.at = probe[c].at /\ r.answer = probe[c].answer /\ r.svc = "retired"
        /\ r.told = probe[c].told /\ r.changed = probe[c].changed
        /\ r.seen = probe[c].seen /\ r.expected = probe[c].expected
        /\ r.result = probe[c].result
    BY <1>r DEF CallRecords
  <2> HIDE DEF r
  <2> QED BY <1>r, <1>0, <2>1 DEF CallFits
<1> HIDE DEF r
<1> QED BY <1>0, <1>2, PlaceKept

LEMMA CancelKept ==
  ASSUME Candidate!ProbeAssumption, KInv, NEW c \in Candidate!Calls,
         Candidate!CancelCandidateProbe(c)
  PROVE  KInv'
<1> DEFINE r == [probe[c] EXCEPT !.cancelled = TRUE]
<1>r. CallFits(probe[c]) /\ probe[c] \in CallRecords BY RecordOf
<1>0. /\ UNCHANGED <<pending, lost, worker, window, net, forgiven>>
      /\ probe' = [probe EXCEPT ![c] = r]
  BY DEF Candidate!CancelCandidateProbe
<1>2. /\ CallFits(r) /\ r.id = probe[c].id /\ r.worker = probe[c].worker /\ r.at = probe[c].at
      /\ r.svc = probe[c].svc
  <2>1. TRUE \in BOOLEAN OBVIOUS
  <2>2. r \in CallRecords BY <1>r, <2>1 DEF CallRecords
  <2>3. /\ r.id = probe[c].id /\ r.worker = probe[c].worker /\ r.at = probe[c].at
        /\ r.svc = probe[c].svc /\ r.answer = probe[c].answer /\ r.told = probe[c].told
        /\ r.changed = probe[c].changed /\ r.seen = probe[c].seen
        /\ r.expected = probe[c].expected /\ r.result = probe[c].result
    BY <1>r DEF CallRecords
  <2> HIDE DEF r
  <2> QED BY <1>r, <2>2, <2>3 DEF CallFits
<1> HIDE DEF r
<1> QED BY <1>0, <1>2, PlaceKept

LEMMA CancelPendingKept ==
  ASSUME Candidate!ProbeAssumption, KInv, NEW i \in Ids, Candidate!CancelPending(i)
  PROVE  KInv'
<1> DEFINE c == pending[i]
           r == [probe[c] EXCEPT !.flag = TRUE, !.waiters = 1]
<1>c. c \in Candidate!Calls BY CandidateNumbers DEF KInv, TableFits, Candidate!CancelPending
<1>r. CallFits(probe[c]) /\ probe[c] \in CallRecords BY <1>c, RecordOf
<1>0. /\ UNCHANGED <<pending, lost, worker, window, net, forgiven>>
      /\ probe' = [probe EXCEPT ![c] = r]
  BY DEF Candidate!CancelPending
<1>2. /\ CallFits(r) /\ r.id = probe[c].id /\ r.worker = probe[c].worker /\ r.at = probe[c].at
      /\ r.svc = probe[c].svc
  <2>1. ASSUME NEW q \in CallRecords
        PROVE  [q EXCEPT !.flag = TRUE, !.waiters = 1] \in CallRecords
    <3>1. 1 \in 0..1 OBVIOUS
    <3>2. ASSUME NEW n \in 0..1
          PROVE  [q EXCEPT !.flag = TRUE, !.waiters = n] \in CallRecords
      BY DEF CallRecords
    <3> QED BY <3>1, <3>2
  <2>2. r \in CallRecords BY <1>r, <2>1
  <2>3. /\ r.id = probe[c].id /\ r.worker = probe[c].worker /\ r.at = probe[c].at
        /\ r.svc = probe[c].svc /\ r.answer = probe[c].answer /\ r.told = probe[c].told
        /\ r.changed = probe[c].changed /\ r.seen = probe[c].seen
        /\ r.expected = probe[c].expected /\ r.result = probe[c].result
    BY <1>r DEF CallRecords
  <2> HIDE DEF r
  <2> QED BY <1>r, <2>2, <2>3 DEF CallFits
<1> HIDE DEF r, c
<1> QED BY <1>0, <1>2, <1>c, PlaceKept

\* The call on its way: the request, and the end of the wait.
LEMMA SendKept ==
  ASSUME Candidate!ProbeAssumption, KInv, NEW c \in Candidate!Calls, Candidate!Send(c)
  PROVE  KInv'
<1> DEFINE r == [probe[c] EXCEPT !.at = "waiting", !.svc = "sent"]
<1>r. CallFits(probe[c]) /\ probe[c] \in CallRecords BY RecordOf
<1>0. /\ probe[c].at = "invoked" /\ UNCHANGED <<pending, lost, worker, window, net, forgiven>>
      /\ probe' = [probe EXCEPT ![c] = r]
  BY DEF Candidate!Send
<1>1. Named(c)
  <2>1. worker[probe[c].worker].running = c /\ probe[c].worker \in Candidate!Workers
    BY <1>0, <1>r, CandidateNumbers DEF KInv, WorkersFit, InCall, CallRecords
  <2>2. c # 0 BY CandidateNumbers
  <2> QED BY <2>1, <2>2 DEF KInv, WorkersFit, WorkerFits, Idles, Has
<1>2. /\ CallFits(r) /\ r.id = probe[c].id /\ r.worker = probe[c].worker /\ r.at = "waiting"
      /\ r.svc = "sent"
  <2>1. /\ r \in CallRecords /\ r.id = probe[c].id /\ r.worker = probe[c].worker
        /\ r.at = "waiting" /\ r.answer = probe[c].answer /\ r.svc = "sent"
        /\ r.told = probe[c].told /\ r.changed = probe[c].changed
        /\ r.seen = probe[c].seen /\ r.expected = probe[c].expected
        /\ r.result = probe[c].result
    BY <1>r DEF CallRecords
  <2> HIDE DEF r
  <2> QED BY <1>r, <1>0, <2>1 DEF CallFits
<1> HIDE DEF r
<1>3. Cardinality(Candidate!Listed') <= MaxProbes BY <1>0, <1>2, SameList
<1> QED BY <1>0, <1>1, <1>2, <1>3, MoveKept DEF InCall

LEMMA NoAnswerKept ==
  ASSUME Candidate!ProbeAssumption, KInv, NEW c \in Candidate!Calls, Candidate!NoAnswer(c)
  PROVE  KInv'
<1> DEFINE r == [probe[c] EXCEPT !.at = "lost", !.flag = TRUE]
<1>r. CallFits(probe[c]) /\ probe[c] \in CallRecords BY RecordOf
<1>0. /\ probe[c].at = "waiting" /\ UNCHANGED <<pending, lost, worker, window, net, forgiven>>
      /\ probe' = [probe EXCEPT ![c] = r]
  BY DEF Candidate!NoAnswer
<1>2. /\ CallFits(r) /\ r.id = probe[c].id /\ r.worker = probe[c].worker /\ r.at = "lost"
      /\ r.svc = probe[c].svc
  <2>1. /\ r \in CallRecords /\ r.id = probe[c].id /\ r.worker = probe[c].worker
        /\ r.at = "lost" /\ r.answer = probe[c].answer /\ r.svc = probe[c].svc
        /\ r.told = probe[c].told /\ r.changed = probe[c].changed
        /\ r.seen = probe[c].seen /\ r.expected = probe[c].expected
        /\ r.result = probe[c].result
    BY <1>r DEF CallRecords
  <2> HIDE DEF r
  <2> QED BY <1>r, <1>0, <2>1 DEF CallFits
<1> HIDE DEF r
<1> QED BY <1>0, <1>2, PlaceKept DEF InCall

\* The one call that a worker which does not rest has.
LEMMA WorkerHas ==
  ASSUME Candidate!ProbeAssumption, KInv, NEW w \in Candidate!Workers,
         NEW c \in Candidate!Calls
  PROVE  /\ worker[w].running = c =>
              probe[c].worker = w /\ Named(c) /\ worker[w].tasks = <<>> /\ worker[w].ready = <<>>
         /\ worker[w].tasks = <<c>> =>
              /\ probe[c].worker = w /\ Named(c) /\ worker[w].running = 0
              /\ worker[w].ready = <<>> /\ probe[c].at = "queued"
         /\ worker[w].ready = <<c>> =>
              /\ probe[c].worker = w /\ Named(c) /\ worker[w].running = 0
              /\ worker[w].tasks = <<>> /\ probe[c].at = "over"
<1>1. c # 0 /\ \A d \in Candidate!Calls : d # 0 BY CandidateNumbers
<1>2. \A d, e : <<d>> # <<>> /\ (<<d>> = <<e>> => d = e) OBVIOUS
<1>3. WorkerFits(w) BY DEF KInv, WorkersFit
<1>4. CASE Idles(w) BY <1>1, <1>2, <1>4 DEF Idles
<1>5. ASSUME NEW d \in Candidate!Calls, probe[d].worker = w, Named(d), Has(w, d)
      PROVE  /\ worker[w].running = c => c = d /\ worker[w].tasks = <<>> /\ worker[w].ready = <<>>
             /\ worker[w].tasks = <<c>> =>
                  /\ c = d /\ worker[w].running = 0
                  /\ worker[w].ready = <<>> /\ probe[c].at = "queued"
             /\ worker[w].ready = <<c>> =>
                  /\ c = d /\ worker[w].running = 0
                  /\ worker[w].tasks = <<>> /\ probe[c].at = "over"
  BY <1>1, <1>2, <1>5 DEF Has
<1> QED BY <1>3, <1>4, <1>5 DEF WorkerFits

LEMMA ReturnKept ==
  ASSUME Candidate!ProbeAssumption, KInv, NEW c \in Candidate!Calls,
         NEW a \in {"settled", "lost"}, probe[c].at \in InCall,
         a = "settled" => probe[c].svc \in {"none", "retired"},
         Candidate!Return(c, a), UNCHANGED <<pending, lost, window, net, forgiven>>
  PROVE  KInv'
<1> DEFINE r == [probe[c] EXCEPT !.at = "over", !.answer = a]
           w == probe[c].worker
<1>r. CallFits(probe[c]) /\ probe[c] \in CallRecords BY RecordOf
<1>w. w \in Candidate!Workers BY <1>r, CandidateNumbers DEF CallRecords
<1>c. c # 0 /\ c \in Candidate!Calls BY CandidateNumbers
<1>0. /\ probe' = [probe EXCEPT ![c] = r]
      /\ worker' = [worker EXCEPT ![w].running = 0, ![w].ready = Append(@, c)]
  BY DEF Candidate!Return
<1>1. worker[w].running = c BY DEF KInv, WorkersFit
<1>2. Named(c) /\ worker[w].tasks = <<>> /\ worker[w].ready = <<>> BY <1>1, <1>w, WorkerHas
<1>3. /\ CallFits(r) /\ r.id = probe[c].id /\ r.worker = w /\ r.at = "over" /\ r.svc = probe[c].svc
  <2>1. /\ r \in CallRecords /\ r.id = probe[c].id /\ r.worker = probe[c].worker
        /\ r.at = "over" /\ r.answer = a /\ r.svc = probe[c].svc
        /\ r.told = probe[c].told /\ r.changed = probe[c].changed
        /\ r.seen = probe[c].seen /\ r.expected = probe[c].expected
        /\ r.result = probe[c].result
    BY <1>r DEF CallRecords
  <2> HIDE DEF r
  <2> QED BY <1>r, <1>0, <2>1 DEF CallFits, InCall
<1>4. /\ probe'[c] = r
      /\ \A d \in Candidate!Calls : d # c => probe'[d] = probe[d]
      /\ probe' = [d \in Candidate!Calls |-> probe'[d]]
  BY <1>0 DEF KInv, CallsFit
<1>5. /\ worker'[w].tasks = <<>> /\ worker'[w].running = 0 /\ worker'[w].ready = <<c>>
      /\ \A v \in Candidate!Workers : v # w => worker'[v] = worker[v]
      /\ worker' \in [Candidate!Workers -> [tasks : Seq(Candidate!Calls), running : 0..MaxCalls,
                                            ready : Seq(Candidate!Calls)]]
  <2>1. Append(<<>>, c) = <<c>> BY One
  <2>2. <<c>> \in Seq(Candidate!Calls) OBVIOUS
  <2>3. 0 \in 0..MaxCalls BY CandidateNumbers
  <2>4. worker \in [Candidate!Workers -> [tasks : Seq(Candidate!Calls), running : 0..MaxCalls,
                                            ready : Seq(Candidate!Calls)]]
    BY DEF KInv, WorkersFit
  <2>5. worker' = [worker EXCEPT ![w] = [worker[w] EXCEPT !.running = 0, !.ready = <<c>>]]
    BY <1>0, <1>2, <1>w, <2>1, <2>4
  <2> HIDE DEF w
  <2> QED BY <1>2, <1>w, <2>2, <2>3, <2>4, <2>5
<1> HIDE DEF r
<1>6. CallsFit'
  <2>1. \A d \in Candidate!Calls : CallFits(probe'[d]) BY <1>3, <1>4 DEF KInv, CallsFit
  <2> QED BY <1>4, <2>1 DEF CallsFit, CallFits
<1>7. \A d \in Candidate!Calls :
        /\ probe'[d].id = probe[d].id /\ probe'[d].worker = probe[d].worker
        /\ probe'[d].svc = probe[d].svc /\ (d # c => probe'[d].at = probe[d].at)
  BY <1>3, <1>4
<1>8. TableFits'
  <2>1. \A i \in Ids : pending[i] # 0 => pending[i] \in Candidate!Calls
    BY CandidateNumbers DEF KInv, TableFits
  <2> QED BY <1>3, <1>4, <1>7, <2>1 DEF KInv, TableFits
<1>9. WorkersFit'
  <2>1. ASSUME NEW v \in Candidate!Workers PROVE WorkerFits(v)'
    <3>1. CASE v = w
      <4>1. Has(w, c)' BY <1>3, <1>4, <1>5 DEF Has
      <4>2. Named(c)' BY <1>2, <1>7 DEF Named
      <4> QED BY <3>1, <4>1, <4>2, <1>7 DEF WorkerFits
    <3>2. CASE v # w
      <4>1. worker'[v] = worker[v] BY <1>5, <3>2
      <4>2. WorkerFits(v) BY DEF KInv, WorkersFit
      <4> QED BY <4>1, <4>2, <3>2, <1>7 DEF WorkerFits, Idles, Has, Named
    <3> QED BY <3>1, <3>2
  <2>2. ASSUME NEW d \in Candidate!Calls, probe'[d].at \in InCall
        PROVE  worker'[probe'[d].worker].running = d
    <3>1. d # c BY <2>2, <1>3, <1>4 DEF InCall
    <3>2. worker[probe[d].worker].running = d BY <2>2, <3>1, <1>7 DEF KInv, WorkersFit
    <3>3. probe[d].worker \in Candidate!Workers BY RecordOf, CandidateNumbers DEF CallRecords
    <3> QED BY <3>1, <3>2, <3>3, <1>1, <1>5, <1>7
  <2> QED BY <2>1, <2>2, <1>5 DEF WorkersFit
<1>10. Candidate!WatchedOrLatched'
  BY <1>7 DEF KInv, Candidate!WatchedOrLatched, Candidate!Active, Candidate!Open
<1>11. Cardinality(Candidate!Listed') <= MaxProbes
  <2>1. Candidate!Listed' \subseteq Candidate!Listed BY <1>7 DEF Candidate!Listed
  <2> QED BY <2>1, ListFits
<1>12. WindowFits' BY DEF KInv, WindowFits
<1> QED BY <1>6, <1>8, <1>9, <1>10, <1>11, <1>12 DEF KInv

LEMMA EndsKept ==
  ASSUME Candidate!ProbeAssumption, KInv, NEW c \in Candidate!Calls,
         Candidate!NotSent(c) \/ Candidate!Answered(c) \/ Candidate!GiveUp(c)
  PROVE  KInv'
<1>r. CallFits(probe[c]) BY RecordOf
<1>1. CASE Candidate!NotSent(c)
  <2>1. /\ probe[c].at = "invoked" /\ probe[c].svc = "none"
        /\ UNCHANGED <<pending, lost, window, net, forgiven>>
    BY <1>1, <1>r DEF Candidate!NotSent, CallFits
  <2>2. \E a \in {"settled", "lost"} : Candidate!Return(c, a)
    BY <1>1 DEF Candidate!NotSent
  <2> QED BY <2>1, <2>2, ReturnKept DEF InCall
<1>2. CASE Candidate!Answered(c)
  BY <1>2, ReturnKept DEF Candidate!Answered, InCall
<1>3. CASE Candidate!GiveUp(c)
  BY <1>3, ReturnKept DEF Candidate!GiveUp, InCall
<1> QED BY <1>1, <1>2, <1>3

LEMMA PickKept ==
  ASSUME Candidate!ProbeAssumption, KInv, NEW w \in Candidate!Workers, Candidate!Pick(w)
  PROVE  KInv'
<1>0. /\ worker[w].tasks # <<>> /\ UNCHANGED <<pending, lost, window, net, forgiven>>
  BY DEF Candidate!Pick
<1>1. PICK c \in Candidate!Calls :
        /\ worker[w].tasks = <<c>> /\ worker[w].running = 0 /\ worker[w].ready = <<>>
        /\ probe[c].at = "queued" /\ probe[c].worker = w /\ Named(c)
  BY <1>0 DEF KInv, WorkersFit, WorkerFits, Idles, Has
<1> DEFINE r == [probe[c] EXCEPT !.at = "invoked"]
<1>r. CallFits(probe[c]) /\ probe[c] \in CallRecords BY RecordOf
<1>2. /\ Head(worker[w].tasks) = c /\ Tail(worker[w].tasks) = <<>> BY <1>1, One
<1>3. /\ probe' = [probe EXCEPT ![c] = r]
      /\ worker' = [worker EXCEPT ![w] = [worker[w] EXCEPT !.tasks = <<>>, !.running = c]]
  BY <1>2 DEF Candidate!Pick, KInv, WorkersFit
<1>4. /\ CallFits(r) /\ r.id = probe[c].id /\ r.worker = w /\ r.at = "invoked"
      /\ r.svc = probe[c].svc
  <2>1. /\ r \in CallRecords /\ r.id = probe[c].id /\ r.worker = probe[c].worker
        /\ r.at = "invoked" /\ r.answer = probe[c].answer /\ r.svc = probe[c].svc
        /\ r.told = probe[c].told /\ r.changed = probe[c].changed
        /\ r.seen = probe[c].seen /\ r.expected = probe[c].expected
        /\ r.result = probe[c].result
    BY <1>r DEF CallRecords
  <2> HIDE DEF r
  <2> QED BY <1>r, <1>1, <2>1 DEF CallFits
<1>5. /\ probe'[c] = r
      /\ \A d \in Candidate!Calls : d # c => probe'[d] = probe[d]
      /\ probe' = [d \in Candidate!Calls |-> probe'[d]]
  BY <1>3 DEF KInv, CallsFit
<1>6. /\ worker'[w].tasks = <<>> /\ worker'[w].running = c /\ worker'[w].ready = <<>>
      /\ \A v \in Candidate!Workers : v # w => worker'[v] = worker[v]
      /\ worker' \in [Candidate!Workers -> [tasks : Seq(Candidate!Calls), running : 0..MaxCalls,
                                            ready : Seq(Candidate!Calls)]]
  <2>1. worker \in [Candidate!Workers -> [tasks : Seq(Candidate!Calls), running : 0..MaxCalls,
                                            ready : Seq(Candidate!Calls)]]
    BY DEF KInv, WorkersFit
  <2>2. c \in 0..MaxCalls BY CandidateNumbers
  <2>3. <<>> \in Seq(Candidate!Calls) OBVIOUS
  <2> QED BY <1>1, <1>3, <2>1, <2>2, <2>3
<1> HIDE DEF r
<1>7. \A d \in Candidate!Calls :
        /\ probe'[d].id = probe[d].id /\ probe'[d].worker = probe[d].worker
        /\ probe'[d].svc = probe[d].svc /\ (d # c => probe'[d].at = probe[d].at)
  BY <1>1, <1>4, <1>5
<1>8. CallsFit'
  <2>1. \A d \in Candidate!Calls : CallFits(probe'[d]) BY <1>4, <1>5 DEF KInv, CallsFit
  <2> QED BY <1>0, <1>5, <2>1 DEF CallsFit, CallFits
<1>9. TableFits'
  <2>1. \A i \in Ids : pending[i] # 0 => pending[i] \in Candidate!Calls
    BY CandidateNumbers DEF KInv, TableFits
  <2> QED BY <1>0, <1>4, <1>5, <1>7, <2>1 DEF KInv, TableFits
<1>10. WorkersFit'
  <2>1. ASSUME NEW v \in Candidate!Workers PROVE WorkerFits(v)'
    <3>1. CASE v = w
      <4>1. Has(w, c)' BY <1>4, <1>5, <1>6 DEF Has, InCall
      <4>2. Named(c)' BY <1>0, <1>1, <1>7 DEF Named
      <4> QED BY <3>1, <4>1, <4>2, <1>1, <1>7 DEF WorkerFits
    <3>2. CASE v # w
      <4>1. worker'[v] = worker[v] BY <1>6, <3>2
      <4>2. WorkerFits(v) BY DEF KInv, WorkersFit
      <4> QED BY <4>1, <4>2, <3>2, <1>0, <1>1, <1>7 DEF WorkerFits, Idles, Has, Named
    <3> QED BY <3>1, <3>2
  <2>2. ASSUME NEW d \in Candidate!Calls, probe'[d].at \in InCall
        PROVE  worker'[probe'[d].worker].running = d
    <3>1. CASE d = c BY <3>1, <1>1, <1>6, <1>7
    <3>2. CASE d # c
      <4>1. worker[probe[d].worker].running = d BY <2>2, <3>2, <1>7 DEF KInv, WorkersFit
      <4>2. probe[d].worker \in Candidate!Workers BY RecordOf, CandidateNumbers DEF CallRecords
      <4>3. d # 0 BY CandidateNumbers
      <4> QED BY <4>1, <4>2, <4>3, <1>1, <1>6, <1>7
    <3> QED BY <3>1, <3>2
  <2> QED BY <2>1, <2>2, <1>6 DEF WorkersFit
<1>11. Candidate!WatchedOrLatched'
  BY <1>0, <1>7 DEF KInv, Candidate!WatchedOrLatched, Candidate!Active, Candidate!Open
<1>12. Cardinality(Candidate!Listed') <= MaxProbes
  <2>1. Candidate!Listed' \subseteq Candidate!Listed BY <1>7 DEF Candidate!Listed
  <2> QED BY <2>1, ListFits
<1>13. WindowFits' BY <1>0 DEF KInv, WindowFits
<1> QED BY <1>8, <1>9, <1>10, <1>11, <1>12, <1>13 DEF KInv

\* A record that no probe has used.
LEMMA EmptyCall ==
  ASSUME Candidate!ProbeAssumption
  PROVE  /\ Candidate!NoCall \in CallRecords /\ Candidate!NoCall.svc = "none"
         /\ Candidate!NoCall.told = "none" /\ Candidate!NoCall.changed = FALSE
         /\ Candidate!NoCall.at = "free"
<1>1. (CHOOSE i \in Ids : TRUE) \in Ids BY DEF Candidate!ProbeAssumption
<1>2. 1 \in 1..MaxWorkers /\ 0 \in 0..1 /\ 1 \in Nat /\ 0 \in Nat BY CandidateNumbers
<1>3. ASSUME NEW j \in Ids, NEW one, one \in 1..MaxWorkers, one \in Nat,
             NEW z, z \in 0..1, z \in Nat
      PROVE  [id |-> j, worker |-> one, flag |-> FALSE, at |-> "free",
              answer |-> "none", svc |-> "none", cancelled |-> FALSE, expected |-> one,
              seen |-> z, changed |-> FALSE, result |-> "none", waiters |-> z,
              told |-> "none"] \in CallRecords
  BY <1>3 DEF CallRecords
<1>4. Candidate!NoCall \in CallRecords BY <1>1, <1>2, <1>3 DEF Candidate!NoCall
<1> QED BY <1>4 DEF Candidate!NoCall

LEMMA ProbeKept ==
  ASSUME Candidate!ProbeAssumption, KInv, NEW i \in Ids, NEW ref \in 1..net,
         Candidate!ProbeCandidate(i, ref)
  PROVE  KInv'
<1>0. /\ window = 0 /\ ~lost /\ pending[i] = 0 /\ Candidate!Free # {}
      /\ UNCHANGED <<lost, window, net, forgiven>>
  BY DEF Candidate!ProbeCandidate, Candidate!Open
<1>w. PICK w \in Candidate!Workers : w \in Candidate!Free /\ w = Candidate!Min(Candidate!Free)
  <2>1. Candidate!Free \subseteq Candidate!Workers BY DEF Candidate!Free
  <2>2. Candidate!Free \subseteq Nat BY <2>1, CandidateNumbers
  <2> QED BY <1>0, <2>1, <2>2, Smallest
<1> DEFINE r == [Candidate!NoCall EXCEPT !.id = i, !.worker = w, !.at = "queued",
                                         !.expected = ref]
<1>1. PICK c \in Candidate!Calls :
        /\ probe[c].at = "free" /\ pending' = [pending EXCEPT ![i] = c]
        /\ probe' = [probe EXCEPT ![c] = r]
        /\ worker' = [worker EXCEPT ![w].tasks = Append(@, c)]
  BY <1>w DEF Candidate!ProbeCandidate
<1>m. w \in 1..MaxWorkers BY <1>w, CandidateNumbers
<1>n. ref \in Nat BY CandidateNumbers DEF KInv, WindowFits
<1>c. c # 0 /\ (\A d \in Candidate!Calls : d # 0) BY CandidateNumbers
<1>i. \A d \in Candidate!Calls : probe[d].id \in Ids BY RecordOf DEF CallRecords
<1>p. \A d \in Candidate!Calls : pending[probe[d].id] = d => probe[d].id # i /\ d # c
  BY <1>0, <1>1, <1>c, <1>i DEF KInv, TableFits
<1>2. Idles(w)
  <2>1. WorkerFits(w) BY <1>w DEF KInv, WorkersFit
  <2>2. ASSUME NEW d \in Candidate!Calls, probe[d].worker = w, Named(d) PROVE FALSE
    <3>1. pending[probe[d].id] = d BY <2>2, <1>0 DEF Named
    <3>2. d \in Candidate!Pending BY <3>1, <1>i, <1>c DEF Candidate!Pending
    <3> QED BY <2>2, <3>2, <1>w DEF Candidate!Free
  <2> QED BY <2>1, <2>2 DEF WorkerFits
<1>3. /\ CallFits(r) /\ r.id = i /\ r.worker = w /\ r.at = "queued" /\ r.svc = "none"
  <2>1. /\ Candidate!NoCall \in CallRecords /\ Candidate!NoCall.svc = "none"
        /\ Candidate!NoCall.told = "none" /\ Candidate!NoCall.changed = FALSE
    BY EmptyCall
  <2>2. /\ r \in CallRecords /\ r.id = i /\ r.worker = w /\ r.at = "queued"
        /\ r.svc = "none" /\ r.told = "none" /\ ~r.changed
    <3> HIDE DEF Candidate!NoCall
    <3> QED BY <1>n, <1>m, <2>1 DEF CallRecords
  <2> QED BY <2>2 DEF CallFits
<1>4. /\ probe'[c] = r
      /\ \A d \in Candidate!Calls : d # c => probe'[d] = probe[d]
      /\ probe' = [d \in Candidate!Calls |-> probe'[d]]
  BY <1>1 DEF KInv, CallsFit
<1> HIDE DEF r
<1>5. /\ worker'[w].tasks = <<c>> /\ worker'[w].running = 0 /\ worker'[w].ready = <<>>
      /\ \A v \in Candidate!Workers : v # w => worker'[v] = worker[v]
      /\ worker' \in [Candidate!Workers -> [tasks : Seq(Candidate!Calls), running : 0..MaxCalls,
                                            ready : Seq(Candidate!Calls)]]
  <2>1. worker \in [Candidate!Workers -> [tasks : Seq(Candidate!Calls), running : 0..MaxCalls,
                                            ready : Seq(Candidate!Calls)]]
    BY DEF KInv, WorkersFit
  <2>2. Append(worker[w].tasks, c) = <<c>> BY <1>2, One DEF Idles
  <2>3. <<c>> \in Seq(Candidate!Calls) OBVIOUS
  <2>4. worker' = [worker EXCEPT ![w] = [worker[w] EXCEPT !.tasks = <<c>>]]
    BY <1>1, <1>w, <2>1, <2>2
  <2> QED BY <1>2, <1>w, <2>1, <2>3, <2>4 DEF Idles
<1>6. /\ pending' \in [Ids -> 0..MaxCalls] /\ pending'[i] = c
      /\ \A j \in Ids : j # i => pending'[j] = pending[j]
  <2>1. c \in 0..MaxCalls BY CandidateNumbers
  <2> QED BY <1>1, <2>1 DEF KInv, TableFits
<1>7. CallsFit'
  <2>1. \A d \in Candidate!Calls : CallFits(probe'[d]) BY <1>3, <1>4 DEF KInv, CallsFit
  <2> QED BY <1>0, <1>4, <2>1 DEF CallsFit, CallFits
<1>8. TableFits'
  <2>1. \A j \in Ids : pending[j] # 0 => pending[j] \in Candidate!Calls
    BY CandidateNumbers DEF KInv, TableFits
  <2> QED BY <1>1, <1>3, <1>4, <1>6, <2>1 DEF KInv, TableFits
<1>9. WorkersFit'
  <2>1. ASSUME NEW v \in Candidate!Workers PROVE WorkerFits(v)'
    <3>1. CASE v = w
      <4>1. Has(w, c)' BY <1>3, <1>4, <1>5 DEF Has
      <4>2. Named(c)' BY <1>3, <1>4, <1>6 DEF Named
      <4> QED BY <3>1, <4>1, <4>2, <1>3, <1>4 DEF WorkerFits
    <3>2. CASE v # w
      <4>1. worker'[v] = worker[v] BY <1>5, <3>2
      <4>2. WorkerFits(v) BY DEF KInv, WorkersFit
      <4>3. CASE Idles(v) BY <4>1, <4>3 DEF Idles, WorkerFits
      <4>4. ASSUME NEW d \in Candidate!Calls, probe[d].worker = v, Named(d), Has(v, d)
            PROVE  WorkerFits(v)'
        <5>1. pending[probe[d].id] = d BY <4>4, <1>0 DEF Named
        <5>2. probe[d].id # i /\ d # c BY <5>1, <1>p
        <5>3. probe'[d] = probe[d] /\ pending'[probe[d].id] = d BY <5>1, <5>2, <1>4, <1>6, <1>i
        <5> QED BY <4>1, <4>4, <5>3 DEF WorkerFits, Has, Named
      <4> QED BY <4>2, <4>3, <4>4 DEF WorkerFits
    <3> QED BY <3>1, <3>2
  <2>2. ASSUME NEW d \in Candidate!Calls, probe'[d].at \in InCall
        PROVE  worker'[probe'[d].worker].running = d
    <3>1. d # c BY <2>2, <1>3, <1>4 DEF InCall
    <3>2. worker[probe[d].worker].running = d BY <2>2, <3>1, <1>4 DEF KInv, WorkersFit
    <3>3. probe[d].worker \in Candidate!Workers BY RecordOf, CandidateNumbers DEF CallRecords
    <3> QED BY <3>1, <3>2, <3>3, <1>2, <1>4, <1>5, <1>c DEF Idles
  <2> QED BY <2>1, <2>2, <1>5 DEF WorkersFit
<1>10. Candidate!WatchedOrLatched'
  <2>1. ASSUME NEW d \in Candidate!Calls, Candidate!Active(d)'
        PROVE  pending'[probe'[d].id] = d \/ lost \/ d \in forgiven
    <3>1. d # c BY <2>1, <1>3, <1>4 DEF Candidate!Active
    <3>2. Candidate!Active(d) BY <2>1, <3>1, <1>4 DEF Candidate!Active
    <3>3. pending[probe[d].id] = d \/ lost \/ d \in forgiven
      BY <3>2, <1>0 DEF KInv, Candidate!WatchedOrLatched, Candidate!Open
    <3> QED BY <3>1, <3>3, <1>4, <1>6, <1>p, <1>i
  <2> QED BY <1>0, <2>1 DEF Candidate!WatchedOrLatched
<1>11. Cardinality(Candidate!Listed') <= MaxProbes
  <2>1. Candidate!Listed' \subseteq Candidate!Listed BY <1>3, <1>4 DEF Candidate!Listed
  <2> QED BY <2>1, ListFits
<1>12. WindowFits' BY <1>0 DEF KInv, WindowFits
<1> QED BY <1>7, <1>8, <1>9, <1>10, <1>11, <1>12 DEF KInv

LEMMA DrainKept ==
  ASSUME Candidate!ProbeAssumption, KInv, NEW w \in Candidate!Workers, Candidate!Drain(w)
  PROVE  KInv'
<1>0. /\ worker[w].ready # <<>> /\ window = 0 /\ UNCHANGED <<window, net, forgiven>>
  BY DEF Candidate!Drain, Candidate!Complete, Candidate!Open
<1>1. PICK c \in Candidate!Calls :
        /\ worker[w].ready = <<c>> /\ worker[w].running = 0 /\ worker[w].tasks = <<>>
        /\ probe[c].at = "over" /\ probe[c].worker = w /\ pending[probe[c].id] = c
  BY <1>0 DEF KInv, WorkersFit, WorkerFits, Idles, Has, Named
<1> DEFINE r == [probe[c] EXCEPT !.told = Candidate!Told(c), !.waiters = 0]
<1>r. CallFits(probe[c]) /\ probe[c] \in CallRecords /\ probe[c].id \in Ids
  BY RecordOf DEF CallRecords
<1>c. c # 0 /\ (\A d \in Candidate!Calls : d # 0) BY CandidateNumbers
<1>2. Head(worker[w].ready) = c /\ Tail(worker[w].ready) = <<>> BY <1>1, One
<1>3. /\ probe' = [probe EXCEPT ![c] = r]
      /\ pending' = [pending EXCEPT ![probe[c].id] = 0]
      /\ lost' = (lost \/ probe[c].answer = "lost")
      /\ worker' = [worker EXCEPT ![w] = [worker[w] EXCEPT !.ready = <<>>]]
  <2>1. Candidate!Complete(w, TRUE, Candidate!Told(c), 0) BY <1>2 DEF Candidate!Drain
  <2>2. pending[probe[c].id] # 0 BY <1>1, <1>c
  <2>3. /\ worker' = [worker EXCEPT ![w].ready = Tail(@)]
        /\ pending' = [pending EXCEPT ![probe[c].id] = 0]
        /\ lost' = (lost \/ (TRUE /\ probe[c].answer = "lost"))
        /\ probe' = [probe EXCEPT ![c].told = Candidate!Told(c), ![c].waiters = 0]
    BY <1>2, <2>1, <2>2, Zenon DEF Candidate!Complete
  <2>4. probe' = [probe EXCEPT ![c] = r] BY <2>3
  <2>5. worker' = [worker EXCEPT ![w] = [worker[w] EXCEPT !.ready = <<>>]]
    BY <1>2, <2>3 DEF KInv, WorkersFit
  <2>6. lost' = (lost \/ probe[c].answer = "lost") BY <2>3, Zenon
  <2> QED BY <2>3, <2>4, <2>5, <2>6, Zenon
<1>4. /\ CallFits(r) /\ r.id = probe[c].id /\ r.worker = w /\ r.at = "over" /\ r.svc = probe[c].svc
  <2>1. 0 \in 0..1 OBVIOUS
  <2>2. Candidate!Told(c) \in {"settled", "unconfirmed"} BY DEF Candidate!Told
  <2>3. ASSUME NEW t \in {"settled", "unconfirmed"}, NEW n \in 0..1
        PROVE  LET q == [probe[c] EXCEPT !.told = t, !.waiters = n]
               IN /\ q \in CallRecords /\ q.id = probe[c].id /\ q.worker = probe[c].worker
                  /\ q.at = probe[c].at /\ q.svc = probe[c].svc /\ q.answer = probe[c].answer
                  /\ q.told = t /\ q.changed = probe[c].changed /\ q.seen = probe[c].seen
                  /\ q.expected = probe[c].expected /\ q.result = probe[c].result
    BY <1>r DEF CallRecords
  <2>4. /\ r \in CallRecords /\ r.id = probe[c].id /\ r.worker = probe[c].worker
        /\ r.at = probe[c].at /\ r.svc = probe[c].svc /\ r.answer = probe[c].answer
        /\ r.told = Candidate!Told(c) /\ r.changed = probe[c].changed /\ r.seen = probe[c].seen
        /\ r.expected = probe[c].expected /\ r.result = probe[c].result
    BY <2>1, <2>2, <2>3
  <2>5. Candidate!Told(c) = "settled" => probe[c].answer = "settled"
    BY <1>1, <1>r DEF Candidate!Told, CallFits, CallRecords
  <2> HIDE DEF r
  <2> QED BY <1>1, <1>r, <2>4, <2>5 DEF CallFits
<1>5. /\ probe'[c] = r
      /\ \A d \in Candidate!Calls : d # c => probe'[d] = probe[d]
      /\ probe' = [d \in Candidate!Calls |-> probe'[d]]
  BY <1>3 DEF KInv, CallsFit
<1> HIDE DEF r
<1>6. /\ worker'[w].tasks = <<>> /\ worker'[w].running = 0 /\ worker'[w].ready = <<>>
      /\ \A v \in Candidate!Workers : v # w => worker'[v] = worker[v]
      /\ worker' \in [Candidate!Workers -> [tasks : Seq(Candidate!Calls), running : 0..MaxCalls,
                                            ready : Seq(Candidate!Calls)]]
  <2>1. worker \in [Candidate!Workers -> [tasks : Seq(Candidate!Calls), running : 0..MaxCalls,
                                            ready : Seq(Candidate!Calls)]]
    BY DEF KInv, WorkersFit
  <2>2. <<>> \in Seq(Candidate!Calls) OBVIOUS
  <2> QED BY <1>1, <1>3, <2>1, <2>2
<1>7. \A d \in Candidate!Calls :
        /\ probe'[d].id = probe[d].id /\ probe'[d].worker = probe[d].worker
        /\ probe'[d].svc = probe[d].svc /\ probe'[d].at = probe[d].at
  BY <1>1, <1>4, <1>5
<1>8. /\ pending' \in [Ids -> 0..MaxCalls] /\ pending'[probe[c].id] = 0
      /\ \A j \in Ids : j # probe[c].id => pending'[j] = pending[j]
  <2>1. 0 \in 0..MaxCalls BY CandidateNumbers
  <2> QED BY <1>3, <1>r, <2>1 DEF KInv, TableFits
<1>9. CallsFit'
  <2>1. \A d \in Candidate!Calls : CallFits(probe'[d]) BY <1>4, <1>5 DEF KInv, CallsFit
  <2> QED BY <1>0, <1>5, <2>1 DEF CallsFit, CallFits
<1>10. TableFits'
  <2>1. \A i \in Ids : pending[i] # 0 => pending[i] \in Candidate!Calls
    BY CandidateNumbers DEF KInv, TableFits
  <2> QED BY <1>7, <1>8, <2>1 DEF KInv, TableFits
<1>11. WorkersFit'
  <2>1. ASSUME NEW v \in Candidate!Workers PROVE WorkerFits(v)'
    <3>1. CASE v = w BY <3>1, <1>6 DEF WorkerFits, Idles
    <3>2. CASE v # w
      <4>1. worker'[v] = worker[v] BY <1>6, <3>2
      <4>2. WorkerFits(v) BY DEF KInv, WorkersFit
      <4>3. CASE Idles(v) BY <4>1, <4>3 DEF Idles, WorkerFits
      <4>4. ASSUME NEW d \in Candidate!Calls, probe[d].worker = v, Named(d), Has(v, d)
            PROVE  WorkerFits(v)'
        <5>1. pending[probe[d].id] = d /\ d # c /\ probe[d].id \in Ids
          BY <4>4, <3>2, <1>0, <1>1, RecordOf DEF Named, CallRecords
        <5>2. pending'[probe'[d].id] = d BY <5>1, <1>1, <1>7, <1>8
        <5> QED BY <4>1, <4>4, <5>2, <1>7 DEF WorkerFits, Has, Named
      <4> QED BY <4>2, <4>3, <4>4 DEF WorkerFits
    <3> QED BY <3>1, <3>2
  <2>2. ASSUME NEW d \in Candidate!Calls, probe'[d].at \in InCall
        PROVE  worker'[probe'[d].worker].running = d
    <3>1. worker[probe[d].worker].running = d BY <2>2, <1>7 DEF KInv, WorkersFit
    <3>2. probe[d].worker \in Candidate!Workers BY RecordOf, CandidateNumbers DEF CallRecords
    <3> QED BY <3>1, <3>2, <1>1, <1>6, <1>7, <1>c
  <2> QED BY <2>1, <2>2, <1>6 DEF WorkersFit
<1>12. Candidate!WatchedOrLatched'
  <2>1. ASSUME NEW d \in Candidate!Calls, Candidate!Active(d)'
        PROVE  pending'[probe'[d].id] = d \/ lost' \/ d \in forgiven
    <3>1. Candidate!Active(d) BY <2>1, <1>7 DEF Candidate!Active
    <3>2. probe[d].id \in Ids BY RecordOf DEF CallRecords
    <3>3. pending[probe[d].id] = d \/ lost \/ d \in forgiven
      BY <3>1, <1>0 DEF KInv, Candidate!WatchedOrLatched, Candidate!Open
    <3>4. CASE d = c
      <4>1. probe[c].answer = "lost"
        BY <3>1, <3>4, <1>1, <1>r DEF CallFits, CallRecords, Candidate!Active
      <4> QED BY <4>1, <1>3
    <3>5. CASE d # c
      <4>1. pending[probe[d].id] = d => pending'[probe'[d].id] = d
        BY <3>2, <3>5, <1>1, <1>7, <1>8
      <4> QED BY <3>3, <4>1, <1>3
    <3> QED BY <3>4, <3>5
  <2> QED BY <1>0, <2>1 DEF Candidate!WatchedOrLatched
<1>13. Cardinality(Candidate!Listed') <= MaxProbes
  <2>1. Candidate!Listed' \subseteq Candidate!Listed BY <1>7 DEF Candidate!Listed
  <2> QED BY <2>1, ListFits
<1>14. WindowFits'
  <2>1. lost' \in BOOLEAN BY <1>3, Zenon
  <2> QED BY <1>0, <2>1 DEF KInv, WindowFits
<1> QED BY <1>9, <1>10, <1>11, <1>12, <1>13, <1>14 DEF KInv

\* Steps that leave every call where it is, of a window that is not open after
\* them: its workers lose what they have not begun, or what they have done.
LEMMA ClosingKept ==
  ASSUME Candidate!ProbeAssumption, KInv, window' \in 1..(MaxWorkers + 1),
         UNCHANGED <<lost, net, forgiven>>, CallsFit',
         \A c \in Candidate!Calls :
           /\ probe'[c].id = probe[c].id /\ probe'[c].worker = probe[c].worker
           /\ probe'[c].at = probe[c].at /\ probe'[c].svc = probe[c].svc,
         pending' = pending \/ pending' = [i \in Ids |-> 0],
         worker' \in [Candidate!Workers -> [tasks : Seq(Candidate!Calls), running : 0..MaxCalls,
                                            ready : Seq(Candidate!Calls)]],
         \A w \in Candidate!Workers :
           /\ worker'[w].running = worker[w].running
           /\ worker'[w].tasks \in {<<>>, worker[w].tasks}
           /\ worker'[w].ready \in {<<>>, worker[w].ready}
  PROVE  KInv'
<1>0. window' # 0 /\ window' \in 0..(MaxWorkers + 1) BY CandidateNumbers
<1>1. TableFits'
  <2>1. \A i \in Ids : pending[i] # 0 => pending[i] \in Candidate!Calls
    BY CandidateNumbers DEF KInv, TableFits
  <2>2. 0 \in 0..MaxCalls BY CandidateNumbers
  <2>3. CASE pending' = pending BY <2>1, <2>3 DEF KInv, TableFits
  <2>4. CASE pending' = [i \in Ids |-> 0] BY <2>2, <2>4 DEF TableFits
  <2> QED BY <2>3, <2>4
<1>2. WorkersFit'
  <2>1. ASSUME NEW w \in Candidate!Workers PROVE WorkerFits(w)'
    <3>1. WorkerFits(w) BY DEF KInv, WorkersFit
    <3>2. CASE Idles(w) BY <3>2 DEF Idles, WorkerFits
    <3>3. ASSUME NEW d \in Candidate!Calls, probe[d].worker = w, Has(w, d)
          PROVE  WorkerFits(w)'
      <4>1. Has(w, d)' \/ Idles(w)' BY <3>3 DEF Has, Idles
      <4> QED BY <3>3, <4>1, <1>0 DEF WorkerFits, Named
    <3> QED BY <3>1, <3>2, <3>3 DEF WorkerFits
  <2>2. \A d \in Candidate!Calls : probe[d].worker \in Candidate!Workers
    BY RecordOf, CandidateNumbers DEF CallRecords
  <2>3. ASSUME NEW d \in Candidate!Calls, probe'[d].at \in InCall
        PROVE  worker'[probe'[d].worker].running = d
    <3>1. worker[probe[d].worker].running = d BY <2>3 DEF KInv, WorkersFit
    <3> QED BY <2>2, <3>1
  <2> QED BY <2>1, <2>3 DEF WorkersFit
<1>3. Candidate!WatchedOrLatched' BY <1>0 DEF Candidate!WatchedOrLatched, Candidate!Open
<1>4. Cardinality(Candidate!Listed') <= MaxProbes
  <2>1. Candidate!Listed' \subseteq Candidate!Listed BY DEF Candidate!Listed
  <2> QED BY <2>1, ListFits
<1>5. WindowFits' BY <1>0 DEF KInv, WindowFits
<1> QED BY <1>1, <1>2, <1>3, <1>4, <1>5 DEF KInv

LEMMA DestroyKept == ASSUME Candidate!ProbeAssumption, KInv, Candidate!Destroy PROVE KInv'
<1>0. /\ window' = 1 /\ UNCHANGED <<pending, lost, net, forgiven>>
      /\ worker' = [worker EXCEPT ![1].tasks = <<>>]
      /\ probe' = [c \in Candidate!Calls |->
                    [probe[c] EXCEPT !.flag = probe[c].flag \/ c \in Candidate!Pending]]
  BY DEF Candidate!Destroy, Candidate!ShutDown
<1>1. ASSUME NEW c \in Candidate!Calls
      PROVE  /\ CallFits(probe'[c]) /\ probe'[c].id = probe[c].id /\ probe'[c].worker = probe[c].worker
             /\ probe'[c].at = probe[c].at /\ probe'[c].svc = probe[c].svc
  <2>1. CallFits(probe[c]) /\ probe[c] \in CallRecords BY RecordOf
  <2>2. ASSUME NEW b \in BOOLEAN
        PROVE  LET q == [probe[c] EXCEPT !.flag = b]
               IN /\ q \in CallRecords /\ q.id = probe[c].id /\ q.worker = probe[c].worker
                  /\ q.at = probe[c].at /\ q.svc = probe[c].svc /\ q.answer = probe[c].answer
                  /\ q.told = probe[c].told /\ q.changed = probe[c].changed
                  /\ q.seen = probe[c].seen /\ q.expected = probe[c].expected
                  /\ q.result = probe[c].result
    BY <2>1 DEF CallRecords
  <2>3. (probe[c].flag \/ c \in Candidate!Pending) \in BOOLEAN BY Zenon
  <2>4. probe'[c] = [probe[c] EXCEPT !.flag = probe[c].flag \/ c \in Candidate!Pending]
    BY <1>0, Zenon
  <2>5. /\ probe'[c] \in CallRecords /\ probe'[c].id = probe[c].id
        /\ probe'[c].worker = probe[c].worker /\ probe'[c].at = probe[c].at
        /\ probe'[c].svc = probe[c].svc /\ probe'[c].answer = probe[c].answer
        /\ probe'[c].told = probe[c].told /\ probe'[c].changed = probe[c].changed
        /\ probe'[c].seen = probe[c].seen /\ probe'[c].expected = probe[c].expected
        /\ probe'[c].result = probe[c].result
    BY <2>2, <2>3, <2>4, Zenon
  <2> QED BY <2>1, <2>5 DEF CallFits
<1>2. CallsFit'
  <2>1. probe' = [c \in Candidate!Calls |-> probe'[c]] BY <1>0, Zenon
  <2> QED BY <1>0, <1>1, <2>1 DEF CallsFit, CallFits
<1>3. 1 \in Candidate!Workers /\ window' \in 1..(MaxWorkers + 1) BY <1>0, CandidateNumbers
<1>4. worker \in [Candidate!Workers -> [tasks : Seq(Candidate!Calls), running : 0..MaxCalls,
                                        ready : Seq(Candidate!Calls)]]
  BY DEF KInv, WorkersFit
<1>5. /\ worker' \in [Candidate!Workers -> [tasks : Seq(Candidate!Calls), running : 0..MaxCalls,
                                            ready : Seq(Candidate!Calls)]]
      /\ \A w \in Candidate!Workers :
           /\ worker'[w].running = worker[w].running
           /\ worker'[w].tasks \in {<<>>, worker[w].tasks}
           /\ worker'[w].ready \in {<<>>, worker[w].ready}
  <2>1. <<>> \in Seq(Candidate!Calls) OBVIOUS
  <2> QED BY <1>0, <1>3, <1>4, <2>1
<1> QED BY <1>0, <1>1, <1>2, <1>3, <1>5, ClosingKept

LEMMA DestroyNextKept ==
  ASSUME Candidate!ProbeAssumption, KInv, Candidate!DestroyNext PROVE KInv'
<1> DEFINE emptied == [worker EXCEPT ![window].ready = <<>>]
<1>0. /\ window \in Candidate!Workers /\ window' = window + 1
      /\ UNCHANGED <<lost, probe, net, forgiven>>
      /\ worker' = IF window = MaxWorkers THEN emptied
                   ELSE [emptied EXCEPT ![window + 1].tasks = <<>>]
      /\ pending' = IF window = MaxWorkers THEN [i \in Ids |-> 0] ELSE pending
  BY DEF Candidate!DestroyNext, Candidate!ShutDown
<1>1. CallsFit' BY <1>0 DEF KInv, CallsFit, CallFits
<1>2. window' \in 1..(MaxWorkers + 1) BY <1>0, CandidateNumbers
<1>3. window # MaxWorkers => window + 1 \in Candidate!Workers BY <1>0, CandidateNumbers
<1>4. worker \in [Candidate!Workers -> [tasks : Seq(Candidate!Calls), running : 0..MaxCalls,
                                        ready : Seq(Candidate!Calls)]]
  BY DEF KInv, WorkersFit
<1>5. <<>> \in Seq(Candidate!Calls) OBVIOUS
<1>6. /\ emptied \in [Candidate!Workers -> [tasks : Seq(Candidate!Calls), running : 0..MaxCalls,
                                            ready : Seq(Candidate!Calls)]]
      /\ \A w \in Candidate!Workers :
           /\ emptied[w].running = worker[w].running
           /\ emptied[w].tasks = worker[w].tasks
           /\ emptied[w].ready \in {<<>>, worker[w].ready}
  BY <1>0, <1>4, <1>5
<1> HIDE DEF emptied
<1>7. /\ worker' \in [Candidate!Workers -> [tasks : Seq(Candidate!Calls), running : 0..MaxCalls,
                                            ready : Seq(Candidate!Calls)]]
      /\ \A w \in Candidate!Workers :
           /\ worker'[w].running = worker[w].running
           /\ worker'[w].tasks \in {<<>>, worker[w].tasks}
           /\ worker'[w].ready \in {<<>>, worker[w].ready}
  <2>1. CASE window = MaxWorkers BY <2>1, <1>0, <1>6
  <2>2. CASE window # MaxWorkers
    <3>1. worker' = [emptied EXCEPT ![window + 1].tasks = <<>>] BY <2>2, <1>0
    <3> QED BY <3>1, <2>2, <1>3, <1>5, <1>6
  <2> QED BY <2>1, <2>2
<1> QED BY <1>0, <1>1, <1>2, <1>7, ClosingKept

LEMMA CandidateNetworkKept ==
  ASSUME Candidate!ProbeAssumption, KInv, Candidate!CandidateNetwork PROVE KInv'
<1>0. /\ lost' = FALSE /\ UNCHANGED <<pending, worker, window, probe, net>>
      /\ forgiven' = forgiven \cup {c \in Candidate!Calls : Candidate!Active(c)}
  BY DEF Candidate!CandidateNetwork
<1>1. WindowFits'
  <2>1. lost' \in BOOLEAN BY <1>0, Zenon
  <2>2. forgiven' \subseteq Candidate!Calls BY <1>0 DEF KInv, WindowFits
  <2> QED BY <1>0, <2>1, <2>2 DEF KInv, WindowFits
<1>2. TableFits' /\ CallsFit' BY <1>0 DEF KInv, TableFits, CallsFit, CallFits
<1>3. WorkersFit' BY <1>0 DEF KInv, WorkersFit, WorkerFits, Idles, Has, Named
<1>4. Candidate!WatchedOrLatched'
  BY <1>0 DEF Candidate!WatchedOrLatched, Candidate!Active
<1>5. Cardinality(Candidate!Listed') <= MaxProbes
  <2>1. Candidate!Listed' \subseteq Candidate!Listed BY <1>0 DEF Candidate!Listed
  <2> QED BY <2>1, ListFits
<1> QED BY <1>1, <1>2, <1>3, <1>4, <1>5 DEF KInv

LEMMA NetworkChangesKept ==
  ASSUME Candidate!ProbeAssumption, KInv, Candidate!NetworkChanges PROVE KInv'
<1>0. /\ net < MaxNet /\ net' = net + 1 /\ UNCHANGED <<pending, lost, worker, window, forgiven>>
      /\ probe' = [c \in Candidate!Calls |->
                    [probe[c] EXCEPT !.changed = probe[c].changed
                                                  \/ probe[c].svc \in {"core", "back"}]]
  BY DEF Candidate!NetworkChanges
<1>n. net \in Nat /\ net' \in Nat /\ net' \in 1..MaxNet
  BY <1>0, CandidateNumbers DEF KInv, WindowFits
<1>1. ASSUME NEW c \in Candidate!Calls
      PROVE  /\ CallFits(probe[c])' /\ probe'[c].id = probe[c].id
             /\ probe'[c].worker = probe[c].worker
             /\ probe'[c].at = probe[c].at /\ probe'[c].svc = probe[c].svc
  <2>1. CallFits(probe[c]) /\ probe[c] \in CallRecords BY RecordOf
  <2>2. ASSUME NEW b \in BOOLEAN
        PROVE  LET q == [probe[c] EXCEPT !.changed = b]
               IN /\ q \in CallRecords /\ q.id = probe[c].id /\ q.worker = probe[c].worker
                  /\ q.at = probe[c].at /\ q.svc = probe[c].svc /\ q.answer = probe[c].answer
                  /\ q.told = probe[c].told /\ q.changed = b
                  /\ q.seen = probe[c].seen /\ q.expected = probe[c].expected
                  /\ q.result = probe[c].result
    BY <2>1 DEF CallRecords
  <2> DEFINE b == probe[c].changed \/ probe[c].svc \in {"core", "back"}
  <2>3. b \in BOOLEAN BY Zenon
  <2>4. probe'[c] = [probe[c] EXCEPT !.changed = b] BY <1>0, Zenon
  <2>5. /\ probe'[c] \in CallRecords /\ probe'[c].id = probe[c].id
        /\ probe'[c].worker = probe[c].worker /\ probe'[c].at = probe[c].at
        /\ probe'[c].svc = probe[c].svc /\ probe'[c].answer = probe[c].answer
        /\ probe'[c].told = probe[c].told /\ probe'[c].changed = b
        /\ probe'[c].seen = probe[c].seen /\ probe'[c].expected = probe[c].expected
        /\ probe'[c].result = probe[c].result
    <3> HIDE DEF b
    <3> QED BY <2>2, <2>3, <2>4, Zenon
  <2>6. probe[c].svc \notin {"core", "back"} => (probe'[c].changed => probe[c].changed)
    BY <2>5, Zenon
  <2>7. probe[c].svc \in {"core", "back"} => probe[c].seen <= net' /\ probe[c].seen # net'
    <3>1. probe[c].seen \in Nat BY <2>1 DEF CallRecords
    <3> QED BY <2>1, <3>1, <1>0, <1>n DEF CallFits
  <2> HIDE DEF b
  <2> QED BY <2>1, <2>5, <2>6, <2>7 DEF CallFits
<1>2. CallsFit'
  <2>1. probe' = [c \in Candidate!Calls |-> probe'[c]] BY <1>0, Zenon
  <2> QED BY <1>1, <2>1 DEF CallsFit
<1>3. TableFits'
  <2>1. \A i \in Ids : pending[i] # 0 => pending[i] \in Candidate!Calls
    BY CandidateNumbers DEF KInv, TableFits
  <2> QED BY <1>0, <1>1, <2>1 DEF KInv, TableFits
<1>4. WorkersFit'
  <2>1. ASSUME NEW w \in Candidate!Workers PROVE WorkerFits(w)'
    <3>1. WorkerFits(w) BY DEF KInv, WorkersFit
    <3> QED BY <3>1, <1>0, <1>1 DEF WorkerFits, Idles, Has, Named
  <2> QED BY <2>1, <1>0, <1>1 DEF KInv, WorkersFit
<1>5. Candidate!WatchedOrLatched'
  BY <1>0, <1>1 DEF KInv, Candidate!WatchedOrLatched, Candidate!Active, Candidate!Open
<1>6. Cardinality(Candidate!Listed') <= MaxProbes
  <2>1. Candidate!Listed' \subseteq Candidate!Listed BY <1>1 DEF Candidate!Listed
  <2> QED BY <2>1, ListFits
<1>7. WindowFits' BY <1>0, <1>n DEF KInv, WindowFits
<1> QED BY <1>2, <1>3, <1>4, <1>5, <1>6, <1>7 DEF KInv

LEMMA CandidateStutters ==
  ASSUME Candidate!ProbeAssumption, KInv, UNCHANGED Candidate!vars PROVE KInv'
<1>0. UNCHANGED <<pending, lost, worker, window, probe, net, forgiven>> BY DEF Candidate!vars
<1>1. WindowFits' /\ TableFits' /\ CallsFit'
  BY <1>0 DEF KInv, WindowFits, TableFits, CallsFit, CallFits
<1>2. WorkersFit' BY <1>0 DEF KInv, WorkersFit, WorkerFits, Idles, Has, Named
<1>3. Candidate!WatchedOrLatched'
  BY <1>0 DEF KInv, Candidate!WatchedOrLatched, Candidate!Active, Candidate!Open
<1>4. Cardinality(Candidate!Listed') <= MaxProbes
  <2>1. Candidate!Listed' \subseteq Candidate!Listed BY <1>0 DEF Candidate!Listed
  <2> QED BY <2>1, ListFits
<1> QED BY <1>1, <1>2, <1>3, <1>4 DEF KInv

LEMMA CandidateStarts == ASSUME Candidate!ProbeAssumption, Candidate!Init PROVE KInv
<1>n. /\ MaxWorkers \in Nat \ {0} /\ MaxNet \in Nat \ {0} /\ MaxCalls \in Nat \ {0}
      /\ MaxProbes \in Nat
  BY CandidateNumbers
<1>0. /\ pending = [i \in Ids |-> 0] /\ lost = FALSE /\ window = 0 /\ net = 1 /\ forgiven = {}
      /\ worker = [w \in Candidate!Workers |-> [tasks |-> <<>>, running |-> 0, ready |-> <<>>]]
      /\ probe = [c \in Candidate!Calls |-> Candidate!NoCall]
  BY DEF Candidate!Init
<1>e. /\ Candidate!NoCall \in CallRecords /\ Candidate!NoCall.svc = "none"
      /\ Candidate!NoCall.told = "none" /\ ~Candidate!NoCall.changed
      /\ Candidate!NoCall.at = "free"
  BY EmptyCall
<1>1. WindowFits
  <2>1. lost \in BOOLEAN BY <1>0, Zenon
  <2> QED BY <1>0, <1>n, <2>1 DEF WindowFits
<1>2. TableFits BY <1>0, <1>n DEF TableFits
<1>3. WorkersFit
  <2>1. <<>> \in Seq(Candidate!Calls) /\ 0 \in 0..MaxCalls BY <1>n
  <2> QED BY <1>0, <1>e, <2>1 DEF WorkersFit, WorkerFits, Idles, InCall
<1>4. CallsFit
  <2>1. CallFits(Candidate!NoCall) BY <1>e DEF CallFits
  <2> QED BY <1>0, <2>1 DEF CallsFit
<1>5. Candidate!WatchedOrLatched BY <1>0, <1>e DEF Candidate!WatchedOrLatched, Candidate!Active
<1>6. Cardinality(Candidate!Listed) <= MaxProbes
  <2>1. Candidate!Listed = {} BY <1>0, <1>e DEF Candidate!Listed
  <2> QED BY <2>1, <1>n, FS_EmptySet
<1> QED BY <1>1, <1>2, <1>3, <1>4, <1>5, <1>6 DEF KInv

LEMMA CandidateKept ==
  ASSUME Candidate!ProbeAssumption, KInv, [Candidate!Next]_Candidate!vars PROVE KInv'
<1>1. CASE Candidate!WindowStep
  BY <1>1, CancelPendingKept, ProbeKept, CandidateNetworkKept, DestroyKept
     DEF Candidate!WindowStep
<1>2. CASE Candidate!DrainStep BY <1>2, DestroyNextKept, DrainKept DEF Candidate!DrainStep
<1>3. CASE Candidate!WorkerStep
  BY <1>3, PickKept, SendKept, EndsKept, NoAnswerKept DEF Candidate!WorkerStep
<1>4. CASE Candidate!ServiceStep
  BY <1>4, AdmitKept, JudgeKept, RetireKept, CancelKept, ReadNetworkKept, CoreProbeKept
     DEF Candidate!ServiceStep
<1>5. CASE Candidate!NetworkChanges BY <1>5, NetworkChangesKept
<1>6. CASE UNCHANGED Candidate!vars BY <1>6, CandidateStutters
<1> QED BY <1>1, <1>2, <1>3, <1>4, <1>5, <1>6 DEF Candidate!Next, Candidate!Rests

LEMMA CandidateInvariant == ASSUME Candidate!ProbeAssumption, KInv PROVE Candidate!ProbesAreTracked
<1>c. \A c \in Candidate!Calls : CallFits(probe[c]) /\ probe[c] \in CallRecords BY RecordOf
<1>1. Candidate!TypeOK
  <2>1. /\ pending \in [Ids -> 0..MaxCalls] /\ lost \in BOOLEAN
        /\ forgiven \subseteq Candidate!Calls
        /\ window \in 0..(MaxWorkers + 1) /\ net \in 1..MaxNet
    BY DEF KInv, TableFits, WindowFits
  <2>2. \A w \in Candidate!Workers :
          /\ worker[w].running \in 0..MaxCalls
          /\ {worker[w].tasks, worker[w].ready} \subseteq Seq(Candidate!Calls)
    BY DEF KInv, WorkersFit
  <2>3. \A c \in Candidate!Calls :
          /\ probe[c].at \in {"free", "queued", "invoked", "waiting", "lost", "over"}
          /\ probe[c].svc \in {"none", "sent", "listed", "core", "back", "judged", "retired"}
          /\ probe[c].told \in {"none", "settled", "unconfirmed"}
    BY <1>c DEF CallRecords
  <2>4. Candidate!Cardinality(Candidate!Listed) <= MaxProbes BY ProbeCounts DEF KInv
  <2> QED BY <2>1, <2>2, <2>3, <2>4 DEF Candidate!TypeOK
<1>2. Candidate!WorkerPerCandidate
  <2>1. ASSUME NEW w \in Candidate!Workers
        PROVE  Len(worker[w].tasks) + (IF worker[w].running = 0 THEN 0 ELSE 1)
                 + Len(worker[w].ready) <= 1
    <3>1. WorkerFits(w) BY DEF KInv, WorkersFit
    <3>2. Len(<<>>) = 0 /\ \A c : Len(<<c>>) = 1 OBVIOUS
    <3>3. CASE Idles(w) BY <3>2, <3>3 DEF Idles
    <3>4. ASSUME NEW c \in Candidate!Calls, Has(w, c)
          PROVE  Len(worker[w].tasks) + (IF worker[w].running = 0 THEN 0 ELSE 1)
                   + Len(worker[w].ready) <= 1
      <4>1. c # 0 BY CandidateNumbers
      <4>2. \/ Len(worker[w].tasks) = 1 /\ worker[w].running = 0 /\ Len(worker[w].ready) = 0
            \/ Len(worker[w].tasks) = 0 /\ worker[w].running # 0 /\ Len(worker[w].ready) = 0
            \/ Len(worker[w].tasks) = 0 /\ worker[w].running = 0 /\ Len(worker[w].ready) = 1
        BY <3>2, <3>4, <4>1 DEF Has
      <4>3. /\ worker[w].running = 0 => (IF worker[w].running = 0 THEN 0 ELSE 1) = 0
            /\ worker[w].running # 0 => (IF worker[w].running = 0 THEN 0 ELSE 1) = 1
        BY Zenon
      <4>4. ASSUME NEW a, NEW n, NEW b,
                   \/ a = 1 /\ n = 0 /\ b = 0
                   \/ a = 0 /\ n = 1 /\ b = 0
                   \/ a = 0 /\ n = 0 /\ b = 1
            PROVE  a + n + b <= 1
        BY <4>4
      <4> QED BY <4>2, <4>3, <4>4, Zenon
    <3> QED BY <3>1, <3>3, <3>4 DEF WorkerFits
  <2> QED BY <2>1 DEF Candidate!WorkerPerCandidate
<1>3. Candidate!SettledIsRetired BY <1>c DEF Candidate!SettledIsRetired, CallFits
<1>4. Candidate!WatchedOrLatched BY DEF KInv
<1>5. Candidate!SuccessOnOneNetwork BY <1>c DEF Candidate!SuccessOnOneNetwork, CallFits
<1> QED BY <1>1, <1>2, <1>3, <1>4, <1>5 DEF Candidate!ProbesAreTracked

\* What is believed of a candidate probe is so, for any ids, workers, calls and
\* networks and any bound of the service's table: a probe has a worker to itself
\* (probeCandidate), a settled one is closed in the service, one that may still run
\* is in the window's table or keeps the latch (the completion in flutter_window.cpp),
\* and a success was measured on the one network asked for (the dispatcher).
THEOREM ProbesTracked ==
  ASSUME Candidate!ProbeAssumption PROVE Candidate!Spec => []ProbesAreTracked
<1>1. Candidate!Init => KInv BY CandidateStarts
<1>2. KInv /\ [Candidate!Next]_Candidate!vars => KInv' BY CandidateKept
<1>3. KInv => ProbesAreTracked BY CandidateInvariant DEF ProbesAreTracked
<1> QED BY <1>1, <1>2, <1>3, PTL DEF Candidate!Spec

-----------------------------------------------------------------------------
(* The local DPI engine *)

HolderStates == {"none", "unpublished", "ready", "failed", "failedDns", "withdrawn"}
Steps ==
  {"idle", "start", "driver", "retry", "child", "ready", "prove", "admit", "publish", "recheck",
   "settle", "commit", "refreshed", "resettle", "rollback", "coreStop"}
CoreRecords == [up : BOOLEAN, gen : [Dpi!Tags -> Nat], st : [Dpi!Tags -> HolderStates]]
ExecRecords ==
  [job : BOOLEAN, process : {"none", "running", "exited"}, driver : BOOLEAN,
   holders : [Dpi!Tags -> Nat], first : Dpi!Strategies, retry_attempted : BOOLEAN,
   admission_attempted : BOOLEAN, strategy : Dpi!Strategies \cup {None}]
HostRecords ==
  [phase : {"staged", "running", "recovery"}, prep : BOOLEAN, disabled : BOOLEAN,
   active : Dpi!Strategies \cup {None}, captured : [Dpi!Tags -> Nat], network : Networks]
LocalRecords ==
  [mode : {"connect", "runtime"}, strategy : Dpi!Strategies, attempt : {1, 2},
   index : Nat \ {0}, any_proof : BOOLEAN, transport : BOOLEAN, admitted : SUBSET Dpi!Tags,
   proved : BOOLEAN]
HintRecords == [strategy : Dpi!Strategies, failed : BOOLEAN]

DpiTypes ==
  /\ core \in CoreRecords /\ exec \in ExecRecords /\ runtime \in HostRecords
  /\ locals \in LocalRecords /\ step \in Steps /\ valid \in BOOLEAN /\ owner \in BOOLEAN
  /\ child \in Nat /\ proofs \in [Dpi!Tags -> Nat] /\ misses \in Nat

\* A table of hints with its limit.
HintTable(h) ==
  /\ h \in [DOMAIN h -> HintRecords]
  /\ IsFiniteSet(DOMAIN h) /\ Cardinality(DOMAIN h) <= MaxHints

Ready(t) == core.up /\ core.st[t] = "ready"

\* A holder that is published is the captured one; it was admitted, so no retry
\* may replace the child under it, and proved through the child there is.
ReadyFits ==
  \A t \in Dpi!Tags : Ready(t) =>
    /\ exec.job /\ exec.admission_attempted
    /\ exec.holders[t] # 0 /\ exec.holders[t] = core.gen[t] /\ proofs[t] = child

\* What an operation has made when it gets to a step.
StepFits ==
  /\ step = "start" => exec = Dpi!Clean
  /\ step \in {"driver", "child"} => ~exec.admission_attempted
  /\ step \in {"ready", "prove", "admit", "publish", "recheck"} =>
       exec.job /\ exec.process # "none" /\ exec.strategy = locals.strategy
  /\ step \in {"admit", "publish", "recheck"} =>
       locals.index <= Len(Services) /\ proofs[Services[locals.index]] = child
  /\ step = "publish" => exec.admission_attempted

\* One child before the retry, one after it.
ChildFits ==
  /\ child <= 2
  /\ exec.process # "none" /\ ~exec.retry_attempted => child <= 1
  /\ step \in {"start", "driver"} => child = 0 /\ exec.process = "none" /\ ~exec.retry_attempted
  /\ step = "child" => child <= 1 /\ (~exec.retry_attempted => child = 0)

\* A connect works on a staged session, a runtime retry on a running one that is
\* disabled meanwhile.
PhaseFits ==
  /\ step = "idle" /\ runtime.phase = "staged" => exec = Dpi!Clean
  /\ runtime.phase = "staged" => runtime.active = None
  /\ step \in {"start", "driver", "retry", "settle", "commit"} => locals.mode = "connect"
  /\ step \in {"refreshed", "resettle"} => locals.mode = "runtime"
  /\ step \notin {"idle", "rollback", "coreStop"} =>
       /\ locals.mode = "connect" =>
            runtime.phase = "staged" /\ (step # "commit" => ~runtime.disabled)
       /\ locals.mode = "runtime" => runtime.phase = "running" /\ runtime.disabled

\* What was proved was proved with the strategy of the child.
ActiveFits ==
  /\ step \in {"start", "driver", "retry", "child", "ready", "refreshed"} => locals.admitted = {}
  /\ step \notin {"settle", "commit", "resettle", "idle", "rollback", "coreStop"} => ~locals.proved
  /\ step \in {"settle", "commit"} /\ locals.proved => exec.strategy = locals.strategy
  /\ step = "resettle" /\ locals.admitted # {} => exec.strategy = locals.strategy
  /\ step = "idle" /\ runtime.phase = "running" /\ runtime.active # None /\ ~runtime.disabled =>
       exec.strategy = runtime.active

\* A disabled engine has nothing published, unless a withdrawal failed and then
\* the transition guard.
DisabledFits ==
  /\ step = "commit" /\ runtime.disabled => \A t \in Dpi!Tags : ~Ready(t)
  /\ step = "idle" /\ runtime.phase = "running" /\ runtime.disabled =>
       (\A t \in Dpi!Tags : ~Ready(t)) \/ misses >= 2

DpiInv ==
  /\ DpiTypes /\ HintTable(hints) /\ ReadyFits /\ StepFits /\ ChildFits /\ PhaseFits /\ ActiveFits
  /\ DisabledFits

-----------------------------------------------------------------------------
LEMMA DpiCounts == ASSUME NEW S PROVE Dpi!Cardinality(S) = Cardinality(S)
  BY DEF Dpi!Cardinality, Cardinality

\* A set of numbers has a least one.
LEMMA LeastOf == ASSUME NEW S, S \subseteq Nat, S # {} PROVE \E x \in S : \A y \in S : ~ (y < x)
<1> DEFINE Below == OpToRel(<, Nat)
<1>1. IsWellFoundedOn(Below, Nat) BY NatLessThanWellFounded
<1>2. \E x \in S : \A y \in S : ~ (<<y, x>> \in Below)
  <2> HIDE DEF Below
  <2> QED BY <1>1, WFMin
<1> QED BY <1>2 DEF OpToRel

\* The recursion of RecordEach defines a function: it can be carried one service
\* further as long as there is one.
LEMMA RecordEachIs ==
  ASSUME Dpi!DpiAssumption, NEW h, NEW S, NEW n, NEW hint
  PROVE  Dpi!RecordEach(h, S, n, hint) =
           [i \in 0..Len(Services) |->
              IF i = 0 THEN h
              ELSE IF Services[i] \in S
                   THEN Dpi!Entry(Dpi!RecordEach(h, S, n, hint)[i - 1], n, Services[i], hint)
                   ELSE Dpi!RecordEach(h, S, n, hint)[i - 1]]
<1> DEFINE Go(t, i) == IF Services[i] \in S THEN Dpi!Entry(t, n, Services[i], hint) ELSE t
           Upto(f, m) == f = [i \in 0..m |-> IF i = 0 THEN h ELSE Go(f[i - 1], i)]
           Bad == {m \in 0..Len(Services) : ~ \E f : Upto(f, m)}
<1>n. Len(Services) \in Nat BY DEF Dpi!DpiAssumption
<1>1. Bad = {}
  <2> SUFFICES ASSUME Bad # {} PROVE FALSE OBVIOUS
  <2>1. PICK m \in Bad : \A y \in Bad : ~ (y < m)
    <3> Bad \subseteq Nat OBVIOUS
    <3> HIDE DEF Bad
    <3> QED BY LeastOf
  <2>2. m \in 0..Len(Services) /\ ~ \E f : Upto(f, m) BY <2>1
  <2>3. m # 0
    <3> SUFFICES ASSUME m = 0 PROVE FALSE OBVIOUS
    <3>1. Upto([i \in 0..0 |-> h], 0)
      <4> HIDE DEF Go
      <4> QED OBVIOUS
    <3> HIDE DEF Upto
    <3> QED BY <2>2, <3>1
  <2>4. m - 1 \in 0..Len(Services) /\ m - 1 < m BY <2>2, <2>3, <1>n
  <2>5. m - 1 \notin Bad BY <2>1, <2>4
  <2>6. PICK f : Upto(f, m - 1)
    <3> HIDE DEF Upto
    <3> QED BY <2>4, <2>5
  <2> DEFINE g == [i \in 0..m |-> IF i = m THEN Go(f[m - 1], m) ELSE f[i]]
  <2>7. Upto(g, m)
    <3> HIDE DEF Go
    <3>1. ASSUME NEW i \in 0..m PROVE g[i] = IF i = 0 THEN h ELSE Go(g[i - 1], i)
      <4>1. CASE i = m
        <5>1. g[m - 1] = f[m - 1] BY <2>4, <2>2
        <5>2. g[m] = Go(f[m - 1], m) BY <2>2
        <5> HIDE DEF g
        <5> QED BY <4>1, <2>3, <5>1, <5>2
      <4>2. CASE i # m
        <5>1. i \in 0..(m - 1) BY <4>2, <2>2
        <5>2. f[i] = IF i = 0 THEN h ELSE Go(f[i - 1], i) BY <2>6, <5>1
        <5>3. g[i] = f[i] BY <4>2
        <5>4. i # 0 => g[i - 1] = f[i - 1] BY <2>2
        <5> HIDE DEF g
        <5> QED BY <5>2, <5>3, <5>4
      <4> QED BY <4>1, <4>2
    <3>2. g = [i \in 0..m |-> g[i]] OBVIOUS
    <3> HIDE DEF g
    <3> QED BY <3>1, <3>2
  <2> HIDE DEF Upto, g
  <2> QED BY <2>2, <2>7
<1> DEFINE Is(r) == r = [i \in 0..Len(Services) |->
              IF i = 0 THEN h
              ELSE IF Services[i] \in S THEN Dpi!Entry(r[i - 1], n, Services[i], hint)
                   ELSE r[i - 1]]
<1>2. \E f : Upto(f, Len(Services))
  <2> HIDE DEF Upto
  <2> QED BY <1>1, <1>n
<1>3. \E r : Is(r) BY <1>2, Zenon DEF Upto, Go
<1>4. Dpi!RecordEach(h, S, n, hint) = CHOOSE r : Is(r) BY Zenon DEF Dpi!RecordEach
<1>5. Is(CHOOSE r : Is(r))
  <2> HIDE DEF Is
  <2> QED BY <1>3, Zenon
<1>6. Is(Dpi!RecordEach(h, S, n, hint))
  <2> HIDE DEF Is
  <2> QED BY <1>4, <1>5, Zenon
<1> QED BY <1>6, Zenon DEF Is

LEMMA DpiNumbers ==
  ASSUME Dpi!DpiAssumption
  PROVE  /\ Len(Services) \in Nat \ {0} /\ MaxHints \in Nat \ {0}
         /\ \A i \in 1..Len(Services) : Services[i] \in Dpi!Tags
  BY DEF Dpi!DpiAssumption, Dpi!Tags

\* A full table is emptied before an entry is added.
LEMMA EntryFits ==
  ASSUME Dpi!DpiAssumption, NEW h, HintTable(h), NEW n, NEW t, NEW hint \in HintRecords
  PROVE  HintTable(Dpi!Entry(h, n, t, hint))
<1> DEFINE k0 == <<n, t>>
           kept == IF k0 \in DOMAIN h \/ Cardinality(DOMAIN h) < MaxHints THEN DOMAIN h ELSE {}
           g == [k \in kept \cup {k0} |-> IF k = k0 THEN hint ELSE h[k]]
<1>1. Dpi!Entry(h, n, t, hint) = g BY DpiCounts DEF Dpi!Entry
<1>m. MaxHints \in Nat \ {0} BY DpiNumbers
<1>h. h \in [DOMAIN h -> HintRecords] /\ IsFiniteSet(DOMAIN h) /\ Cardinality(DOMAIN h) <= MaxHints
  BY DEF HintTable
<1>c. Cardinality(DOMAIN h) \in Nat BY <1>h, FS_CardinalityType
<1>2. kept \subseteq DOMAIN h OBVIOUS
<1>3. g \in [kept \cup {k0} -> HintRecords]
  <2> HIDE DEF kept, k0, HintRecords
  <2> QED BY <1>2, <1>h
<1>4. DOMAIN g = kept \cup {k0} OBVIOUS
<1>5. IsFiniteSet(kept \cup {k0}) /\ Cardinality(kept \cup {k0}) <= MaxHints
  <2>1. CASE k0 \in DOMAIN h
    <3>1. kept \cup {k0} = DOMAIN h BY <2>1
    <3> QED BY <3>1, <1>h
  <2>2. CASE k0 \notin DOMAIN h /\ Cardinality(DOMAIN h) < MaxHints
    <3>1. kept = DOMAIN h BY <2>2
    <3>2. IsFiniteSet(DOMAIN h \cup {k0}) /\ Cardinality(DOMAIN h \cup {k0}) = Cardinality(DOMAIN h) + 1
      <4> HIDE DEF k0
      <4> QED BY <2>2, <1>h, FS_AddElement
    <3> HIDE DEF k0, kept
    <3> QED BY <2>2, <3>1, <3>2, <1>c, <1>m
  <2>3. CASE k0 \notin DOMAIN h /\ ~(Cardinality(DOMAIN h) < MaxHints)
    <3>1. kept \cup {k0} = {k0} BY <2>3
    <3>2. IsFiniteSet({k0}) /\ Cardinality({k0}) = 1
      <4> HIDE DEF k0
      <4> QED BY FS_Singleton
    <3> HIDE DEF k0, kept
    <3> QED BY <3>1, <3>2, <1>m
  <2> QED BY <2>1, <2>2, <2>3
<1> HIDE DEF g, kept, k0, HintRecords
<1> QED BY <1>1, <1>3, <1>4, <1>5 DEF HintTable

LEMMA RecordAllFits ==
  ASSUME Dpi!DpiAssumption, NEW h, HintTable(h), NEW S, NEW n, NEW hint \in HintRecords
  PROVE  HintTable(Dpi!RecordAll(h, S, n, hint))
<1> DEFINE R == Dpi!RecordEach(h, S, n, hint)
           Bad == {i \in 0..Len(Services) : ~HintTable(R[i])}
<1>n. Len(Services) \in Nat BY DpiNumbers
<1>0. R = [i \in 0..Len(Services) |->
              IF i = 0 THEN h
              ELSE IF Services[i] \in S THEN Dpi!Entry(R[i - 1], n, Services[i], hint)
                   ELSE R[i - 1]] BY RecordEachIs
<1> HIDE DEF R
<1>1. Bad = {}
  <2> SUFFICES ASSUME Bad # {} PROVE FALSE OBVIOUS
  <2>1. PICK m \in Bad : \A y \in Bad : ~ (y < m)
    <3> Bad \subseteq Nat OBVIOUS
    <3> HIDE DEF Bad
    <3> QED BY LeastOf
  <2>2. m \in 0..Len(Services) /\ ~HintTable(R[m]) BY <2>1
  <2>3. R[m] = IF m = 0 THEN h
               ELSE IF Services[m] \in S THEN Dpi!Entry(R[m - 1], n, Services[m], hint)
                    ELSE R[m - 1]
    BY <1>0, <2>2
  <2>4. m # 0 BY <2>2, <2>3
  <2>5. m - 1 \in 0..Len(Services) /\ m - 1 < m BY <2>2, <2>4, <1>n
  <2>6. HintTable(R[m - 1]) BY <2>1, <2>5
  <2>7. HintTable(Dpi!Entry(R[m - 1], n, Services[m], hint)) BY <2>6, EntryFits
  <2> QED BY <2>2, <2>3, <2>4, <2>6, <2>7
<1> QED BY <1>1, <1>n DEF Dpi!RecordAll, R

LEMMA OtherFits == ASSUME NEW s PROVE Dpi!Other(s) \in Dpi!Strategies
<1>1. \E o \in Dpi!Strategies : o # s BY DEF Dpi!Strategies
<1> QED BY <1>1, Zenon DEF Dpi!Other

\* The strategy that is tried first is one of the two.
LEMMA PreferredFits ==
  ASSUME DpiTypes, HintTable(hints), NEW n PROVE Dpi!Preferred(n) \in Dpi!Strategies
<1> DEFINE known == {t \in Dpi!Tags : <<n, t>> \in DOMAIN hints}
           worked == {hints[<<n, t>>].strategy : t \in {u \in known : ~hints[<<n, u>>].failed}}
           avoids == {Dpi!Other(hints[<<n, t>>].strategy) :
                        t \in {u \in known : hints[<<n, u>>].failed}}
<1>1. worked \subseteq Dpi!Strategies
  BY DEF HintTable, HintRecords
<1>2. avoids \subseteq Dpi!Strategies BY OtherFits
<1>3. ASSUME NEW S, Cardinality(S) = 1 PROVE (CHOOSE s \in S : TRUE) \in S
  <2>1. S # {} BY <1>3, FS_EmptySet
  <2>2. \E s \in S : TRUE BY <2>1
  <2> QED BY <2>2, Zenon
<1>4. Dpi!Fallback \in Dpi!Strategies BY DEF Dpi!Fallback, Dpi!Strategies
<1>5. Dpi!Preferred(n) =
        IF Dpi!Cardinality(worked) = 1 THEN CHOOSE s \in worked : TRUE
        ELSE IF Dpi!Cardinality(avoids) = 1 THEN CHOOSE s \in avoids : TRUE ELSE Dpi!Fallback
  BY Zenon DEF Dpi!Preferred
<1> HIDE DEF worked, avoids
<1>c. Dpi!Cardinality(worked) = Cardinality(worked) /\ Dpi!Cardinality(avoids) = Cardinality(avoids)
  BY DpiCounts
<1> DEFINE w == CHOOSE s \in worked : TRUE
           a == CHOOSE s \in avoids : TRUE
<1>6. Cardinality(worked) = 1 => w \in worked BY <1>3
<1>7. Cardinality(avoids) = 1 => a \in avoids BY <1>3
<1> HIDE DEF w, a
<1>8. Dpi!Preferred(n) =
        IF Cardinality(worked) = 1 THEN w ELSE IF Cardinality(avoids) = 1 THEN a ELSE Dpi!Fallback
  BY <1>5, <1>c, Zenon DEF w, a
<1> QED BY <1>1, <1>2, <1>4, <1>6, <1>7, <1>8

LEMMA ObservedFits ==
  ASSUME Dpi!DpiAssumption, DpiTypes, HintTable(hints) PROVE HintTable(Dpi!Observed)
<1> DEFINE Known(t) == core.up /\ runtime.captured[t] # 0 /\ core.gen[t] = runtime.captured[t]
           read == {Services[i] : i \in {j \in 1..Len(Services) : \A k \in 1..j : Known(Services[k])}}
           failing == {t \in read : core.st[t] \in {"failed", "failedDns"}}
           hint == [strategy |-> runtime.active, failed |-> TRUE]
           table == Dpi!RecordAll(hints, failing, runtime.network, hint)
           cond == runtime.phase = "running" /\ runtime.prep /\ valid /\ runtime.active # None
<1>1. Dpi!Observed = IF cond THEN table ELSE hints BY Zenon DEF Dpi!Observed
<1>2. CASE cond
  <2>1. hint \in HintRecords BY <1>2 DEF DpiTypes, HostRecords, HintRecords
  <2>2. PICK h, S, n, r : h = hints /\ S = failing /\ n = runtime.network /\ r = hint OBVIOUS
  <2>3. HintTable(Dpi!RecordAll(h, S, n, r)) BY <2>1, <2>2, RecordAllFits
  <2> HIDE DEF failing, hint
  <2> QED BY <1>1, <1>2, <2>2, <2>3
<1>3. CASE ~cond BY <1>1, <1>3
<1> QED BY <1>2, <1>3

-----------------------------------------------------------------------------
\* The executor x is e after a stop that did not get to its end.
HalfStopped(x, e) ==
  /\ x \in ExecRecords
  /\ x.process \in {e.process, "none"} /\ (x.job => e.job)
  /\ x.driver = e.driver /\ x.holders = e.holders /\ x.first = e.first
  /\ x.retry_attempted = e.retry_attempted /\ x.admission_attempted = e.admission_attempted
  /\ x.strategy = e.strategy

LEMMA CleanFits ==
  /\ Dpi!Clean \in ExecRecords /\ Dpi!Clean.job = FALSE /\ Dpi!Clean.process = "none"
  /\ Dpi!Clean.driver = FALSE /\ Dpi!Clean.retry_attempted = FALSE
  /\ Dpi!Clean.admission_attempted = FALSE
  /\ Dpi!Clean.holders = [t \in Dpi!Tags |-> 0]
<1>1. Dpi!Fallback \in Dpi!Strategies BY DEF Dpi!Fallback, Dpi!Strategies
<1>2. [t \in Dpi!Tags |-> 0] \in [Dpi!Tags -> Nat] OBVIOUS
<1> DEFINE none == [t \in Dpi!Tags |-> 0]
<1>3. Dpi!Clean = [job |-> FALSE, process |-> "none", driver |-> FALSE,
          holders |-> none, first |-> Dpi!Fallback,
          retry_attempted |-> FALSE, admission_attempted |-> FALSE,
          strategy |-> None] BY DEF Dpi!Clean
<1> HIDE DEF none
<1> QED BY <1>1, <1>2, <1>3 DEF ExecRecords, none

LEMMA ChildStops ==
  ASSUME NEW e \in ExecRecords, NEW c, NEW o \in Dpi!StopWindowsLocalDpiChild(e, c)
  PROVE  /\ o.c = c /\ o.ok \in BOOLEAN
         /\ o.ok => o.e = [e EXCEPT !.job = FALSE, !.process = "none"]
         /\ HalfStopped(o.e, e)
<1> DEFINE a == [e EXCEPT !.job = FALSE, !.process = "none"]
           b == [e EXCEPT !.job = FALSE]
<1>1. o \in {Dpi!Out(TRUE, a, c), Dpi!Out(FALSE, e, c), Dpi!Out(FALSE, b, c)}
  BY DEF Dpi!StopWindowsLocalDpiChild
<1>2. HalfStopped(a, e) /\ HalfStopped(b, e) /\ HalfStopped(e, e)
  BY DEF HalfStopped, ExecRecords
<1> HIDE DEF a, b
<1>3. CASE o = Dpi!Out(TRUE, a, c)
  <2>1. o.ok = TRUE /\ o.e = a /\ o.c = c BY <1>3 DEF Dpi!Out
  <2> QED BY <2>1, <1>2 DEF a
<1>4. CASE o = Dpi!Out(FALSE, e, c)
  <2>1. o.ok = FALSE /\ o.e = e /\ o.c = c BY <1>4 DEF Dpi!Out
  <2> QED BY <2>1, <1>2
<1>5. CASE o = Dpi!Out(FALSE, b, c)
  <2>1. o.ok = FALSE /\ o.e = b /\ o.c = c BY <1>5 DEF Dpi!Out
  <2> QED BY <2>1, <1>2
<1> QED BY <1>1, <1>3, <1>4, <1>5

LEMMA AfterCoreStops ==
  ASSUME NEW e \in ExecRecords, NEW c, NEW o \in Dpi!StopAfterCoreStopped(e, c)
  PROVE  /\ o.c = c /\ o.ok \in BOOLEAN
         /\ o.ok => o.e = Dpi!Clean
         /\ ~o.ok => HalfStopped(o.e, e)
<1>1. PICK x \in Dpi!StopWindowsLocalDpiChild(e, c) :
        \/ ~x.ok /\ o = x
        \/ x.ok /\ o = Dpi!Out(TRUE, Dpi!Clean, c)
        \/ x.ok /\ o = Dpi!Out(FALSE, x.e, c)
  BY DEF Dpi!StopAfterCoreStopped
<1>2. x.c = c /\ x.ok \in BOOLEAN /\ HalfStopped(x.e, e) BY ChildStops
<1>3. CASE ~x.ok /\ o = x BY <1>2, <1>3
<1>4. CASE o = Dpi!Out(TRUE, Dpi!Clean, c)
  <2>1. o.ok = TRUE /\ o.e = Dpi!Clean /\ o.c = c BY <1>4 DEF Dpi!Out
  <2> QED BY <2>1
<1>5. CASE o = Dpi!Out(FALSE, x.e, c)
  <2>1. o.ok = FALSE /\ o.e = x.e /\ o.c = c BY <1>5 DEF Dpi!Out
  <2> QED BY <2>1, <1>2
<1> QED BY <1>1, <1>3, <1>4, <1>5

LEMMA WithdrawnFits ==
  ASSUME NEW e, NEW c \in CoreRecords, NEW S
  PROVE  LET w == Dpi!Withdrawn(e, c, S)
         IN  /\ w \in CoreRecords /\ w.up = c.up /\ w.gen = c.gen
             /\ \A t \in Dpi!Tags : w.st[t] = IF t \in S /\ Dpi!Withdraws(e, c, t)
                                              THEN "withdrawn" ELSE c.st[t]
<1> DEFINE st == [t \in Dpi!Tags |-> IF t \in S /\ Dpi!Withdraws(e, c, t)
                                     THEN "withdrawn" ELSE c.st[t]]
<1>1. c.st \in [Dpi!Tags -> HolderStates] BY DEF CoreRecords
<1>2. st \in [Dpi!Tags -> HolderStates] BY <1>1 DEF HolderStates
<1>3. Dpi!Withdrawn(e, c, S) = [c EXCEPT !.st = st] BY DEF Dpi!Withdrawn, CoreRecords
<1>4. \A t \in Dpi!Tags : st[t] = IF t \in S /\ Dpi!Withdraws(e, c, t) THEN "withdrawn" ELSE c.st[t]
  OBVIOUS
<1> HIDE DEF st
<1> QED BY <1>2, <1>3, <1>4 DEF CoreRecords

\* Stop ends with everything withdrawn and nothing held, or stops half-way: then
\* the job is as it was, or everything is withdrawn.
LEMMA Stops ==
  ASSUME NEW e \in ExecRecords, NEW c \in CoreRecords, NEW o \in Dpi!Stop(e, c)
  PROVE  /\ o.ok \in BOOLEAN /\ o.e \in ExecRecords
         /\ o.c \in CoreRecords /\ o.c.up = c.up /\ o.c.gen = c.gen
         /\ \A t \in Dpi!Tags : o.c.st[t] \in {c.st[t], "withdrawn"}
         /\ o.ok => o.e = Dpi!Clean
         /\ ~o.ok => HalfStopped(o.e, e)
         /\ \/ ~o.ok /\ o.e = e
            \/ \A t \in Dpi!Tags : Dpi!Reads(c, e, t) => o.c.st[t] = "withdrawn"
<1>1. CASE o \in Dpi!StopAfterCoreStopped(e, Dpi!Withdrawn(e, c, Dpi!Tags))
  <2>1. PICK w : w = Dpi!Withdrawn(e, c, Dpi!Tags) OBVIOUS
  <2>2. /\ w \in CoreRecords /\ w.up = c.up /\ w.gen = c.gen
        /\ \A t \in Dpi!Tags : w.st[t] = IF Dpi!Withdraws(e, c, t) THEN "withdrawn" ELSE c.st[t]
    <3>1. PICK S : S = Dpi!Tags OBVIOUS
    <3>2. /\ w \in CoreRecords /\ w.up = c.up /\ w.gen = c.gen
          /\ \A t \in Dpi!Tags : w.st[t] = IF t \in S /\ Dpi!Withdraws(e, c, t)
                                           THEN "withdrawn" ELSE c.st[t]
      BY <2>1, <3>1, WithdrawnFits
    <3> QED BY <3>1, <3>2
  <2>3. /\ o.c = w /\ o.ok \in BOOLEAN /\ (o.ok => o.e = Dpi!Clean)
        /\ ~o.ok => HalfStopped(o.e, e)
    BY <1>1, <2>1, AfterCoreStops
  <2>4. o.e \in ExecRecords BY <2>3, CleanFits DEF HalfStopped
  <2> QED BY <2>2, <2>3, <2>4 DEF Dpi!Withdraws
<1>2. CASE \E i \in 1..Len(Services) :
             o = Dpi!Out(FALSE, e, Dpi!Withdrawn(e, c, {Services[j] : j \in 1..i-1}))
  <2>1. PICK i \in 1..Len(Services) :
             o = Dpi!Out(FALSE, e, Dpi!Withdrawn(e, c, {Services[j] : j \in 1..i-1})) BY <1>2
  <2>2. PICK S : S = {Services[j] : j \in 1..i-1} OBVIOUS
  <2>3. PICK w : w = Dpi!Withdrawn(e, c, S) OBVIOUS
  <2>4. /\ w \in CoreRecords /\ w.up = c.up /\ w.gen = c.gen
        /\ \A t \in Dpi!Tags : w.st[t] \in {c.st[t], "withdrawn"}
    <3>1. /\ w \in CoreRecords /\ w.up = c.up /\ w.gen = c.gen
          /\ \A t \in Dpi!Tags : w.st[t] = IF t \in S /\ Dpi!Withdraws(e, c, t)
                                           THEN "withdrawn" ELSE c.st[t]
      BY <2>3, WithdrawnFits
    <3> QED BY <3>1
  <2>5. o = Dpi!Out(FALSE, e, w) BY <2>1, <2>2, <2>3
  <2>6. o.ok = FALSE /\ o.e = e /\ o.c = w BY <2>5 DEF Dpi!Out
  <2>7. HalfStopped(e, e) BY DEF HalfStopped
  <2> QED BY <2>4, <2>6, <2>7
<1> QED BY <1>1, <1>2 DEF Dpi!Stop

-----------------------------------------------------------------------------
LEMMA Next1Fits ==
  ASSUME DpiTypes
  PROVE  /\ Dpi!Next1 \in LocalRecords /\ Dpi!Next1.mode = locals.mode
         /\ Dpi!Next1.strategy = locals.strategy /\ Dpi!Next1.proved = locals.proved
         /\ Dpi!Next1.admitted = locals.admitted
  BY DEF DpiTypes, LocalRecords, Dpi!Next1

LEMMA NoCallFits ==
  /\ Dpi!NoCall \in LocalRecords /\ Dpi!NoCall.mode = "connect"
  /\ Dpi!NoCall.admitted = {} /\ Dpi!NoCall.proved = FALSE
<1>1. Dpi!Fallback \in Dpi!Strategies BY DEF Dpi!Fallback, Dpi!Strategies
<1>2. {} \in SUBSET Dpi!Tags OBVIOUS
<1> QED BY <1>1, <1>2 DEF LocalRecords, Dpi!NoCall

\* The holder that is proved and admitted is one of the prepared services.
LEMMA TagFits ==
  ASSUME Dpi!DpiAssumption, DpiTypes, locals.index <= Len(Services)
  PROVE  Dpi!Tag \in Dpi!Tags
  BY DpiNumbers DEF DpiTypes, LocalRecords, Dpi!Tag

LEMMA StartPreparedKept == ASSUME Dpi!DpiAssumption, DpiInv, Dpi!StartPrepared PROVE DpiInv'
<1> USE DEF DpiInv
<1>1. DpiTypes' BY DEF DpiTypes, Steps, Dpi!StartPrepared, Dpi!GiveUp, Dpi!Clean, CoreRecords, ExecRecords, HostRecords, LocalRecords
<1>2. HintTable(hints)' BY DEF Dpi!StartPrepared, Dpi!GiveUp, Dpi!Clean
<1>3. ReadyFits' BY DEF ReadyFits, Ready, DpiTypes, Dpi!StartPrepared, Dpi!GiveUp, Dpi!Clean, CoreRecords, ExecRecords
<1>4. StepFits' BY DEF StepFits, DpiTypes, Dpi!StartPrepared, Dpi!GiveUp, Dpi!Clean, ExecRecords, LocalRecords
<1>5. ChildFits' BY DEF ChildFits, DpiTypes, Dpi!StartPrepared, Dpi!GiveUp, Dpi!Clean, ExecRecords
<1>6. PhaseFits' BY DEF PhaseFits, DpiTypes, Dpi!StartPrepared, Dpi!GiveUp, Dpi!Clean, HostRecords, LocalRecords, ExecRecords
<1>7. ActiveFits' BY DEF ActiveFits, DpiTypes, Dpi!StartPrepared, Dpi!GiveUp, Dpi!Clean, ExecRecords, HostRecords, LocalRecords
<1>8. DisabledFits' BY DEF DisabledFits, Ready, DpiTypes, Dpi!StartPrepared, Dpi!GiveUp, Dpi!Clean, CoreRecords, HostRecords
<1> QED BY <1>1, <1>2, <1>3, <1>4, <1>5, <1>6, <1>7, <1>8

LEMMA AdmitChecksKept == ASSUME Dpi!DpiAssumption, DpiInv, Dpi!AdmitChecks PROVE DpiInv'
<1> USE DEF DpiInv
<1>1. DpiTypes'
  <2>1. core' \in CoreRecords BY DEF DpiTypes, Dpi!AdmitChecks
  <2>2. exec' \in ExecRecords BY DEF DpiTypes, Dpi!AdmitChecks, ExecRecords
  <2>3. runtime' \in HostRecords BY DEF DpiTypes, Dpi!AdmitChecks
  <2>4. locals' \in LocalRecords BY Next1Fits DEF DpiTypes, Dpi!AdmitChecks
  <2>5. step' \in Steps BY DEF DpiTypes, Dpi!AdmitChecks, Steps
  <2>6. valid' \in BOOLEAN /\ owner' \in BOOLEAN BY DEF DpiTypes, Dpi!AdmitChecks
  <2>7. child' \in Nat /\ misses' \in Nat BY DEF DpiTypes, Dpi!AdmitChecks
  <2>8. proofs' \in [Dpi!Tags -> Nat] BY DEF DpiTypes, Dpi!AdmitChecks
  <2> QED BY <2>1, <2>2, <2>3, <2>4, <2>5, <2>6, <2>7, <2>8 DEF DpiTypes
<1>2. HintTable(hints)' BY DEF Dpi!AdmitChecks, Dpi!Next1
<1>3. ReadyFits' BY DEF ReadyFits, Ready, DpiTypes, Dpi!AdmitChecks, Dpi!Next1, CoreRecords, ExecRecords
<1>4. StepFits' BY DEF StepFits, DpiTypes, Dpi!AdmitChecks, Dpi!Next1, ExecRecords, LocalRecords
<1>5. ChildFits' BY DEF ChildFits, DpiTypes, Dpi!AdmitChecks, Dpi!Next1, ExecRecords
<1>6. PhaseFits' BY DEF PhaseFits, DpiTypes, Dpi!AdmitChecks, Dpi!Next1, HostRecords, LocalRecords, ExecRecords
<1>7. ActiveFits' BY DEF ActiveFits, DpiTypes, Dpi!AdmitChecks, Dpi!Next1, ExecRecords, HostRecords, LocalRecords
<1>8. DisabledFits' BY DEF DisabledFits, Ready, DpiTypes, Dpi!AdmitChecks, Dpi!Next1, CoreRecords, HostRecords
<1> QED BY <1>1, <1>2, <1>3, <1>4, <1>5, <1>6, <1>7, <1>8

LEMMA AdmitPublishKept == ASSUME Dpi!DpiAssumption, DpiInv, Dpi!AdmitPublish PROVE DpiInv'
<1> USE DEF DpiInv
<1>1. DpiTypes'
  <2>1. core' \in CoreRecords
    <3>1. Dpi!Tag \in Dpi!Tags BY TagFits DEF StepFits, Dpi!AdmitPublish
    <3> QED BY <3>1 DEF DpiTypes, Dpi!AdmitPublish, CoreRecords, HolderStates
  <2>2. exec' \in ExecRecords BY DEF DpiTypes, Dpi!AdmitPublish
  <2>3. runtime' \in HostRecords BY DEF DpiTypes, Dpi!AdmitPublish
  <2>4. locals' \in LocalRecords BY Next1Fits DEF DpiTypes, Dpi!AdmitPublish
  <2>5. step' \in Steps BY DEF DpiTypes, Dpi!AdmitPublish, Steps
  <2>6. valid' \in BOOLEAN /\ owner' \in BOOLEAN BY DEF DpiTypes, Dpi!AdmitPublish
  <2>7. child' \in Nat /\ misses' \in Nat BY DEF DpiTypes, Dpi!AdmitPublish
  <2>8. proofs' \in [Dpi!Tags -> Nat] BY DEF DpiTypes, Dpi!AdmitPublish
  <2> QED BY <2>1, <2>2, <2>3, <2>4, <2>5, <2>6, <2>7, <2>8 DEF DpiTypes
<1>2. HintTable(hints)' BY DEF Dpi!AdmitPublish, Dpi!Next1, Dpi!Tag, Dpi!Reads
<1>3. ReadyFits'
  <2>1. Dpi!Tag \in Dpi!Tags BY TagFits DEF StepFits, Dpi!AdmitPublish
  <2>2. PICK tag \in Dpi!Tags : tag = Dpi!Tag BY <2>1
  <2>3. CASE UNCHANGED core BY <2>3 DEF ReadyFits, Ready, Dpi!AdmitPublish
  <2>4. CASE Dpi!Reads(core, exec, tag) /\ core' = [core EXCEPT !.st[tag] = "ready"]
    <3>1. /\ core'.up = core.up /\ core'.gen = core.gen
          /\ \A t \in Dpi!Tags : t # tag => core'.st[t] = core.st[t]
      BY <2>4 DEF DpiTypes, CoreRecords
    <3>2. exec.job /\ exec.admission_attempted /\ proofs[tag] = child
      BY <2>2 DEF StepFits, Dpi!AdmitPublish, Dpi!Tag
    <3>3. exec.holders[tag] # 0 /\ exec.holders[tag] = core.gen[tag] BY <2>4 DEF Dpi!Reads
    <3> QED BY <3>1, <3>2, <3>3 DEF ReadyFits, Ready, Dpi!AdmitPublish
  <2> QED BY <2>2, <2>3, <2>4 DEF Dpi!AdmitPublish
<1>4. StepFits' BY DEF StepFits, DpiTypes, Dpi!AdmitPublish, Dpi!Next1, Dpi!Tag, Dpi!Reads, ExecRecords, LocalRecords
<1>5. ChildFits' BY DEF ChildFits, DpiTypes, Dpi!AdmitPublish, Dpi!Next1, Dpi!Tag, Dpi!Reads, ExecRecords
<1>6. PhaseFits' BY DEF PhaseFits, DpiTypes, Dpi!AdmitPublish, Dpi!Next1, Dpi!Tag, Dpi!Reads, HostRecords, LocalRecords, ExecRecords
<1>7. ActiveFits' BY DEF ActiveFits, DpiTypes, Dpi!AdmitPublish, Dpi!Next1, Dpi!Tag, Dpi!Reads, ExecRecords, HostRecords, LocalRecords
<1>8. DisabledFits' BY DEF DisabledFits, Ready, DpiTypes, Dpi!AdmitPublish, Dpi!Next1, Dpi!Tag, Dpi!Reads, CoreRecords, HostRecords
<1> QED BY <1>1, <1>2, <1>3, <1>4, <1>5, <1>6, <1>7, <1>8

LEMMA AdmitRecheckKept == ASSUME Dpi!DpiAssumption, DpiInv, Dpi!AdmitRecheck PROVE DpiInv'
<1> USE DEF DpiInv
<1>1. DpiTypes'
  <2>1. core' \in CoreRecords BY DEF DpiTypes, Dpi!AdmitRecheck
  <2>2. exec' \in ExecRecords BY DEF DpiTypes, Dpi!AdmitRecheck
  <2>3. runtime' \in HostRecords BY DEF DpiTypes, Dpi!AdmitRecheck
  <2>4. locals' \in LocalRecords
    <3>1. Dpi!Tag \in Dpi!Tags BY TagFits DEF StepFits, Dpi!AdmitRecheck
    <3>2. [Dpi!Next1 EXCEPT !.admitted = @ \cup {Dpi!Tag}] \in LocalRecords
      BY <3>1, Next1Fits DEF LocalRecords
    <3> QED BY <3>2, Next1Fits DEF Dpi!AdmitRecheck
  <2>5. step' \in Steps BY DEF DpiTypes, Dpi!AdmitRecheck, Steps
  <2>6. valid' \in BOOLEAN /\ owner' \in BOOLEAN BY DEF DpiTypes, Dpi!AdmitRecheck
  <2>7. child' \in Nat /\ misses' \in Nat BY DEF DpiTypes, Dpi!AdmitRecheck
  <2>8. proofs' \in [Dpi!Tags -> Nat] BY DEF DpiTypes, Dpi!AdmitRecheck
  <2> QED BY <2>1, <2>2, <2>3, <2>4, <2>5, <2>6, <2>7, <2>8 DEF DpiTypes
<1>2. HintTable(hints)' BY DEF Dpi!AdmitRecheck, Dpi!Next1, Dpi!Tag
<1>3. ReadyFits' BY DEF ReadyFits, Ready, DpiTypes, Dpi!AdmitRecheck, Dpi!Next1, Dpi!Tag, CoreRecords, ExecRecords
<1>4. StepFits' BY DEF StepFits, DpiTypes, Dpi!AdmitRecheck, Dpi!Next1, Dpi!Tag, ExecRecords, LocalRecords
<1>5. ChildFits' BY DEF ChildFits, DpiTypes, Dpi!AdmitRecheck, Dpi!Next1, Dpi!Tag, ExecRecords
<1>6. PhaseFits' BY DEF PhaseFits, DpiTypes, Dpi!AdmitRecheck, Dpi!Next1, Dpi!Tag, HostRecords, LocalRecords, ExecRecords
<1>7. ActiveFits' BY DEF ActiveFits, DpiTypes, Dpi!AdmitRecheck, Dpi!Next1, Dpi!Tag, ExecRecords, HostRecords, LocalRecords
<1>8. DisabledFits' BY DEF DisabledFits, Ready, DpiTypes, Dpi!AdmitRecheck, Dpi!Next1, Dpi!Tag, CoreRecords, HostRecords
<1> QED BY <1>1, <1>2, <1>3, <1>4, <1>5, <1>6, <1>7, <1>8

LEMMA DpiJudgeKept == ASSUME Dpi!DpiAssumption, DpiInv, Dpi!Judge PROVE DpiInv'
<1> USE DEF DpiInv
<1>1. DpiTypes'
  <2>1. core' \in CoreRecords BY DEF DpiTypes, Dpi!Judge, Dpi!GiveUp
  <2>2. exec' \in ExecRecords BY DEF DpiTypes, Dpi!Judge, Dpi!GiveUp
  <2>3. runtime' \in HostRecords BY DEF DpiTypes, Dpi!Judge, Dpi!GiveUp
  <2>4. locals' \in LocalRecords
    <3>1. \A s : Dpi!Other(s) \in Dpi!Strategies BY OtherFits
    <3>2. [locals EXCEPT !.attempt = 2, !.strategy = Dpi!Other(@)] \in LocalRecords
      BY <3>1 DEF DpiTypes, LocalRecords
    <3>3. \A K \in SUBSET Dpi!Tags, b \in BOOLEAN :
            [locals EXCEPT !.admitted = K, !.proved = b] \in LocalRecords
      BY DEF DpiTypes, LocalRecords
    <3>4. locals.admitted \in SUBSET Dpi!Tags /\ {} \in SUBSET Dpi!Tags BY DEF DpiTypes, LocalRecords
    <3> QED BY <3>2, <3>3, <3>4, Zenon DEF Dpi!Judge
  <2>5. step' \in Steps BY DEF DpiTypes, Dpi!Judge, Dpi!GiveUp, Steps
  <2>6. valid' \in BOOLEAN /\ owner' \in BOOLEAN BY DEF DpiTypes, Dpi!Judge, Dpi!GiveUp
  <2>7. child' \in Nat /\ misses' \in Nat BY DEF DpiTypes, Dpi!Judge, Dpi!GiveUp
  <2>8. proofs' \in [Dpi!Tags -> Nat] BY DEF DpiTypes, Dpi!Judge, Dpi!GiveUp
  <2> QED BY <2>1, <2>2, <2>3, <2>4, <2>5, <2>6, <2>7, <2>8 DEF DpiTypes
<1>2. HintTable(hints)' BY DEF Dpi!Judge, Dpi!GiveUp, Dpi!Current, Dpi!Alive
<1>3. ReadyFits' BY DEF ReadyFits, Ready, DpiTypes, Dpi!Judge, Dpi!GiveUp, Dpi!Current, Dpi!Alive, CoreRecords, ExecRecords
<1>4. StepFits' BY DEF StepFits, DpiTypes, Dpi!Judge, Dpi!GiveUp, Dpi!Current, Dpi!Alive, ExecRecords, LocalRecords
<1>5. ChildFits' BY DEF ChildFits, DpiTypes, Dpi!Judge, Dpi!GiveUp, Dpi!Current, Dpi!Alive, ExecRecords
<1>6. PhaseFits' BY DEF PhaseFits, DpiTypes, Dpi!Judge, Dpi!GiveUp, Dpi!Current, Dpi!Alive, HostRecords, LocalRecords, ExecRecords
<1>7. ActiveFits'
  <2> DEFINE live == Dpi!Current /\ Dpi!Alive
             kept == IF live THEN locals.admitted ELSE {}
             again == [locals EXCEPT !.attempt = 2, !.strategy = Dpi!Other(@)]
             over == [locals EXCEPT !.admitted = kept, !.proved = kept # {}]
  <2>0. step = "prove" /\ ~locals.proved /\ exec.strategy = locals.strategy /\ UNCHANGED <<exec, runtime>>
    BY DEF ActiveFits, StepFits, Dpi!Judge
  <2>1. CASE step' = "retry" /\ locals' = again /\ kept = {} /\ live
    <3>1. again.admitted = locals.admitted /\ again.proved = locals.proved BY DEF DpiTypes, LocalRecords
    <3>2. locals.admitted = {} BY <2>1
    <3> HIDE DEF again
    <3> QED BY <2>0, <2>1, <3>1, <3>2 DEF ActiveFits
  <2>2. CASE step' \in {"settle", "resettle"} /\ locals' = over
    <3>1. over.strategy = locals.strategy BY DEF DpiTypes, LocalRecords
    <3> HIDE DEF over
    <3> QED BY <2>0, <2>2, <3>1 DEF ActiveFits
  <2> QED BY <2>1, <2>2 DEF Dpi!Judge, Dpi!GiveUp
<1>8. DisabledFits' BY DEF DisabledFits, Ready, DpiTypes, Dpi!Judge, Dpi!GiveUp, Dpi!Current, Dpi!Alive, CoreRecords, HostRecords
<1> QED BY <1>1, <1>2, <1>3, <1>4, <1>5, <1>6, <1>7, <1>8

LEMMA CommitKept == ASSUME Dpi!DpiAssumption, DpiInv, Dpi!Commit PROVE DpiInv'
<1> USE DEF DpiInv
<1>1. DpiTypes'
  <2>1. core' \in CoreRecords BY DEF DpiTypes, Dpi!Commit, Dpi!RollBack
  <2>2. exec' \in ExecRecords BY DEF DpiTypes, Dpi!Commit, Dpi!RollBack
  <2>3. runtime' \in HostRecords BY DEF DpiTypes, Dpi!Commit, HostRecords, LocalRecords
  <2>4. locals' \in LocalRecords BY NoCallFits DEF DpiTypes, Dpi!Commit
  <2>5. step' \in Steps BY DEF DpiTypes, Dpi!Commit, Dpi!RollBack, Steps
  <2>6. valid' \in BOOLEAN /\ owner' \in BOOLEAN BY DEF DpiTypes, Dpi!Commit, Dpi!RollBack
  <2>7. child' \in Nat /\ misses' \in Nat BY DEF DpiTypes, Dpi!Commit, Dpi!RollBack
  <2>8. proofs' \in [Dpi!Tags -> Nat] BY DEF DpiTypes, Dpi!Commit, Dpi!RollBack
  <2> QED BY <2>1, <2>2, <2>3, <2>4, <2>5, <2>6, <2>7, <2>8 DEF DpiTypes
<1>2. HintTable(hints)'
  <2>1. CASE UNCHANGED hints BY <2>1
  <2>2. CASE hints' = Dpi!RecordSuccess(hints, locals.admitted, runtime.network, locals.strategy)
    <3>1. [strategy |-> locals.strategy, failed |-> FALSE] \in HintRecords
      BY DEF DpiTypes, LocalRecords, HintRecords
    <3>2. HintTable(Dpi!RecordAll(hints, locals.admitted, runtime.network,
                                  [strategy |-> locals.strategy, failed |-> FALSE]))
      BY <3>1, RecordAllFits
    <3> QED BY <2>2, <3>2 DEF Dpi!RecordSuccess
  <2> QED BY <2>1, <2>2 DEF Dpi!Commit
<1>3. ReadyFits' BY DEF ReadyFits, Ready, DpiTypes, Dpi!Commit, Dpi!RollBack, Dpi!NoCall, Dpi!RecordSuccess, Dpi!Fallback, Dpi!Strategies, CoreRecords, ExecRecords
<1>4. StepFits' BY DEF StepFits, DpiTypes, Dpi!Commit, Dpi!RollBack, Dpi!NoCall, Dpi!RecordSuccess, Dpi!Fallback, Dpi!Strategies, ExecRecords, LocalRecords
<1>5. ChildFits' BY DEF ChildFits, DpiTypes, Dpi!Commit, Dpi!RollBack, Dpi!NoCall, Dpi!RecordSuccess, Dpi!Fallback, Dpi!Strategies, ExecRecords
<1>6. PhaseFits' BY DEF PhaseFits, DpiTypes, Dpi!Commit, Dpi!RollBack, Dpi!NoCall, Dpi!RecordSuccess, Dpi!Fallback, Dpi!Strategies, HostRecords, LocalRecords, ExecRecords
<1>7. ActiveFits'
  <2>0. /\ step = "commit" /\ runtime.phase = "staged" /\ runtime.active = None /\ exec' = exec
        /\ locals.proved => exec.strategy = locals.strategy
    BY DEF PhaseFits, ActiveFits, Dpi!Commit
  <2>1. CASE step' = "rollback" BY <2>1 DEF ActiveFits
  <2>2. CASE /\ step' = "idle" /\ locals.proved
             /\ runtime' = [runtime EXCEPT !.phase = "running", !.active = locals.strategy]
    <3>1. runtime'.active = locals.strategy BY <2>2 DEF DpiTypes, HostRecords
    <3> QED BY <2>0, <2>2, <3>1 DEF ActiveFits
  <2>3. CASE step' = "idle" /\ runtime' = [runtime EXCEPT !.phase = "running"]
    <3>1. runtime'.active = None BY <2>0, <2>3 DEF DpiTypes, HostRecords
    <3> QED BY <2>3, <3>1 DEF ActiveFits
  <2> QED BY <2>1, <2>2, <2>3 DEF Dpi!Commit, Dpi!RollBack
<1>8. DisabledFits' BY DEF DisabledFits, Ready, DpiTypes, Dpi!Commit, Dpi!RollBack, Dpi!NoCall, Dpi!RecordSuccess, Dpi!Fallback, Dpi!Strategies, CoreRecords, HostRecords
<1> QED BY <1>1, <1>2, <1>3, <1>4, <1>5, <1>6, <1>7, <1>8

LEMMA EndExpiredKept == ASSUME Dpi!DpiAssumption, DpiInv, Dpi!EndExpired PROVE DpiInv'
<1> USE DEF DpiInv
<1>1. DpiTypes' BY DEF DpiTypes, Steps, Dpi!EndExpired, Dpi!CancelProtectedHandoff, Dpi!RollBack, Dpi!Tick, CoreRecords, ExecRecords, HostRecords, LocalRecords
<1>2. HintTable(hints)' BY DEF Dpi!EndExpired, Dpi!CancelProtectedHandoff, Dpi!RollBack, Dpi!Tick
<1>3. ReadyFits' BY DEF ReadyFits, Ready, DpiTypes, Dpi!EndExpired, Dpi!CancelProtectedHandoff, Dpi!RollBack, Dpi!Tick, CoreRecords, ExecRecords
<1>4. StepFits' BY DEF StepFits, DpiTypes, Dpi!EndExpired, Dpi!CancelProtectedHandoff, Dpi!RollBack, Dpi!Tick, ExecRecords, LocalRecords
<1>5. ChildFits' BY DEF ChildFits, DpiTypes, Dpi!EndExpired, Dpi!CancelProtectedHandoff, Dpi!RollBack, Dpi!Tick, ExecRecords
<1>6. PhaseFits' BY DEF PhaseFits, DpiTypes, Dpi!EndExpired, Dpi!CancelProtectedHandoff, Dpi!RollBack, Dpi!Tick, HostRecords, LocalRecords, ExecRecords
<1>7. ActiveFits' BY DEF ActiveFits, DpiTypes, Dpi!EndExpired, Dpi!CancelProtectedHandoff, Dpi!RollBack, Dpi!Tick, ExecRecords, HostRecords, LocalRecords
<1>8. DisabledFits' BY DEF DisabledFits, Ready, DpiTypes, Dpi!EndExpired, Dpi!CancelProtectedHandoff, Dpi!RollBack, Dpi!Tick, CoreRecords, HostRecords
<1> QED BY <1>1, <1>2, <1>3, <1>4, <1>5, <1>6, <1>7, <1>8

LEMMA RevokeKept == ASSUME Dpi!DpiAssumption, DpiInv, Dpi!RevokeRoutingCatalog PROVE DpiInv'
<1> USE DEF DpiInv
<1>1. DpiTypes' BY DEF DpiTypes, Steps, Dpi!RevokeRoutingCatalog, Dpi!CancelProtectedHandoff, Dpi!RollBack, Dpi!Tick, CoreRecords, ExecRecords, HostRecords, LocalRecords
<1>2. HintTable(hints)' BY DEF Dpi!RevokeRoutingCatalog, Dpi!CancelProtectedHandoff, Dpi!RollBack, Dpi!Tick
<1>3. ReadyFits' BY DEF ReadyFits, Ready, DpiTypes, Dpi!RevokeRoutingCatalog, Dpi!CancelProtectedHandoff, Dpi!RollBack, Dpi!Tick, CoreRecords, ExecRecords
<1>4. StepFits' BY DEF StepFits, DpiTypes, Dpi!RevokeRoutingCatalog, Dpi!CancelProtectedHandoff, Dpi!RollBack, Dpi!Tick, ExecRecords, LocalRecords
<1>5. ChildFits' BY DEF ChildFits, DpiTypes, Dpi!RevokeRoutingCatalog, Dpi!CancelProtectedHandoff, Dpi!RollBack, Dpi!Tick, ExecRecords
<1>6. PhaseFits' BY DEF PhaseFits, DpiTypes, Dpi!RevokeRoutingCatalog, Dpi!CancelProtectedHandoff, Dpi!RollBack, Dpi!Tick, HostRecords, LocalRecords, ExecRecords
<1>7. ActiveFits' BY DEF ActiveFits, DpiTypes, Dpi!RevokeRoutingCatalog, Dpi!CancelProtectedHandoff, Dpi!RollBack, Dpi!Tick, ExecRecords, HostRecords, LocalRecords
<1>8. DisabledFits' BY DEF DisabledFits, Ready, DpiTypes, Dpi!RevokeRoutingCatalog, Dpi!CancelProtectedHandoff, Dpi!RollBack, Dpi!Tick, CoreRecords, HostRecords
<1> QED BY <1>1, <1>2, <1>3, <1>4, <1>5, <1>6, <1>7, <1>8

LEMMA DisconnectKept == ASSUME Dpi!DpiAssumption, DpiInv, Dpi!Disconnect PROVE DpiInv'
<1> USE DEF DpiInv
<1>1. DpiTypes' BY DEF DpiTypes, Steps, Dpi!Disconnect, Dpi!RollBack, CoreRecords, ExecRecords, HostRecords, LocalRecords
<1>2. HintTable(hints)' BY DEF Dpi!Disconnect, Dpi!RollBack
<1>3. ReadyFits' BY DEF ReadyFits, Ready, DpiTypes, Dpi!Disconnect, Dpi!RollBack, CoreRecords, ExecRecords
<1>4. StepFits' BY DEF StepFits, DpiTypes, Dpi!Disconnect, Dpi!RollBack, ExecRecords, LocalRecords
<1>5. ChildFits' BY DEF ChildFits, DpiTypes, Dpi!Disconnect, Dpi!RollBack, ExecRecords
<1>6. PhaseFits' BY DEF PhaseFits, DpiTypes, Dpi!Disconnect, Dpi!RollBack, HostRecords, LocalRecords, ExecRecords
<1>7. ActiveFits' BY DEF ActiveFits, DpiTypes, Dpi!Disconnect, Dpi!RollBack, ExecRecords, HostRecords, LocalRecords
<1>8. DisabledFits' BY DEF DisabledFits, Ready, DpiTypes, Dpi!Disconnect, Dpi!RollBack, CoreRecords, HostRecords
<1> QED BY <1>1, <1>2, <1>3, <1>4, <1>5, <1>6, <1>7, <1>8

LEMMA SnapshotKept == ASSUME Dpi!DpiAssumption, DpiInv, Dpi!Snapshot PROVE DpiInv'
<1> USE DEF DpiInv
<1>1. DpiTypes' BY DEF DpiTypes, Steps, Dpi!Snapshot, CoreRecords, ExecRecords, HostRecords, LocalRecords
<1>2. HintTable(hints)' BY ObservedFits DEF Dpi!Snapshot
<1>3. ReadyFits' BY DEF ReadyFits, Ready, DpiTypes, Dpi!Snapshot, CoreRecords, ExecRecords
<1>4. StepFits' BY DEF StepFits, DpiTypes, Dpi!Snapshot, ExecRecords, LocalRecords
<1>5. ChildFits' BY DEF ChildFits, DpiTypes, Dpi!Snapshot, ExecRecords
<1>6. PhaseFits' BY DEF PhaseFits, DpiTypes, Dpi!Snapshot, HostRecords, LocalRecords, ExecRecords
<1>7. ActiveFits' BY DEF ActiveFits, DpiTypes, Dpi!Snapshot, ExecRecords, HostRecords, LocalRecords
<1>8. DisabledFits' BY DEF DisabledFits, Ready, DpiTypes, Dpi!Snapshot, CoreRecords, HostRecords
<1> QED BY <1>1, <1>2, <1>3, <1>4, <1>5, <1>6, <1>7, <1>8

LEMMA ChildExitsKept == ASSUME Dpi!DpiAssumption, DpiInv, Dpi!ChildExits PROVE DpiInv'
<1> USE DEF DpiInv
<1>1. DpiTypes' BY DEF DpiTypes, Steps, Dpi!ChildExits, Dpi!Alive, Dpi!Clean, CoreRecords, ExecRecords, HostRecords, LocalRecords
<1>2. HintTable(hints)' BY DEF Dpi!ChildExits, Dpi!Alive, Dpi!Clean
<1>3. ReadyFits' BY DEF ReadyFits, Ready, DpiTypes, Dpi!ChildExits, Dpi!Alive, Dpi!Clean, CoreRecords, ExecRecords
<1>4. StepFits' BY DEF StepFits, DpiTypes, Dpi!ChildExits, Dpi!Alive, Dpi!Clean, ExecRecords, LocalRecords
<1>5. ChildFits' BY DEF ChildFits, DpiTypes, Dpi!ChildExits, Dpi!Alive, Dpi!Clean, ExecRecords
<1>6. PhaseFits' BY DEF PhaseFits, DpiTypes, Dpi!ChildExits, Dpi!Alive, Dpi!Clean, HostRecords, LocalRecords, ExecRecords
<1>7. ActiveFits' BY DEF ActiveFits, DpiTypes, Dpi!ChildExits, Dpi!Alive, Dpi!Clean, ExecRecords, HostRecords, LocalRecords
<1>8. DisabledFits' BY DEF DisabledFits, Ready, DpiTypes, Dpi!ChildExits, Dpi!Alive, Dpi!Clean, CoreRecords, HostRecords
<1> QED BY <1>1, <1>2, <1>3, <1>4, <1>5, <1>6, <1>7, <1>8

LEMMA HolderFailsKept == ASSUME Dpi!DpiAssumption, DpiInv, NEW t \in Dpi!Tags, Dpi!HolderFails(t) PROVE DpiInv'
<1> USE DEF DpiInv
<1>1. DpiTypes' BY DEF DpiTypes, Steps, Dpi!HolderFails, HolderStates, CoreRecords, ExecRecords, HostRecords, LocalRecords
<1>2. HintTable(hints)' BY DEF Dpi!HolderFails, HolderStates
<1>3. ReadyFits' BY DEF ReadyFits, Ready, DpiTypes, Dpi!HolderFails, HolderStates, CoreRecords, ExecRecords
<1>4. StepFits' BY DEF StepFits, DpiTypes, Dpi!HolderFails, HolderStates, ExecRecords, LocalRecords
<1>5. ChildFits' BY DEF ChildFits, DpiTypes, Dpi!HolderFails, HolderStates, ExecRecords
<1>6. PhaseFits' BY DEF PhaseFits, DpiTypes, Dpi!HolderFails, HolderStates, HostRecords, LocalRecords, ExecRecords
<1>7. ActiveFits' BY DEF ActiveFits, DpiTypes, Dpi!HolderFails, HolderStates, ExecRecords, HostRecords, LocalRecords
<1>8. DisabledFits' BY DEF DisabledFits, Ready, DpiTypes, Dpi!HolderFails, HolderStates, CoreRecords, HostRecords
<1> QED BY <1>1, <1>2, <1>3, <1>4, <1>5, <1>6, <1>7, <1>8

LEMMA CoreReplacesKept == ASSUME Dpi!DpiAssumption, DpiInv, NEW t \in Dpi!Tags, Dpi!CoreReplaces(t) PROVE DpiInv'
<1> USE DEF DpiInv
<1>1. DpiTypes'
  <2>1. core' \in CoreRecords
    <3>1. core.gen[t] + 1 \in Nat /\ core.gen \in [Dpi!Tags -> Nat] /\ core.st \in [Dpi!Tags -> HolderStates]
      BY DEF DpiTypes, CoreRecords
    <3>2. [core.gen EXCEPT ![t] = @ + 1] \in [Dpi!Tags -> Nat] BY <3>1
    <3>3. [core.st EXCEPT ![t] = "unpublished"] \in [Dpi!Tags -> HolderStates] BY <3>1 DEF HolderStates
    <3>4. core' = [core EXCEPT !.gen = [core.gen EXCEPT ![t] = @ + 1],
                               !.st = [core.st EXCEPT ![t] = "unpublished"]]
      BY DEF Dpi!CoreReplaces
    <3> QED BY <3>2, <3>3, <3>4 DEF DpiTypes, CoreRecords
  <2>2. exec' \in ExecRecords BY DEF DpiTypes, Dpi!CoreReplaces
  <2>3. runtime' \in HostRecords BY DEF DpiTypes, Dpi!CoreReplaces
  <2>4. locals' \in LocalRecords BY DEF DpiTypes, Dpi!CoreReplaces
  <2>5. step' \in Steps BY DEF DpiTypes, Dpi!CoreReplaces, Steps
  <2>6. valid' \in BOOLEAN /\ owner' \in BOOLEAN BY DEF DpiTypes, Dpi!CoreReplaces
  <2>7. child' \in Nat /\ misses' \in Nat BY DEF DpiTypes, Dpi!CoreReplaces
  <2>8. proofs' \in [Dpi!Tags -> Nat] BY DEF DpiTypes, Dpi!CoreReplaces
  <2> QED BY <2>1, <2>2, <2>3, <2>4, <2>5, <2>6, <2>7, <2>8 DEF DpiTypes
<1>2. HintTable(hints)' BY DEF Dpi!CoreReplaces, HolderStates
<1>3. ReadyFits' BY DEF ReadyFits, Ready, DpiTypes, Dpi!CoreReplaces, HolderStates, CoreRecords, ExecRecords
<1>4. StepFits' BY DEF StepFits, DpiTypes, Dpi!CoreReplaces, HolderStates, ExecRecords, LocalRecords
<1>5. ChildFits' BY DEF ChildFits, DpiTypes, Dpi!CoreReplaces, HolderStates, ExecRecords
<1>6. PhaseFits' BY DEF PhaseFits, DpiTypes, Dpi!CoreReplaces, HolderStates, HostRecords, LocalRecords, ExecRecords
<1>7. ActiveFits' BY DEF ActiveFits, DpiTypes, Dpi!CoreReplaces, HolderStates, ExecRecords, HostRecords, LocalRecords
<1>8. DisabledFits' BY DEF DisabledFits, Ready, DpiTypes, Dpi!CoreReplaces, HolderStates, CoreRecords, HostRecords
<1> QED BY <1>1, <1>2, <1>3, <1>4, <1>5, <1>6, <1>7, <1>8

LEMMA CatalogExpiresKept == ASSUME Dpi!DpiAssumption, DpiInv, Dpi!CatalogExpires PROVE DpiInv'
<1> USE DEF DpiInv
<1>1. DpiTypes'
  <2>1. core' \in CoreRecords BY DEF DpiTypes, Dpi!CatalogExpires
  <2>2. exec' \in ExecRecords BY DEF DpiTypes, Dpi!CatalogExpires
  <2>3. runtime' \in HostRecords BY DEF DpiTypes, Dpi!CatalogExpires
  <2>4. locals' \in LocalRecords BY DEF DpiTypes, Dpi!CatalogExpires
  <2>5. step' \in Steps BY DEF DpiTypes, Dpi!CatalogExpires, Steps
  <2>6. valid' \in BOOLEAN /\ owner' \in BOOLEAN BY DEF DpiTypes, Dpi!CatalogExpires
  <2>7. child' \in Nat /\ misses' \in Nat BY DEF DpiTypes, Dpi!CatalogExpires
  <2>8. proofs' \in [Dpi!Tags -> Nat] BY DEF DpiTypes, Dpi!CatalogExpires
  <2> QED BY <2>1, <2>2, <2>3, <2>4, <2>5, <2>6, <2>7, <2>8 DEF DpiTypes
<1>2. HintTable(hints)' BY DEF Dpi!CatalogExpires
<1>3. ReadyFits' BY DEF ReadyFits, Ready, DpiTypes, Dpi!CatalogExpires, CoreRecords, ExecRecords
<1>4. StepFits' BY DEF StepFits, DpiTypes, Dpi!CatalogExpires, ExecRecords, LocalRecords
<1>5. ChildFits' BY DEF ChildFits, DpiTypes, Dpi!CatalogExpires, ExecRecords
<1>6. PhaseFits' BY DEF PhaseFits, DpiTypes, Dpi!CatalogExpires, HostRecords, LocalRecords, ExecRecords
<1>7. ActiveFits' BY DEF ActiveFits, DpiTypes, Dpi!CatalogExpires, ExecRecords, HostRecords, LocalRecords
<1>8. DisabledFits' BY DEF DisabledFits, Ready, DpiTypes, Dpi!CatalogExpires, CoreRecords, HostRecords
<1> QED BY <1>1, <1>2, <1>3, <1>4, <1>5, <1>6, <1>7, <1>8

LEMMA OwnerLostKept == ASSUME Dpi!DpiAssumption, DpiInv, Dpi!OwnerLost PROVE DpiInv'
<1> USE DEF DpiInv
<1>1. DpiTypes'
  <2>1. core' \in CoreRecords BY DEF DpiTypes, Dpi!OwnerLost
  <2>2. exec' \in ExecRecords BY DEF DpiTypes, Dpi!OwnerLost
  <2>3. runtime' \in HostRecords BY DEF DpiTypes, Dpi!OwnerLost
  <2>4. locals' \in LocalRecords BY DEF DpiTypes, Dpi!OwnerLost
  <2>5. step' \in Steps BY DEF DpiTypes, Dpi!OwnerLost, Steps
  <2>6. valid' \in BOOLEAN /\ owner' \in BOOLEAN BY DEF DpiTypes, Dpi!OwnerLost
  <2>7. child' \in Nat /\ misses' \in Nat BY DEF DpiTypes, Dpi!OwnerLost
  <2>8. proofs' \in [Dpi!Tags -> Nat] BY DEF DpiTypes, Dpi!OwnerLost
  <2> QED BY <2>1, <2>2, <2>3, <2>4, <2>5, <2>6, <2>7, <2>8 DEF DpiTypes
<1>2. HintTable(hints)' BY DEF Dpi!OwnerLost
<1>3. ReadyFits' BY DEF ReadyFits, Ready, DpiTypes, Dpi!OwnerLost, CoreRecords, ExecRecords
<1>4. StepFits' BY DEF StepFits, DpiTypes, Dpi!OwnerLost, ExecRecords, LocalRecords
<1>5. ChildFits' BY DEF ChildFits, DpiTypes, Dpi!OwnerLost, ExecRecords
<1>6. PhaseFits' BY DEF PhaseFits, DpiTypes, Dpi!OwnerLost, HostRecords, LocalRecords, ExecRecords
<1>7. ActiveFits' BY DEF ActiveFits, DpiTypes, Dpi!OwnerLost, ExecRecords, HostRecords, LocalRecords
<1>8. DisabledFits' BY DEF DisabledFits, Ready, DpiTypes, Dpi!OwnerLost, CoreRecords, HostRecords
<1> QED BY <1>1, <1>2, <1>3, <1>4, <1>5, <1>6, <1>7, <1>8

-----------------------------------------------------------------------------
\* After Stop what is still published was not withdrawn because the first call
\* failed, and the child is there as before.
LEMMA StopStep ==
  ASSUME DpiTypes, ReadyFits, NEW e \in ExecRecords, e.holders = exec.holders,
         exec.job => e.job, e.admission_attempted = exec.admission_attempted,
         NEW o \in Dpi!Stop(e, core), exec' = o.e, core' = o.c, UNCHANGED <<proofs, child>>
  PROVE  /\ o.ok \in BOOLEAN /\ exec' \in ExecRecords /\ core' \in CoreRecords /\ ReadyFits'
         /\ o.ok => exec' = Dpi!Clean /\ \A t \in Dpi!Tags : ~Ready(t)'
         /\ ~o.ok => HalfStopped(exec', e)
<1>1. core \in CoreRecords BY DEF DpiTypes
<1>2. PICK c \in CoreRecords : c = core BY <1>1
<1>3. /\ o.ok \in BOOLEAN /\ o.e \in ExecRecords
      /\ o.c \in CoreRecords /\ o.c.up = core.up /\ o.c.gen = core.gen
      /\ \A t \in Dpi!Tags : o.c.st[t] \in {core.st[t], "withdrawn"}
      /\ o.ok => o.e = Dpi!Clean
      /\ ~o.ok => HalfStopped(o.e, e)
      /\ \/ ~o.ok /\ o.e = e
         \/ \A t \in Dpi!Tags : Dpi!Reads(core, e, t) => o.c.st[t] = "withdrawn"
  BY <1>2, Stops
<1>4. ASSUME NEW t \in Dpi!Tags, Ready(t)' PROVE Ready(t) /\ Dpi!Reads(core, e, t)
  <2>1. core.up /\ core.st[t] = "ready" BY <1>3, <1>4 DEF Ready
  <2> QED BY <2>1 DEF ReadyFits, Ready, Dpi!Reads
<1>5. CASE ~o.ok /\ o.e = e
  <2>1. ReadyFits' BY <1>3, <1>4, <1>5 DEF ReadyFits
  <2> QED BY <1>3, <1>5, <2>1
<1>6. CASE \A t \in Dpi!Tags : Dpi!Reads(core, e, t) => o.c.st[t] = "withdrawn"
  <2>1. \A t \in Dpi!Tags : ~Ready(t)' BY <1>4, <1>6 DEF Ready
  <2> QED BY <1>3, <2>1 DEF ReadyFits
<1> QED BY <1>3, <1>5, <1>6

\* An operation that gives up before it has admitted anything leaves the rest to
\* Settle or Resettle.
LEMMA GaveUp ==
  ASSUME DpiInv, step \in {"start", "driver", "retry", "child", "ready", "refreshed"},
         Dpi!GiveUp, exec' \in ExecRecords, core' \in CoreRecords, misses' \in Nat, ReadyFits',
         exec'.process # "none" /\ ~exec'.retry_attempted => child <= 1,
         UNCHANGED <<valid, owner, runtime, hints, locals, child, proofs>>
  PROVE  DpiInv'
<1> USE DEF DpiInv
<1>0. /\ \/ locals.mode = "connect" /\ step' = "settle"
         \/ locals.mode = "runtime" /\ step' = "resettle"
      /\ ~locals.proved /\ locals.admitted = {}
  BY DEF Dpi!GiveUp, DpiTypes, LocalRecords, ActiveFits
<1>1. DpiTypes' BY <1>0 DEF DpiTypes, Steps
<1>2. HintTable(hints)' OBVIOUS
<1>4. StepFits' BY <1>0 DEF StepFits
<1>5. ChildFits' BY <1>0 DEF ChildFits
<1>6. PhaseFits' BY <1>0 DEF PhaseFits
<1>7. ActiveFits' BY <1>0 DEF ActiveFits
<1>8. DisabledFits' BY <1>0 DEF DisabledFits
<1> QED BY <1>1, <1>2, <1>4, <1>5, <1>6, <1>7, <1>8

\* The same with Stop before it.
LEMMA StoppedAndGaveUp ==
  ASSUME DpiInv, step \in {"driver", "child", "ready"}, Dpi!GiveUp,
         NEW e \in ExecRecords, e.holders = exec.holders, exec.job => e.job, e.process = exec.process,
         e.admission_attempted = exec.admission_attempted, e.retry_attempted = exec.retry_attempted,
         \E o \in Dpi!Stop(e, core) : Dpi!Becomes(o),
         UNCHANGED <<valid, owner, runtime, hints, locals, child, proofs>>
  PROVE  DpiInv'
<1>1. PICK o \in Dpi!Stop(e, core) : Dpi!Becomes(o) OBVIOUS
<1>2. exec' = o.e /\ core' = o.c /\ misses' = IF o.ok THEN misses ELSE misses + 1
  BY <1>1 DEF Dpi!Becomes
<1>3. /\ o.ok \in BOOLEAN /\ exec' \in ExecRecords /\ core' \in CoreRecords /\ ReadyFits'
      /\ o.ok => exec' = Dpi!Clean
      /\ ~o.ok => HalfStopped(exec', e)
  BY <1>2, StopStep DEF DpiInv
<1>4. misses' \in Nat BY <1>2, <1>3 DEF DpiInv, DpiTypes
<1>5. exec'.process # "none" /\ ~exec'.retry_attempted => child <= 1
  <2>1. CASE o.ok BY <2>1, <1>3, CleanFits
  <2>2. CASE ~o.ok BY <2>2, <1>3 DEF HalfStopped, DpiInv, ChildFits
  <2> QED BY <2>1, <2>2
<1> QED BY <1>3, <1>4, <1>5, GaveUp

LEMMA OpenDriverKept == ASSUME Dpi!DpiAssumption, DpiInv, Dpi!OpenDriver PROVE DpiInv'
<1>e. exec \in ExecRecords BY DEF DpiInv, DpiTypes
<1>1. CASE Dpi!GiveUp /\ \E o \in Dpi!Stop(exec, core) : Dpi!Becomes(o)
  <2>1. PICK e \in ExecRecords : e = exec BY <1>e
  <2> QED BY <1>1, <2>1, StoppedAndGaveUp DEF Dpi!OpenDriver
<1>2. CASE /\ step' = "child" /\ UNCHANGED <<core, misses>>
           /\ exec' = [exec EXCEPT !.driver = TRUE, !.first = locals.strategy]
  <2> USE DEF DpiInv
  <2>0. /\ step = "driver" /\ UNCHANGED <<valid, owner, runtime, hints, locals, child, proofs>>
        /\ exec' \in ExecRecords /\ exec'.job = exec.job /\ exec'.process = exec.process
        /\ exec'.holders = exec.holders /\ exec'.retry_attempted = exec.retry_attempted
        /\ exec'.admission_attempted = exec.admission_attempted /\ exec'.strategy = exec.strategy
    BY <1>2 DEF Dpi!OpenDriver, DpiTypes, ExecRecords, LocalRecords
  <2>1. DpiTypes' BY <1>2, <2>0 DEF DpiTypes, Steps
  <2>2. HintTable(hints)' BY <2>0
  <2>3. ReadyFits' BY <1>2, <2>0 DEF ReadyFits, Ready
  <2>4. StepFits' BY <1>2, <2>0 DEF StepFits
  <2>5. ChildFits' BY <1>2, <2>0 DEF ChildFits
  <2>6. PhaseFits' BY <1>2, <2>0 DEF PhaseFits
  <2>7. ActiveFits' BY <1>2, <2>0 DEF ActiveFits
  <2>8. DisabledFits' BY <1>2, <2>0 DEF DisabledFits
  <2> QED BY <2>1, <2>2, <2>3, <2>4, <2>5, <2>6, <2>7, <2>8
<1> QED BY <1>1, <1>2 DEF Dpi!OpenDriver

LEMMA StartChildKept == ASSUME Dpi!DpiAssumption, DpiInv, Dpi!StartChild PROVE DpiInv'
<1>e. exec \in ExecRecords BY DEF DpiInv, DpiTypes
<1>0. step = "child" /\ UNCHANGED <<valid, owner, runtime, hints, locals, proofs>> BY DEF Dpi!StartChild
<1>1. CASE /\ Dpi!GiveUp /\ UNCHANGED child
           /\ \E o \in Dpi!Stop([exec EXCEPT !.job = TRUE], core) : Dpi!Becomes(o)
  <2>1. PICK e \in ExecRecords : e = [exec EXCEPT !.job = TRUE] BY <1>e DEF ExecRecords
  <2>2. /\ e.job = TRUE /\ e.holders = exec.holders /\ e.process = exec.process
        /\ e.admission_attempted = exec.admission_attempted
        /\ e.retry_attempted = exec.retry_attempted
    BY <2>1, <1>e DEF ExecRecords
  <2> QED BY <1>0, <1>1, <2>1, <2>2, StoppedAndGaveUp
<1>2. CASE /\ step' = "ready" /\ child' = child + 1 /\ UNCHANGED <<core, misses>>
           /\ exec' = [exec EXCEPT !.job = TRUE, !.process = "running",
                                   !.strategy = locals.strategy]
  <2> USE DEF DpiInv
  <2>0. /\ exec' \in ExecRecords /\ exec'.job = TRUE /\ exec'.process = "running"
        /\ exec'.retry_attempted = exec.retry_attempted /\ exec'.strategy = locals.strategy
    BY <1>2, <1>e DEF DpiTypes, ExecRecords, LocalRecords
  <2>1. DpiTypes' BY <1>0, <1>2, <2>0 DEF DpiTypes, Steps
  <2>2. HintTable(hints)' BY <1>0
  <2>3. ReadyFits'
    <3>1. \A t \in Dpi!Tags : ~Ready(t) BY <1>0 DEF ReadyFits, StepFits
    <3> QED BY <1>2, <3>1 DEF ReadyFits, Ready
  <2>4. StepFits' BY <1>0, <1>2, <2>0 DEF StepFits
  <2>5. ChildFits' BY <1>0, <1>2, <2>0 DEF ChildFits, DpiTypes
  <2>6. PhaseFits' BY <1>0, <1>2 DEF PhaseFits
  <2>7. ActiveFits' BY <1>0, <1>2 DEF ActiveFits
  <2>8. DisabledFits' BY <1>2 DEF DisabledFits
  <2> QED BY <2>1, <2>2, <2>3, <2>4, <2>5, <2>6, <2>7, <2>8
<1> QED BY <1>1, <1>2 DEF Dpi!StartChild

LEMMA WaitNetworkReadyKept == ASSUME Dpi!DpiAssumption, DpiInv, Dpi!WaitNetworkReady PROVE DpiInv'
<1>e. exec \in ExecRecords BY DEF DpiInv, DpiTypes
<1>0. step = "ready" /\ UNCHANGED <<valid, owner, hints, child, proofs>> BY DEF Dpi!WaitNetworkReady
<1>1. CASE /\ Dpi!GiveUp /\ UNCHANGED <<runtime, locals>>
           /\ \E o \in Dpi!Stop(exec, core) : Dpi!Becomes(o)
  <2>1. PICK e \in ExecRecords : e = exec BY <1>e
  <2> QED BY <1>0, <1>1, <2>1, StoppedAndGaveUp
<1>2. CASE /\ step' = "prove" /\ UNCHANGED <<exec, core, misses>>
           /\ runtime' = [runtime EXCEPT !.captured = exec.holders]
           /\ locals' = [locals EXCEPT !.index = 1, !.any_proof = FALSE, !.transport = FALSE,
                                       !.admitted = {}]
  <2> USE DEF DpiInv
  <2>a. /\ runtime' \in HostRecords /\ runtime'.phase = runtime.phase
        /\ runtime'.disabled = runtime.disabled /\ runtime'.active = runtime.active
    BY <1>2, <1>e DEF DpiTypes, HostRecords, ExecRecords
  <2>b. /\ locals' \in LocalRecords /\ locals'.mode = locals.mode
        /\ locals'.strategy = locals.strategy /\ locals'.proved = locals.proved
    <3>1. {} \in SUBSET Dpi!Tags /\ 1 \in Nat \ {0} /\ locals \in LocalRecords BY DEF DpiTypes
    <3>2. ASSUME NEW one \in Nat \ {0}, NEW no \in SUBSET Dpi!Tags
          PROVE  LET l == [locals EXCEPT !.index = one, !.any_proof = FALSE, !.transport = FALSE,
                                         !.admitted = no]
                 IN  /\ l \in LocalRecords /\ l.mode = locals.mode /\ l.strategy = locals.strategy
                     /\ l.proved = locals.proved
      BY <3>1 DEF LocalRecords
    <3> QED BY <1>2, <3>1, <3>2
  <2>1. DpiTypes' BY <1>0, <1>2, <2>a, <2>b DEF DpiTypes, Steps
  <2>2. HintTable(hints)' BY <1>0
  <2>3. ReadyFits' BY <1>0, <1>2 DEF ReadyFits, Ready
  <2>4. StepFits' BY <1>0, <1>2, <2>b DEF StepFits
  <2>5. ChildFits' BY <1>0, <1>2 DEF ChildFits
  <2>6. PhaseFits' BY <1>0, <1>2, <2>a, <2>b DEF PhaseFits
  <2>7. ActiveFits' BY <1>0, <1>2, <2>a, <2>b DEF ActiveFits
  <2>8. DisabledFits' BY <1>2 DEF DisabledFits
  <2> QED BY <2>1, <2>2, <2>3, <2>4, <2>5, <2>6, <2>7, <2>8
<1> QED BY <1>1, <1>2 DEF Dpi!WaitNetworkReady

\* A retry replaces the child only while nothing is admitted.
LEMMA RetryKept ==
  ASSUME DpiInv, step \in {"retry", "refreshed"}, Dpi!RetryPrepared(exec, core),
         UNCHANGED <<valid, owner, runtime, hints, locals, child, proofs>>
  PROVE  DpiInv'
<1>e. exec \in ExecRecords /\ core \in CoreRecords /\ misses \in Nat BY DEF DpiInv, DpiTypes
<1> DEFINE marked == [exec EXCEPT !.retry_attempted = TRUE]
           ended == [exec EXCEPT !.retry_attempted = TRUE, !.job = FALSE, !.process = "none"]
           may == ~exec.admission_attempted /\ ~exec.retry_attempted /\ exec.process # "none"
<1>t. /\ marked \in ExecRecords /\ marked.retry_attempted = TRUE
      /\ marked.admission_attempted = exec.admission_attempted
  BY <1>e DEF ExecRecords
<1>d. /\ ended \in ExecRecords /\ ended.retry_attempted = TRUE
      /\ ended.admission_attempted = exec.admission_attempted
      /\ ended = [marked EXCEPT !.job = FALSE, !.process = "none"]
  BY <1>e DEF ExecRecords
<1>n. may => \A t \in Dpi!Tags : ~Ready(t) BY DEF DpiInv, ReadyFits
<1>0. \/ /\ Dpi!GiveUp /\ exec' = exec /\ core' = core /\ UNCHANGED misses
      \/ /\ may
         /\ \/ \E o \in Dpi!StopWindowsLocalDpiChild(marked, core) :
                 Dpi!Becomes(o) /\ (IF o.ok THEN step' = "child" ELSE Dpi!GiveUp)
            \/ Dpi!GiveUp /\ exec' = ended /\ core' = core /\ UNCHANGED misses
  BY DEF Dpi!RetryPrepared, Dpi!RetryLeft
<1> HIDE DEF marked, ended
<1>1. CASE Dpi!GiveUp /\ exec' = exec /\ core' = core /\ UNCHANGED misses
  <2>1. ReadyFits' BY <1>1 DEF ReadyFits, Ready, DpiInv
  <2> QED BY <1>1, <1>e, <2>1, GaveUp DEF DpiInv, ChildFits
<1>2. CASE may /\ Dpi!GiveUp /\ exec' = ended /\ core' = core /\ UNCHANGED misses
  <2>1. ReadyFits' BY <1>2, <1>n DEF ReadyFits, Ready
  <2> QED BY <1>2, <1>e, <1>d, <2>1, GaveUp
<1>3. CASE may /\ \E o \in Dpi!StopWindowsLocalDpiChild(marked, core) :
                    Dpi!Becomes(o) /\ (IF o.ok THEN step' = "child" ELSE Dpi!GiveUp)
  <2>1. PICK o \in Dpi!StopWindowsLocalDpiChild(marked, core) :
               Dpi!Becomes(o) /\ (IF o.ok THEN step' = "child" ELSE Dpi!GiveUp) BY <1>3
  <2>2. PICK e \in ExecRecords, c \in CoreRecords : e = marked /\ c = core BY <1>t, <1>e
  <2>3. /\ o.c = core /\ o.ok \in BOOLEAN /\ HalfStopped(o.e, marked)
        /\ o.ok => o.e = [marked EXCEPT !.job = FALSE, !.process = "none"]
    BY <2>2, ChildStops
  <2>4. exec' = o.e /\ core' = core /\ misses' = IF o.ok THEN misses ELSE misses + 1
    BY <2>1, <2>3 DEF Dpi!Becomes
  <2>5. ReadyFits' BY <1>3, <1>n, <2>4 DEF ReadyFits, Ready
  <2>6. exec' \in ExecRecords /\ misses' \in Nat BY <1>e, <2>3, <2>4 DEF HalfStopped
  <2>7. CASE ~o.ok
    <3>1. exec'.retry_attempted = TRUE BY <1>t, <2>3, <2>4 DEF HalfStopped
    <3>2. Dpi!GiveUp BY <2>1, <2>7
    <3> QED BY <1>e, <2>4, <2>5, <2>6, <3>1, <3>2, GaveUp
  <2>8. CASE o.ok
    <3> USE DEF DpiInv
    <3>0. /\ step' = "child" /\ exec' = ended /\ ~exec.admission_attempted
          /\ child <= 1
      BY <2>1, <2>3, <2>4, <2>8, <1>d, <1>3 DEF ChildFits
    <3>1. DpiTypes' BY <3>0, <2>4, <2>6 DEF DpiTypes, Steps
    <3>2. HintTable(hints)' OBVIOUS
    <3>4. StepFits' BY <3>0, <1>d DEF StepFits
    <3>5. ChildFits' BY <3>0, <1>d DEF ChildFits
    <3>6. PhaseFits' BY <3>0 DEF PhaseFits
    <3>7. ActiveFits' BY <3>0 DEF ActiveFits
    <3>8. DisabledFits' BY <3>0 DEF DisabledFits
    <3> QED BY <2>5, <3>1, <3>2, <3>4, <3>5, <3>6, <3>7, <3>8
  <2> QED BY <2>3, <2>7, <2>8
<1> QED BY <1>0, <1>1, <1>2, <1>3

LEMMA ProveKept == ASSUME Dpi!DpiAssumption, DpiInv, Dpi!Prove PROVE DpiInv'
<1> USE DEF DpiInv
<1>0. /\ step = "prove" /\ locals.index <= Len(Services)
      /\ UNCHANGED <<core, exec, valid, owner, runtime, child, misses>>
  BY DEF Dpi!Prove, Dpi!ProveOne
<1>t. Dpi!Tag \in Dpi!Tags BY <1>0, TagFits
<1>h. ASSUME NEW k, hints' = Dpi!RecordFailure(hints, k, Dpi!Tag, locals.strategy)
      PROVE  HintTable(hints')
  <2>1. [strategy |-> locals.strategy, failed |-> TRUE] \in HintRecords
    BY DEF DpiTypes, LocalRecords, HintRecords
  <2>2. PICK h, n, t, r : /\ h = hints /\ n = k /\ t = Dpi!Tag
                          /\ r = [strategy |-> locals.strategy, failed |-> TRUE]
    OBVIOUS
  <2>3. HintTable(Dpi!Entry(h, n, t, r)) BY <2>1, <2>2, EntryFits
  <2> QED BY <1>h, <2>2, <2>3 DEF Dpi!RecordFailure
<1>1. CASE /\ step' = "admit" /\ UNCHANGED hints /\ locals' = [locals EXCEPT !.any_proof = TRUE]
           /\ proofs' = [proofs EXCEPT ![Dpi!Tag] = child]
  <2>a. /\ locals' \in LocalRecords /\ locals'.mode = locals.mode
        /\ locals'.strategy = locals.strategy /\ locals'.proved = locals.proved
        /\ locals'.index = locals.index
    BY <1>1 DEF DpiTypes, LocalRecords
  <2>b. /\ proofs' \in [Dpi!Tags -> Nat] /\ proofs'[Dpi!Tag] = child
        /\ \A t \in Dpi!Tags : proofs'[t] \in {proofs[t], child}
    BY <1>1, <1>t DEF DpiTypes
  <2>1. DpiTypes' BY <1>0, <1>1, <2>a, <2>b DEF DpiTypes, Steps
  <2>2. HintTable(hints)' BY <1>1
  <2>3. ReadyFits' BY <1>0, <2>b DEF ReadyFits, Ready
  <2>4. StepFits' BY <1>0, <1>1, <2>a, <2>b DEF StepFits, Dpi!Tag
  <2>5. ChildFits' BY <1>0, <1>1 DEF ChildFits
  <2>6. PhaseFits' BY <1>0, <1>1, <2>a DEF PhaseFits
  <2>7. ActiveFits' BY <1>0, <1>1, <2>a DEF ActiveFits
  <2>8. DisabledFits' BY <1>1 DEF DisabledFits
  <2> QED BY <2>1, <2>2, <2>3, <2>4, <2>5, <2>6, <2>7, <2>8
<1>2. CASE /\ step' = step /\ UNCHANGED proofs /\ HintTable(hints')
           /\ locals' \in {Dpi!Next1, [Dpi!Next1 EXCEPT !.transport = TRUE]}
  <2>a. /\ locals' \in LocalRecords /\ locals'.mode = locals.mode
        /\ locals'.strategy = locals.strategy /\ locals'.proved = locals.proved
    <3>1. CASE locals' = Dpi!Next1 BY <3>1, Next1Fits
    <3>2. CASE locals' = [Dpi!Next1 EXCEPT !.transport = TRUE] BY <3>2, Next1Fits DEF LocalRecords
    <3> QED BY <1>2, <3>1, <3>2
  <2>1. DpiTypes' BY <1>0, <1>2, <2>a DEF DpiTypes
  <2>2. HintTable(hints)' BY <1>2
  <2>3. ReadyFits' BY <1>0, <1>2 DEF ReadyFits, Ready
  <2>4. StepFits' BY <1>0, <1>2, <2>a DEF StepFits
  <2>5. ChildFits' BY <1>0, <1>2 DEF ChildFits
  <2>6. PhaseFits' BY <1>0, <1>2, <2>a DEF PhaseFits
  <2>7. ActiveFits' BY <1>0, <1>2, <2>a DEF ActiveFits
  <2>8. DisabledFits' BY <1>0, <1>2 DEF DisabledFits
  <2> QED BY <2>1, <2>2, <2>3, <2>4, <2>5, <2>6, <2>7, <2>8
<1>3. CASE hints' = hints /\ step' = step /\ UNCHANGED proofs /\ locals' = Dpi!Next1 BY <1>2, <1>3
<1>4. CASE /\ step' = step /\ UNCHANGED proofs /\ locals' = [Dpi!Next1 EXCEPT !.transport = TRUE]
           /\ hints' = Dpi!RecordFailure(hints, runtime.network, Dpi!Tag, locals.strategy)
  <2>1. HintTable(hints') BY <1>4, <1>h
  <2> QED BY <1>2, <1>4, <2>1
<1> QED BY <1>1, <1>3, <1>4 DEF Dpi!Prove, Dpi!ProveOne

LEMMA SettleKept == ASSUME Dpi!DpiAssumption, DpiInv, Dpi!Settle PROVE DpiInv'
<1> USE DEF DpiInv
<1>0. /\ step = "settle" /\ UNCHANGED <<valid, owner, hints, locals, child, proofs>>
      /\ locals.mode = "connect" /\ runtime.phase = "staged" /\ ~runtime.disabled
  BY DEF Dpi!Settle, PhaseFits
<1>e. exec \in ExecRecords BY DEF DpiTypes
<1>1. CASE locals.proved /\ UNCHANGED <<runtime, exec, core, misses>> /\ step' \in {"commit", "rollback"}
  <2>1. DpiTypes' BY <1>0, <1>1 DEF DpiTypes, Steps
  <2>2. HintTable(hints)' BY <1>0
  <2>3. ReadyFits' BY <1>0, <1>1 DEF ReadyFits, Ready
  <2>4. StepFits' BY <1>1 DEF StepFits
  <2>5. ChildFits' BY <1>0, <1>1 DEF ChildFits
  <2>6. PhaseFits' BY <1>0, <1>1 DEF PhaseFits
  <2>7. ActiveFits' BY <1>0, <1>1 DEF ActiveFits
  <2>8. DisabledFits' BY <1>0, <1>1 DEF DisabledFits
  <2> QED BY <2>1, <2>2, <2>3, <2>4, <2>5, <2>6, <2>7, <2>8
<1>2. CASE /\ ~locals.proved
           /\ \E o \in Dpi!Stop(exec, core) :
                /\ Dpi!Becomes(o)
                /\ IF o.ok THEN runtime' = [runtime EXCEPT !.disabled = TRUE] ELSE UNCHANGED runtime
                /\ IF o.ok /\ valid THEN step' = "commit" ELSE step' = "rollback"
  <2>a. PICK o \in Dpi!Stop(exec, core) :
                /\ Dpi!Becomes(o)
                /\ IF o.ok THEN runtime' = [runtime EXCEPT !.disabled = TRUE] ELSE UNCHANGED runtime
                /\ IF o.ok /\ valid THEN step' = "commit" ELSE step' = "rollback"
    BY <1>2
  <2>b. PICK e \in ExecRecords : e = exec BY <1>e
  <2>c. exec' = o.e /\ core' = o.c /\ misses' = IF o.ok THEN misses ELSE misses + 1
    BY <2>a DEF Dpi!Becomes
  <2>d. /\ o.ok \in BOOLEAN /\ exec' \in ExecRecords /\ core' \in CoreRecords /\ ReadyFits'
        /\ o.ok => exec' = Dpi!Clean /\ \A t \in Dpi!Tags : ~Ready(t)'
        /\ ~o.ok => HalfStopped(exec', exec)
    BY <1>0, <2>b, <2>c, StopStep
  <2>f. /\ runtime' \in HostRecords /\ runtime'.phase = runtime.phase
        /\ runtime'.active = runtime.active
    <3>1. CASE o.ok BY <2>a, <3>1 DEF DpiTypes, HostRecords
    <3>2. CASE ~o.ok BY <2>a, <3>2 DEF DpiTypes
    <3> QED BY <2>d, <3>1, <3>2
  <2>g. (step' = "commit" /\ o.ok) \/ step' = "rollback" BY <2>a, <2>d
  <2>1. DpiTypes' BY <1>0, <2>c, <2>d, <2>f, <2>g DEF DpiTypes, Steps
  <2>2. HintTable(hints)' BY <1>0
  <2>4. StepFits' BY <2>g DEF StepFits
  <2>5. ChildFits'
    <3>1. CASE o.ok BY <1>0, <2>d, <2>g, <3>1, CleanFits DEF ChildFits
    <3>2. CASE ~o.ok BY <1>0, <2>d, <2>g, <3>2 DEF ChildFits, HalfStopped
    <3> QED BY <2>d, <3>1, <3>2
  <2>6. PhaseFits' BY <1>0, <2>f, <2>g DEF PhaseFits
  <2>7. ActiveFits' BY <1>0, <1>2, <2>g DEF ActiveFits
  <2>8. DisabledFits' BY <2>d, <2>g DEF DisabledFits
  <2> QED BY <2>1, <2>2, <2>d, <2>4, <2>5, <2>6, <2>7, <2>8
<1> QED BY <1>1, <1>2 DEF Dpi!Settle, Dpi!RollBack

LEMMA RollbackStopKept == ASSUME Dpi!DpiAssumption, DpiInv, Dpi!RollbackStop PROVE DpiInv'
<1> USE DEF DpiInv
<1>0. /\ step = "rollback" /\ step' = "coreStop" /\ hints' = Dpi!Observed
      /\ UNCHANGED <<valid, owner, runtime, locals, child, proofs>>
  BY DEF Dpi!RollbackStop
<1>e. exec \in ExecRecords BY DEF DpiTypes
<1>a. PICK o \in Dpi!Stop(exec, core) : Dpi!Becomes(o) BY DEF Dpi!RollbackStop
<1>b. PICK e \in ExecRecords : e = exec BY <1>e
<1>c. exec' = o.e /\ core' = o.c /\ misses' = IF o.ok THEN misses ELSE misses + 1
  BY <1>a DEF Dpi!Becomes
<1>d. /\ o.ok \in BOOLEAN /\ exec' \in ExecRecords /\ core' \in CoreRecords /\ ReadyFits'
      /\ o.ok => exec' = Dpi!Clean
      /\ ~o.ok => HalfStopped(exec', exec)
  BY <1>0, <1>b, <1>c, StopStep
<1>1. DpiTypes' BY <1>0, <1>c, <1>d DEF DpiTypes, Steps
<1>2. HintTable(hints)' BY <1>0, ObservedFits
<1>4. StepFits' BY <1>0 DEF StepFits
<1>5. ChildFits'
  <2>1. CASE o.ok BY <1>0, <1>d, <2>1, CleanFits DEF ChildFits
  <2>2. CASE ~o.ok BY <1>0, <1>d, <2>2 DEF ChildFits, HalfStopped
  <2> QED BY <1>d, <2>1, <2>2
<1>6. PhaseFits' BY <1>0 DEF PhaseFits
<1>7. ActiveFits' BY <1>0 DEF ActiveFits
<1>8. DisabledFits' BY <1>0 DEF DisabledFits
<1> QED BY <1>1, <1>2, <1>d, <1>4, <1>5, <1>6, <1>7, <1>8

\* The session is staged again only when nothing of the engine is left.
LEMMA RollbackCoreKept == ASSUME Dpi!DpiAssumption, DpiInv, Dpi!RollbackCore PROVE DpiInv'
<1> USE DEF DpiInv
<1> DEFINE none == [t \in Dpi!Tags |-> "none"]
           zero == [t \in Dpi!Tags |-> 0]
           down == [core EXCEPT !.up = FALSE, !.st = none]
<1>0. /\ step = "coreStop" /\ step' = "idle" /\ locals' = Dpi!NoCall
      /\ UNCHANGED <<valid, owner, hints, child, proofs>>
  BY DEF Dpi!RollbackCore
<1>e. exec \in ExecRecords /\ core \in CoreRecords /\ runtime \in HostRecords BY DEF DpiTypes
<1>n. none \in [Dpi!Tags -> HolderStates] /\ zero \in [Dpi!Tags -> Nat] BY DEF HolderStates
<1>1. CASE /\ misses' = misses + 1 /\ UNCHANGED <<exec, core>>
           /\ runtime' = [runtime EXCEPT !.phase = "recovery"]
  <2>a. runtime' \in HostRecords /\ runtime'.phase = "recovery" BY <1>1, <1>e DEF HostRecords
  <2>1. DpiTypes' BY <1>0, <1>1, <2>a, NoCallFits DEF DpiTypes, Steps
  <2>2. HintTable(hints)' BY <1>0
  <2>3. ReadyFits' BY <1>0, <1>1 DEF ReadyFits, Ready
  <2>4. StepFits' BY <1>0 DEF StepFits
  <2>5. ChildFits' BY <1>0, <1>1 DEF ChildFits
  <2>6. PhaseFits' BY <1>0, <2>a DEF PhaseFits
  <2>7. ActiveFits' BY <1>0, <2>a DEF ActiveFits
  <2>8. DisabledFits' BY <1>0, <2>a DEF DisabledFits
  <2> QED BY <2>1, <2>2, <2>3, <2>4, <2>5, <2>6, <2>7, <2>8
<1>2. CASE \E o \in Dpi!StopAfterCoreStopped(exec, down) : Dpi!ClearWindowsLocalDpiAfterCoreStopped(o)
  <2>a. PICK o \in Dpi!StopAfterCoreStopped(exec, down) : Dpi!ClearWindowsLocalDpiAfterCoreStopped(o)
    BY <1>2
  <2>b. down \in CoreRecords /\ down.up = FALSE
    <3> HIDE DEF none
    <3> QED BY <1>e, <1>n DEF CoreRecords
  <2>c. PICK e \in ExecRecords, c \in CoreRecords : e = exec /\ c = down BY <1>e, <2>b
  <2>d. /\ o.c = down /\ o.ok \in BOOLEAN
        /\ o.ok => o.e = Dpi!Clean
        /\ ~o.ok => HalfStopped(o.e, exec)
    BY <2>c, AfterCoreStops
  <2> HIDE DEF down
  <2>f. /\ exec' = o.e /\ core' = down /\ misses' = IF o.ok THEN misses ELSE misses + 1
        /\ runtime' = IF o.ok
             THEN [runtime EXCEPT !.prep = FALSE, !.active = None, !.disabled = FALSE,
                                  !.phase = "staged", !.captured = zero]
             ELSE [runtime EXCEPT !.phase = "recovery"]
    BY <2>a, <2>d DEF Dpi!ClearWindowsLocalDpiAfterCoreStopped, Dpi!Becomes
  <2> HIDE DEF zero
  <2>g. /\ runtime' \in HostRecords
        /\ o.ok => runtime'.phase = "staged" /\ runtime'.active = None
        /\ ~o.ok => runtime'.phase = "recovery"
    <3>1. CASE o.ok
      <4>1. runtime' = [runtime EXCEPT !.prep = FALSE, !.active = None, !.disabled = FALSE,
                                       !.phase = "staged", !.captured = zero]
        BY <2>f, <3>1
      <4> QED BY <3>1, <4>1, <1>e, <1>n DEF HostRecords
    <3>2. CASE ~o.ok
      <4>1. runtime' = [runtime EXCEPT !.phase = "recovery"] BY <2>f, <3>2
      <4> QED BY <3>2, <4>1, <1>e DEF HostRecords
    <3> QED BY <2>d, <3>1, <3>2
  <2>h. exec' \in ExecRecords BY <2>d, <2>f, CleanFits DEF HalfStopped
  <2>1. DpiTypes' BY <1>0, <2>b, <2>f, <2>g, <2>h, <2>d, NoCallFits DEF DpiTypes, Steps
  <2>2. HintTable(hints)' BY <1>0
  <2>3. ReadyFits' BY <2>b, <2>f DEF ReadyFits, Ready
  <2>4. StepFits' BY <1>0 DEF StepFits
  <2>5. ChildFits'
    <3>1. CASE o.ok BY <1>0, <2>d, <2>f, <3>1, CleanFits DEF ChildFits
    <3>2. CASE ~o.ok BY <1>0, <2>d, <2>f, <3>2 DEF ChildFits, HalfStopped
    <3> QED BY <2>d, <3>1, <3>2
  <2>6. PhaseFits'
    <3>1. CASE o.ok BY <1>0, <2>d, <2>f, <2>g, <3>1 DEF PhaseFits
    <3>2. CASE ~o.ok BY <1>0, <2>g, <3>2 DEF PhaseFits
    <3> QED BY <2>d, <3>1, <3>2
  <2>7. ActiveFits' BY <1>0, <2>g DEF ActiveFits
  <2>8. DisabledFits' BY <1>0, <2>g DEF DisabledFits
  <2> QED BY <2>1, <2>2, <2>3, <2>4, <2>5, <2>6, <2>7, <2>8
<1> QED BY <1>1, <1>2 DEF Dpi!RollbackCore

\* Core with fresh holders publishes nothing.
LEMMA FreshFits ==
  ASSUME DpiTypes
  PROVE  LET c == [up |-> TRUE, gen |-> [t \in Dpi!Tags |-> core.gen[t] + 1],
                   st |-> [t \in Dpi!Tags |-> "unpublished"]]
         IN  c \in CoreRecords /\ \A t \in Dpi!Tags : c.st[t] # "ready"
<1> DEFINE g == [t \in Dpi!Tags |-> core.gen[t] + 1]
           s == [t \in Dpi!Tags |-> "unpublished"]
<1>1. g \in [Dpi!Tags -> Nat] BY DEF DpiTypes, CoreRecords
<1>2. s \in [Dpi!Tags -> HolderStates] /\ \A t \in Dpi!Tags : s[t] # "ready" BY DEF HolderStates
<1> HIDE DEF g, s
<1>3. [up |-> TRUE, gen |-> g, st |-> s] \in CoreRecords /\ [up |-> TRUE, gen |-> g, st |-> s].st = s
  BY <1>1, <1>2 DEF CoreRecords
<1> QED BY <1>2, <1>3 DEF g, s

LEMMA ConnectKept == ASSUME Dpi!DpiAssumption, DpiInv, NEW n \in Networks, Dpi!Connect(n) PROVE DpiInv'
<1> USE DEF DpiInv
<1>0. /\ step = "idle" /\ step' = "start" /\ runtime.phase = "staged" /\ child' = 0
      /\ UNCHANGED <<exec, hints, misses>>
  BY DEF Dpi!Connect
<1>a. proofs' \in [Dpi!Tags -> Nat] BY DEF Dpi!Connect
<1>b. valid' = TRUE /\ owner' = TRUE BY DEF Dpi!Connect
<1>c. exec = Dpi!Clean /\ runtime.active = None BY <1>0 DEF PhaseFits
<1>d. core' \in CoreRecords /\ \A t \in Dpi!Tags : core'.st[t] # "ready"
  BY FreshFits DEF Dpi!Connect
<1>f. /\ runtime' \in HostRecords /\ runtime'.phase = "staged" /\ runtime'.disabled = FALSE
      /\ runtime'.active = None
  <2>1. runtime' = [runtime EXCEPT !.prep = TRUE, !.disabled = FALSE, !.network = n] BY DEF Dpi!Connect
  <2> QED BY <1>0, <1>c, <2>1 DEF DpiTypes, HostRecords
<1>g. /\ locals' \in LocalRecords /\ locals'.mode = "connect" /\ locals'.admitted = {}
      /\ locals'.proved = FALSE
  <2>1. Dpi!Preferred(n) \in Dpi!Strategies BY PreferredFits
  <2>2. locals' = [Dpi!NoCall EXCEPT !.strategy = Dpi!Preferred(n)] BY DEF Dpi!Connect
  <2> QED BY <2>1, <2>2, NoCallFits DEF LocalRecords
<1>1. DpiTypes' BY <1>0, <1>a, <1>b, <1>d, <1>f, <1>g DEF DpiTypes, Steps
<1>2. HintTable(hints)' BY <1>0
<1>3. ReadyFits' BY <1>d DEF ReadyFits, Ready
<1>4. StepFits' BY <1>0, <1>c DEF StepFits
<1>5. ChildFits' BY <1>0, <1>c, CleanFits DEF ChildFits
<1>6. PhaseFits' BY <1>0, <1>f, <1>g DEF PhaseFits
<1>7. ActiveFits' BY <1>0, <1>g DEF ActiveFits
<1>8. DisabledFits' BY <1>0 DEF DisabledFits
<1> QED BY <1>1, <1>2, <1>3, <1>4, <1>5, <1>6, <1>7, <1>8

LEMMA StopLostKept == ASSUME Dpi!DpiAssumption, DpiInv, Dpi!StopLost PROVE DpiInv'
<1> USE DEF DpiInv
<1>0. /\ step = "idle" /\ runtime.phase = "running" /\ ~runtime.disabled
      /\ UNCHANGED <<valid, owner, hints, locals, child, proofs>>
  BY DEF Dpi!StopLost, Dpi!Tick, Dpi!Lost
<1>e. exec \in ExecRecords /\ misses \in Nat BY DEF DpiTypes
<1>a. PICK o \in Dpi!Stop(exec, core) :
        /\ exec' = o.e /\ core' = o.c
        /\ IF o.ok
           THEN runtime' = [runtime EXCEPT !.disabled = TRUE] /\ UNCHANGED <<step, misses>>
           ELSE Dpi!CancelProtectedHandoff(misses + 1) /\ UNCHANGED runtime
  BY DEF Dpi!StopLost
<1>b. PICK e \in ExecRecords : e = exec BY <1>e
<1>d. /\ o.ok \in BOOLEAN /\ exec' \in ExecRecords /\ core' \in CoreRecords /\ ReadyFits'
      /\ o.ok => exec' = Dpi!Clean /\ \A t \in Dpi!Tags : ~Ready(t)'
      /\ ~o.ok => HalfStopped(exec', exec)
  BY <1>0, <1>a, <1>b, StopStep
<1>1. CASE o.ok
  <2>a. /\ runtime' \in HostRecords /\ runtime'.phase = "running" /\ runtime'.disabled = TRUE
        /\ step' = "idle" /\ UNCHANGED misses
    BY <1>0, <1>1, <1>a DEF DpiTypes, HostRecords
  <2>1. DpiTypes' BY <1>0, <1>d, <2>a DEF DpiTypes, Steps
  <2>2. HintTable(hints)' BY <1>0
  <2>4. StepFits' BY <2>a DEF StepFits
  <2>5. ChildFits' BY <1>0, <1>1, <1>d, <2>a, CleanFits DEF ChildFits
  <2>6. PhaseFits' BY <2>a DEF PhaseFits
  <2>7. ActiveFits' BY <2>a DEF ActiveFits
  <2>8. DisabledFits' BY <1>1, <1>d, <2>a DEF DisabledFits
  <2> QED BY <1>d, <2>1, <2>2, <2>4, <2>5, <2>6, <2>7, <2>8
<1>2. CASE ~o.ok
  <2>a. UNCHANGED runtime /\ step' \in {"idle", "rollback"} /\ misses' \in Nat
    BY <1>2, <1>a, <1>e DEF Dpi!CancelProtectedHandoff, Dpi!RollBack
  <2>b. exec'.strategy = exec.strategy BY <1>2, <1>d DEF HalfStopped
  <2>1. DpiTypes' BY <1>0, <1>d, <2>a DEF DpiTypes, Steps
  <2>2. HintTable(hints)' BY <1>0
  <2>4. StepFits' BY <2>a DEF StepFits
  <2>5. ChildFits' BY <1>0, <1>2, <1>d, <2>a DEF ChildFits, HalfStopped
  <2>6. PhaseFits' BY <1>0, <2>a DEF PhaseFits
  <2>7. ActiveFits' BY <1>0, <2>a, <2>b DEF ActiveFits
  <2>8. DisabledFits' BY <1>0, <2>a DEF DisabledFits
  <2> QED BY <1>d, <2>1, <2>2, <2>4, <2>5, <2>6, <2>7, <2>8
<1> QED BY <1>d, <1>1, <1>2

LEMMA RuntimeRetryKept == ASSUME Dpi!DpiAssumption, DpiInv, Dpi!RetryAfterRuntimeFailure PROVE DpiInv'
<1> USE DEF DpiInv
<1>0. /\ step = "idle" /\ runtime.phase = "running" /\ hints' = Dpi!Observed
      /\ UNCHANGED <<valid, owner, child, proofs, misses>>
  BY DEF Dpi!RetryAfterRuntimeFailure, Dpi!Tick
<1>f. runtime' \in HostRecords /\ runtime'.phase = "running" /\ runtime'.disabled = TRUE
  <2>1. runtime' = [runtime EXCEPT !.disabled = TRUE] BY DEF Dpi!RetryAfterRuntimeFailure
  <2> QED BY <1>0, <2>1 DEF DpiTypes, HostRecords
<1>g. /\ locals' \in LocalRecords /\ locals'.mode = "runtime" /\ locals'.admitted = {}
      /\ locals'.proved = FALSE
  <2>1. Dpi!Other(runtime.active) \in Dpi!Strategies BY OtherFits
  <2>2. locals' = [Dpi!NoCall EXCEPT !.mode = "runtime", !.strategy = Dpi!Other(runtime.active)]
    BY DEF Dpi!RetryAfterRuntimeFailure
  <2> QED BY <2>1, <2>2, NoCallFits DEF LocalRecords
<1>h. Dpi!Fresh \in CoreRecords /\ \A t \in Dpi!Tags : Dpi!Fresh.st[t] # "ready"
  <2> DEFINE g == [t \in Dpi!Tags |-> core.gen[t] + 1]
             s == [t \in Dpi!Tags |-> "unpublished"]
  <2>1. Dpi!Fresh = [core EXCEPT !.gen = g, !.st = s] BY DEF Dpi!Fresh
  <2>2. g \in [Dpi!Tags -> Nat] BY DEF DpiTypes, CoreRecords
  <2>3. s \in [Dpi!Tags -> HolderStates] /\ \A t \in Dpi!Tags : s[t] # "ready" BY DEF HolderStates
  <2> HIDE DEF g, s
  <2> QED BY <2>1, <2>2, <2>3 DEF DpiTypes, CoreRecords
<1>i. Dpi!Fresh.gen \in [Dpi!Tags -> Nat] BY <1>h DEF CoreRecords
<1> DEFINE refreshed == [exec EXCEPT !.holders = Dpi!Fresh.gen, !.admission_attempted = FALSE]
<1>j. /\ core' = Dpi!Fresh \/ (core' = core /\ exec' = exec)
      /\ step' \in {"refreshed", "resettle"}
      /\ exec' = exec \/ exec' = refreshed
  <2>1. \/ step' = "refreshed" /\ core' = Dpi!Fresh /\ exec' = refreshed
        \/ step' = "resettle" /\ exec' = exec /\ core' \in Dpi!RefreshRefused \cup {core}
    BY DEF Dpi!RetryAfterRuntimeFailure
  <2>2. core' \in Dpi!RefreshRefused \cup {core} => core' = Dpi!Fresh \/ core' = core
    BY DEF Dpi!RefreshRefused
  <2> HIDE DEF refreshed
  <2> QED BY <2>1, <2>2
<1>k. /\ exec' \in ExecRecords /\ exec'.process = exec.process
      /\ exec'.retry_attempted = exec.retry_attempted
  <2>1. CASE exec' = exec BY <2>1 DEF DpiTypes
  <2>2. CASE exec' = refreshed BY <1>i, <2>2 DEF DpiTypes, ExecRecords
  <2> QED BY <1>j, <2>1, <2>2
<1>1. DpiTypes' BY <1>0, <1>f, <1>g, <1>h, <1>j, <1>k DEF DpiTypes, Steps
<1>2. HintTable(hints)' BY <1>0, ObservedFits
<1>3. ReadyFits'
  <2>1. CASE core' = Dpi!Fresh BY <1>h, <2>1 DEF ReadyFits, Ready
  <2>2. CASE core' = core /\ exec' = exec BY <1>0, <2>2 DEF ReadyFits, Ready
  <2> QED BY <1>j, <2>1, <2>2
<1>4. StepFits' BY <1>j DEF StepFits
<1>5. ChildFits' BY <1>0, <1>j, <1>k DEF ChildFits
<1>6. PhaseFits' BY <1>f, <1>g, <1>j DEF PhaseFits
<1>7. ActiveFits' BY <1>g, <1>j DEF ActiveFits
<1>8. DisabledFits' BY <1>j DEF DisabledFits
<1> QED BY <1>1, <1>2, <1>3, <1>4, <1>5, <1>6, <1>7, <1>8

\* A retry that was proved is what runs; any other is stopped, and a stop that
\* fails ends the session unless the guard fails too.
LEMMA ResettleKept == ASSUME Dpi!DpiAssumption, DpiInv, Dpi!Resettle PROVE DpiInv'
<1> USE DEF DpiInv
<1>0. /\ step = "resettle" /\ locals' = Dpi!NoCall /\ UNCHANGED <<valid, owner, child, proofs>>
      /\ runtime.phase = "running" /\ runtime.disabled
  BY DEF Dpi!Resettle, PhaseFits
<1>e. exec \in ExecRecords /\ misses \in Nat /\ runtime \in HostRecords /\ locals \in LocalRecords
      /\ exec.holders \in [Dpi!Tags -> Nat]
  BY DEF DpiTypes, ExecRecords
<1>1. CASE /\ locals.admitted # {} /\ Dpi!ProvedAgain /\ step' = "idle" /\ UNCHANGED <<core, exec, misses>>
  <2>a. /\ runtime' \in HostRecords /\ runtime'.phase = "running" /\ runtime'.disabled = FALSE
        /\ runtime'.active = locals.strategy
    <3>1. runtime' = [runtime EXCEPT !.active = locals.strategy, !.disabled = FALSE,
                                     !.captured = exec.holders]
      BY <1>1 DEF Dpi!ProvedAgain
    <3> QED BY <1>0, <1>e, <3>1 DEF HostRecords, LocalRecords
  <2>b. exec.strategy = locals.strategy BY <1>0, <1>1 DEF ActiveFits
  <2>1. DpiTypes' BY <1>0, <1>1, <2>a, NoCallFits DEF DpiTypes, Steps
  <2>2. HintTable(hints)'
    <3>1. [strategy |-> locals.strategy, failed |-> FALSE] \in HintRecords
      BY <1>e DEF LocalRecords, HintRecords
    <3>2. HintTable(Dpi!RecordAll(hints, locals.admitted, runtime.network,
                                  [strategy |-> locals.strategy, failed |-> FALSE]))
      BY <3>1, RecordAllFits
    <3> QED BY <1>1, <3>2 DEF Dpi!ProvedAgain, Dpi!RecordSuccess
  <2>3. ReadyFits' BY <1>0, <1>1 DEF ReadyFits, Ready
  <2>4. StepFits' BY <1>1 DEF StepFits
  <2>5. ChildFits' BY <1>0, <1>1 DEF ChildFits
  <2>6. PhaseFits' BY <1>1, <2>a DEF PhaseFits
  <2>7. ActiveFits' BY <1>1, <2>a, <2>b DEF ActiveFits
  <2>8. DisabledFits' BY <1>1, <2>a DEF DisabledFits
  <2> QED BY <2>1, <2>2, <2>3, <2>4, <2>5, <2>6, <2>7, <2>8
<1>2. CASE /\ UNCHANGED hints /\ runtime' = [runtime EXCEPT !.captured = exec.holders]
           /\ \E o \in Dpi!Stop(exec, core) :
                /\ exec' = o.e /\ core' = o.c
                /\ IF ~o.ok THEN Dpi!CancelProtectedHandoff(misses + 1)
                   ELSE IF ~valid THEN Dpi!CancelProtectedHandoff(misses)
                   ELSE step' = "idle" /\ UNCHANGED misses
  <2>a. PICK o \in Dpi!Stop(exec, core) :
                /\ exec' = o.e /\ core' = o.c
                /\ IF ~o.ok THEN Dpi!CancelProtectedHandoff(misses + 1)
                   ELSE IF ~valid THEN Dpi!CancelProtectedHandoff(misses)
                   ELSE step' = "idle" /\ UNCHANGED misses
    BY <1>2
  <2>b. PICK e \in ExecRecords : e = exec BY <1>e
  <2>d. /\ o.ok \in BOOLEAN /\ exec' \in ExecRecords /\ core' \in CoreRecords /\ ReadyFits'
        /\ o.ok => exec' = Dpi!Clean /\ \A t \in Dpi!Tags : ~Ready(t)'
        /\ ~o.ok => HalfStopped(exec', exec)
    BY <1>0, <2>a, <2>b, StopStep
  <2>f. step' \in {"idle", "rollback"} /\ misses' \in Nat
    BY <1>e, <2>a, <2>d DEF Dpi!CancelProtectedHandoff, Dpi!RollBack
  <2>g. ~o.ok /\ step' = "idle" => misses' >= 2
    BY <1>e, <2>a, <2>d DEF Dpi!CancelProtectedHandoff, Dpi!RollBack
  <2>h. runtime' \in HostRecords /\ runtime'.phase = "running" /\ runtime'.disabled = runtime.disabled
    BY <1>0, <1>2, <1>e DEF HostRecords
  <2>1. DpiTypes' BY <1>0, <2>d, <2>f, <2>h, NoCallFits DEF DpiTypes, Steps
  <2>2. HintTable(hints)' BY <1>2
  <2>4. StepFits' BY <2>f DEF StepFits
  <2>5. ChildFits'
    <3>1. CASE o.ok BY <1>0, <2>d, <2>f, <3>1, CleanFits DEF ChildFits
    <3>2. CASE ~o.ok BY <1>0, <2>d, <2>f, <3>2 DEF ChildFits, HalfStopped
    <3> QED BY <2>d, <3>1, <3>2
  <2>6. PhaseFits' BY <2>f, <2>h DEF PhaseFits
  <2>7. ActiveFits' BY <1>0, <2>f, <2>h DEF ActiveFits
  <2>8. DisabledFits' BY <2>d, <2>f, <2>g DEF DisabledFits
  <2> QED BY <2>1, <2>2, <2>d, <2>4, <2>5, <2>6, <2>7, <2>8
<1> QED BY <1>1, <1>2 DEF Dpi!Resettle

-----------------------------------------------------------------------------
LEMMA DpiStarts == ASSUME Dpi!DpiAssumption, Dpi!Init PROVE DpiInv
<1> USE DEF Dpi!Init
<1> DEFINE none == [t \in Dpi!Tags |-> "none"]
           zero == [t \in Dpi!Tags |-> 0]
           net0 == CHOOSE n \in Networks : TRUE
<1>1. none \in [Dpi!Tags -> HolderStates] /\ zero \in [Dpi!Tags -> Nat] BY DEF HolderStates
<1>2. net0 \in Networks
  <2>1. \E n \in Networks : TRUE BY DEF Dpi!DpiAssumption
  <2> QED BY <2>1, Zenon
<1> HIDE DEF none, zero, net0
<1>3. core \in CoreRecords /\ core.up = FALSE
  <2>1. core = [up |-> FALSE, gen |-> zero, st |-> none] BY DEF none, zero
  <2> QED BY <1>1, <2>1 DEF CoreRecords
<1>4. /\ runtime \in HostRecords /\ runtime.phase = "staged" /\ runtime.active = None
  <2>1. runtime = [phase |-> "staged", prep |-> FALSE, disabled |-> FALSE, active |-> None,
                   captured |-> zero, network |-> net0] BY Zenon DEF zero, net0
  <2> QED BY <1>1, <1>2, <2>1 DEF HostRecords
<1>5. valid = TRUE /\ owner = TRUE BY Zenon
<1>6. proofs \in [Dpi!Tags -> Nat] BY <1>1 DEF zero
<1>7. exec = Dpi!Clean /\ locals = Dpi!NoCall /\ step = "idle" /\ child = 0 /\ misses = 0 /\ hints = << >>
  BY Zenon
<1>8. DpiTypes BY <1>3, <1>4, <1>5, <1>6, <1>7, NoCallFits, CleanFits DEF DpiTypes, Steps
<1>9. HintTable(hints)
  <2>1. DOMAIN hints = {} /\ hints \in [{} -> HintRecords] BY <1>7
  <2>2. IsFiniteSet({}) /\ Cardinality({}) = 0 BY FS_EmptySet
  <2>3. 0 <= MaxHints BY DpiNumbers
  <2> QED BY <2>1, <2>2, <2>3 DEF HintTable
<1>10. ReadyFits BY <1>3 DEF ReadyFits, Ready
<1>11. StepFits /\ ChildFits /\ PhaseFits /\ ActiveFits /\ DisabledFits
  BY <1>4, <1>7, CleanFits DEF StepFits, ChildFits, PhaseFits, ActiveFits, DisabledFits
<1> QED BY <1>8, <1>9, <1>10, <1>11 DEF DpiInv

LEMMA DpiStays == ASSUME DpiInv, UNCHANGED dpiVars PROVE DpiInv'
  BY DEF dpiVars, DpiInv, DpiTypes, ReadyFits, Ready, StepFits, ChildFits, PhaseFits, ActiveFits,
         DisabledFits

LEMMA DpiSteps == ASSUME Dpi!DpiAssumption, DpiInv, Dpi!Next PROVE DpiInv'
<1>1. CASE Dpi!Operation
  <2>1. CASE Dpi!Retry BY <2>1, RetryKept DEF Dpi!Retry
  <2>2. CASE Dpi!RetryRefreshed BY <2>2, RetryKept DEF Dpi!RetryRefreshed
  <2> QED BY <1>1, <2>1, <2>2, StartPreparedKept, OpenDriverKept, StartChildKept,
             WaitNetworkReadyKept, ProveKept, AdmitChecksKept, AdmitPublishKept, AdmitRecheckKept,
             DpiJudgeKept, SettleKept, CommitKept, ResettleKept, RollbackStopKept, RollbackCoreKept
          DEF Dpi!Operation
<1>2. CASE Dpi!Watch BY <1>2, EndExpiredKept, StopLostKept, RuntimeRetryKept DEF Dpi!Watch
<1>3. CASE Dpi!Ask BY <1>3, ConnectKept, SnapshotKept, DisconnectKept, RevokeKept DEF Dpi!Ask
<1>4. CASE Dpi!Environment
  BY <1>4, ChildExitsKept, CatalogExpiresKept, OwnerLostKept, HolderFailsKept, CoreReplacesKept
     DEF Dpi!Environment
<1>5. CASE Dpi!Rests BY <1>5, DpiStays DEF Dpi!Rests, Dpi!vars, dpiVars
<1> QED BY <1>1, <1>2, <1>3, <1>4, <1>5 DEF Dpi!Next

\* What the invariant says of the published holders and of what is left behind.
LEMMA DpiServes == ASSUME Dpi!DpiAssumption, DpiInv PROVE DpiPublishedIsServed
<1> USE DEF DpiInv
<1>0. core.st \in [Dpi!Tags -> HolderStates] BY DEF DpiTypes, CoreRecords
<1>1. Dpi!Published = {t \in Dpi!Tags : Ready(t)} BY <1>0 DEF Dpi!Published, Ready
<1>2. Dpi!ChildOutlivesPublication BY <1>1 DEF Dpi!ChildOutlivesPublication, ReadyFits
<1>3. Dpi!PublishedWasProved BY <1>1 DEF Dpi!PublishedWasProved, ReadyFits
<1>4. Dpi!NothingLeftBehind BY CleanFits DEF Dpi!NothingLeftBehind, PhaseFits
<1>5. Dpi!OneRetry BY DEF Dpi!OneRetry, ChildFits
<1>6. Dpi!ActiveIsWhatRuns BY DEF Dpi!ActiveIsWhatRuns, ActiveFits
<1>7. Dpi!HintsBounded BY DpiCounts DEF Dpi!HintsBounded, HintTable
<1>8. Dpi!DisabledIsOnVpn BY <1>1 DEF Dpi!DisabledIsOnVpn, DisabledFits, DpiTypes
<1> QED BY <1>2, <1>3, <1>4, <1>5, <1>6, <1>7, <1>8 DEF DpiPublishedIsServed, Dpi!PublishedIsServed

\* Traffic goes to the child of the local DPI engine only while its job is held and
\* through the holder it was proved for, a session that is staged again has nothing
\* of the engine left, and a disabled engine publishes nothing unless two calls
\* failed: for any services, networks and limits of the table of hints, whatever
\* fails on the way (service_local_dpi.cpp, RuntimeHost's local DPI operations).
THEOREM DpiServed == ASSUME Dpi!DpiAssumption PROVE Dpi!Spec => []DpiPublishedIsServed
<1>1. Dpi!Init => DpiInv BY DpiStarts
<1>2. DpiInv /\ [Dpi!Next]_(Dpi!vars) => DpiInv' BY DpiSteps, DpiStays DEF Dpi!vars, dpiVars
<1>3. DpiInv => DpiPublishedIsServed BY DpiServes
<1> QED BY <1>1, <1>2, <1>3, PTL DEF Dpi!Spec
=============================================================================

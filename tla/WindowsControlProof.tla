-------------------------- MODULE WindowsControlProof --------------------------
(***************************************************************************)
(* The proof of the control hosts, over the physical interface: one after  *)
(* the other a DNS query, a TCP connection from an exclusively bound port, *)
(* a TLS handshake and a HEAD request, in shares of one budget             *)
(* (ProveAndAdmitWindowsLocalDpi, VerifyWindowsLocalDpiControlHost,        *)
(* BoundHttpExchange).  The packets that WinDivert injects have lost the   *)
(* service's identity: while the socket is held a WFP permit lets its      *)
(* tuple through the transition guard.  ObserveWindowsNetworkContext uses  *)
(* the same exchange without a permit.                                     *)
(***************************************************************************)
EXTENDS Naturals, FiniteSets

CONSTANTS
  Hosts,        \* control hosts of a proof
  Budget,       \* kProofBudgetMs
  ObserveTime,  \* the 6 s of a network observation
  MaxResponse   \* 16384: what is kept of a response

Sizes == {Hosts, Budget, ObserveTime, MaxResponse} \subseteq Nat \ {0}

VARIABLES
  kind,         \* "control" or "observe"
  index,        \* hosts that are done
  left,         \* of the budget
  io,           \* left of the exchange's deadline
  pc,
  guard,        \* RuntimeTransitionGuard::IsArmed, during this proof
  socket,       \* the TCP socket: "none", "bound"
  permit,       \* the permit's sublayer: "none", "session", "guard", "own"
  syn,          \* connect was called, a history variable
  tls,          \* the protocol that was negotiated, "none" before
  sent,         \* requests written
  response,     \* records kept of the response
  status,       \* 0, or that of the status line
  failure,      \* of the exchange; "ok", an empty text in the code, is success
  share,        \* the time the exchange was given, a history variable
  current       \* the owner is current: neither cancelled nor its child gone

vars == <<kind, index, left, io, pc, guard, socket, permit, syn, tls, sent, response, status,
          failure, share, current>>
fixed == <<kind, index, guard, share>>

Init ==
  /\ kind = "control" /\ index = 0 /\ left = Budget /\ io = 0 /\ pc = "idle" /\ guard = TRUE
  /\ socket = "none" /\ permit = "none" /\ syn = FALSE /\ tls = "none" /\ sent = 0
  /\ response = 0 /\ status = 0 /\ failure = "none" /\ share = Budget /\ current = TRUE

-----------------------------------------------------------------------------
(* The caller's loop.                                                      *)

Fresh(time) ==
  /\ pc' = "endpoint" /\ io' = time /\ share' = time /\ syn' = FALSE /\ tls' = "none"
  /\ sent' = 0 /\ response' = 0 /\ status' = 0 /\ failure' = "none"
  /\ UNCHANGED <<socket, permit>>

\* What is left, divided by the hosts that are left.
Timeout == left \div (Hosts - index)

Begin ==
  /\ pc = "idle" /\ guard' \in BOOLEAN /\ current' = TRUE
  /\ \/ /\ kind' = "control" /\ index' = 0 /\ left' = Budget /\ pc' = "next"
        /\ UNCHANGED <<io, socket, permit, syn, tls, sent, response, status, failure, share>>
     \/ /\ kind' = "observe" /\ Fresh(ObserveTime) /\ UNCHANGED <<index, left>>

NextHost ==
  /\ pc = "next"
  /\ IF index < Hosts /\ current /\ left > 0 /\ Timeout > 0
     THEN Fresh(Timeout)
     ELSE /\ pc' = "idle"
          /\ UNCHANGED <<io, socket, permit, syn, tls, sent, response, status, failure, share>>
  /\ UNCHANGED <<kind, index, left, guard, current>>

-----------------------------------------------------------------------------
(* BoundHttpExchange.                                                      *)

Goes(next) == pc' = next /\ UNCHANGED failure

\* A return: what the function owns is given up in the order it was made.
Returns(f) == pc' = "unwind" /\ failure' = f

\* Current: one deadline for all the stages of an exchange.
InTime == current /\ io > 0

\* Endpoint: the interface is up, with an address and a DNS server.
Endpoint ==
  /\ pc = "endpoint"
  /\ (InTime /\ Goes("resolve")) \/ Returns("physical_unavailable")
  /\ UNCHANGED <<fixed, left, io, socket, permit, syn, tls, sent, response, status, current>>

\* Resolve, over a socket of its own on the same interface: the first public
\* IPv4 address of the answer.
Resolve ==
  /\ pc = "resolve"
  /\ (InTime /\ Goes("bind")) \/ Returns("dns_failed")
  /\ UNCHANGED <<fixed, left, io, socket, permit, syn, tls, sent, response, status, current>>

BoundSocket ==
  /\ pc = "bind"
  /\ \/ socket' = "bound" /\ Goes(IF kind = "control" THEN "permit" ELSE "connect")
     \/ Returns("connect_failed") /\ UNCHANGED socket
  /\ UNCHANGED <<fixed, left, io, permit, syn, tls, sent, response, status, current>>

\* OpenBoundSocket: a dynamic session; with the guard released a sublayer of the
\* session's own, under the guard the guard's.
OpenBoundSocket ==
  /\ pc = "permit"
  /\ \/ permit' = (IF guard THEN "guard" ELSE "own") /\ Goes("connect")
     \/ permit' \in {"none", "session"} /\ Returns("permit_failed")
  /\ UNCHANGED <<fixed, left, io, socket, syn, tls, sent, response, status, current>>

Connect ==
  /\ pc = "connect" /\ pc' = "connecting" /\ syn' = TRUE
  /\ UNCHANGED <<fixed, left, io, socket, permit, tls, sent, response, status, failure, current>>

\* Connected, refused, out of time, or from another address than was bound.
Connected ==
  /\ pc = "connecting"
  /\ (InTime /\ Goes("tls")) \/ Returns("connect_failed") \/ (InTime /\ Returns("physical_changed"))
  /\ UNCHANGED <<fixed, left, io, socket, permit, syn, tls, sent, response, status, current>>

\* The first handshake; TLS 1.2 and 1.3 are left enabled.
Handshake ==
  /\ pc = "tls"
  /\ \/ InTime /\ tls' \in {"1.2", "1.3"} /\ Goes("send")
     \/ Returns("tls_failed") /\ UNCHANGED tls
  /\ UNCHANGED <<fixed, left, io, socket, permit, syn, sent, response, status, current>>

\* HttpStatus up to the request on the wire, or a part of it.
SendRequest ==
  /\ pc = "send" /\ sent' = sent + 1
  /\ (InTime /\ Goes("read")) \/ Returns("http_failed")
  /\ UNCHANGED <<fixed, left, io, socket, permit, syn, tls, response, status, current>>

\* Post-handshake messages of TLS 1.3 continue the same context.
Renegotiated == pc' = "read" /\ UNCHANGED failure

\* ConsumeWindowsLocalDpiTlsRecord and what HttpStatus makes of the record: a
\* part of the response, its end, a renegotiation, or nothing that is allowed.
Record ==
  /\ pc = "read"
  /\ \/ /\ InTime /\ response < MaxResponse /\ response' = response + 1
        /\ Goes("read") /\ UNCHANGED status
     \/ /\ InTime /\ response < MaxResponse /\ response' = response + 1
        /\ status' \in {200, 302, 403, 404} /\ Returns("ok")
     \/ /\ InTime /\ tls = "1.3" /\ Renegotiated /\ UNCHANGED <<response, status>>
     \/ Returns("http_failed") /\ UNCHANGED <<response, status>>
  /\ UNCHANGED <<fixed, left, io, socket, permit, syn, tls, sent, current>>

\* Faulty: the socket is declared after the permit.
UnwindSocketFirst ==
  \/ /\ socket # "none" /\ socket' = "none" /\ UNCHANGED <<permit, pc>>
  \/ /\ socket = "none" /\ permit' = "none" /\ pc' = "judge" /\ UNCHANGED socket

\* The permit's session is closed before the port it permits is free.
Unwinds ==
  \/ /\ permit # "none" /\ permit' = "none" /\ UNCHANGED <<socket, pc>>
  \/ /\ permit = "none" /\ socket' = "none" /\ pc' = "judge" /\ UNCHANGED permit

Unwind ==
  /\ pc = "unwind" /\ Unwinds
  /\ UNCHANGED <<fixed, left, io, syn, tls, sent, response, status, failure, current>>

-----------------------------------------------------------------------------
(* What the callers make of it.                                            *)

\* VerifyWindowsLocalDpiControlHost wants a 2xx; a proof that lost its owner
\* fails with that.  ObserveWindowsNetworkContext has three answers.
Verdict ==
  IF kind = "control"
  THEN IF ~current THEN "owner_changed"
       ELSE IF failure = "ok" /\ status # 200 THEN "http_failed" ELSE failure
  ELSE IF failure = "ok" /\ status = 200 THEN "acknowledged"
       ELSE IF failure = "ok" /\ status = 403 THEN "denied" ELSE "unavailable"

WindowsLocalDpiRetryableProof(f) == f \in {"connect_failed", "tls_failed", "http_failed"}

Judge ==
  /\ pc = "judge" /\ failure' = Verdict
  /\ IF kind = "control" THEN pc' = "next" /\ index' = index + 1
                         ELSE pc' = "idle" /\ UNCHANGED index
  /\ UNCHANGED <<kind, guard, share, left, io, socket, permit, syn, tls, sent, response, status,
                 current>>

Less(n) == IF n = 0 THEN 0 ELSE n - 1
Waiting == pc \in {"resolve", "connecting", "tls", "send", "read"}

\* Time passes; a wait that is over ends first, the loops poll.
Tick ==
  /\ Waiting /\ InTime /\ io' = Less(io) /\ left' = IF kind = "control" THEN Less(left) ELSE left
  /\ UNCHANGED <<fixed, pc, socket, permit, syn, tls, sent, response, status, failure, current>>

OwnerLost ==
  /\ pc # "idle" /\ current /\ current' = FALSE
  /\ UNCHANGED <<fixed, left, io, pc, socket, permit, syn, tls, sent, response, status, failure>>

Exchange ==
  Endpoint \/ Resolve \/ BoundSocket \/ OpenBoundSocket \/ Connect \/ Connected \/ Handshake
    \/ SendRequest \/ Record \/ Unwind
Next == Begin \/ NextHost \/ Exchange \/ Judge \/ Tick \/ OwnerLost
Spec == Init /\ [][Next]_vars

\* The network need never answer.
Fairness ==
  /\ WF_vars(Tick)
  /\ WF_vars((NextHost \/ Exchange \/ Judge) /\ (Waiting => ~InTime))

-----------------------------------------------------------------------------
\* "Keep the exclusively bound socket alive longer than this exact-tuple
\* exception": no other program can get the port while the guard lets it through.
PermitInsideSocket == permit # "none" => socket = "bound"

\* "The HEAD request is sent once", whatever the server makes of TLS.
HeadSentOnce == sent <= 1

\* A slow host cannot take the time of the hosts after it.
EveryHostGetsItsShare ==
  pc \notin {"idle", "next"} /\ kind = "control" => share >= Budget \div Hosts

\* A host is proved by a 2xx to a request that was sent once, on a TLS connection
\* of the exchange itself; an observation never counts as a proof.
ProofIsComplete ==
  failure = "ok" /\ pc \in {"next", "idle"} =>
    /\ kind = "control" /\ syn /\ tls # "none" /\ sent = 1 /\ status = 200

\* A proof stays inside its socket, its request and its time, and is complete.
ProofIsExact == PermitInsideSocket /\ HeadSentOnce /\ EveryHostGetsItsShare /\ ProofIsComplete

\* A proof and an observation end, also when nobody answers.
ProofEnds == pc # "idle" ~> pc = "idle"
================================================================================

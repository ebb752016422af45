-------------------------- MODULE WindowsActivation --------------------------
(***************************************************************************)
(* Launches of the Windows UI in one session: the first process creates    *)
(* the window, every later one forwards what it was started for in a       *)
(* WM_COPYDATA frame and ends (main.cpp, activation_protocol.cpp).  A      *)
(* continuation link then travels from the window to Dart along two paths, *)
(* the answer to getInitialUri and the message uriChanged                  *)
(* (flutter_window.cpp, acquisition_links.dart), and the shell consumes it *)
(* (seed_shell.dart, onboarding_flow.dart).  Links are acquisition links;  *)
(* what a pairing link opens is left out.                                  *)
(***************************************************************************)
EXTENDS Naturals, Sequences, FiniteSets

CONSTANTS
  Procs,        \* the launches
  Links,        \* continuation links, each with its own handle
  Attempts,     \* 40: looks for the window
  MaxPayload,   \* kMaxPayloadSize, as a multiple of the length of a link
  Foreign       \* how many frames of other programs the window receives

VARIABLES
  pc,           \* of each launch
  link,         \* its acquisition_uri
  hidden,       \* its start_hidden
  tries,        \* its looks for the window
  mutex,        \* the launches with an open handle of the session's mutex
  windows,      \* the launches with a window of the class
  sent,         \* per launch: its WM_COPYDATA, from "none" to "handled"
  frames,       \* frames of other programs so far
  acted,        \* the last frame that was acted on, a history variable
  ui            \* the UI of the process that has one: see NewUi

vars == <<pc, link, hidden, tries, mutex, windows, sent, frames, acted, ui>>
args == <<link, hidden>>

None == "none"

\* What a frame may carry: nothing, a link, other text, a link that is too long.
Payloads == Links \cup {"nothing", "text", "long"}
Size(p) == CASE p = "nothing" -> 0 [] p = "long" -> MaxPayload + 1 [] OTHER -> 1

IsPokrovAcquisitionUri(p) == p \in Links /\ Size(p) <= MaxPayload

IsValidMessage(m) ==
  \/ m.command = "show" /\ m.payload = "nothing"
  \/ m.command = "continue" /\ IsPokrovAcquisitionUri(m.payload)

\* header stands for the magic, the version and the reserved word.
Frame(m) == [header |-> TRUE, command |-> m.command, size |-> Size(m.payload),
             payload |-> m.payload]
Encode(m) == IF IsValidMessage(m) THEN {Frame(m)} ELSE {}
AnyFrame == {[header |-> h, command |-> c, size |-> s, payload |-> p] :
               h \in BOOLEAN, c \in {"show", "continue", "other"},
               s \in 0..(MaxPayload + 1), p \in Payloads}

\* The message a frame carries, as a set of at most one.
Decode(f) ==
  {m \in {[command |-> f.command, payload |-> f.payload]} :
     /\ f.header /\ f.size <= MaxPayload /\ f.size = Size(f.payload)
     /\ f.command \in {"show", "continue"} /\ IsValidMessage(m)}

NewUi(l, owner) ==
  [owner |-> owner,
   pending |-> l,          \* pending_acquisition_uri_
   channel |-> FALSE,      \* acquisition_links_channel_
   toDart |-> <<>>,        \* messages to Dart, in order
   dart |-> "boot",        \* how far main() is
   buffer |-> None,        \* the channel buffer, before Dart listens
   initial |-> None,       \* initialAcquisitionUri
   held |-> None,          \* _pendingUri
   streamed |-> None,      \* added by onListen, not yet delivered
   processed |-> {},       \* _processedAcquisitionHandles
   consuming |-> None,     \* _acquisitionState = consuming
   \* history: the last link the window was given, the links that came while
   \* another was being consumed, and how often each was consumed
   newest |-> l, dropped |-> {}, consumed |-> [k \in Links |-> 0]]
NoUi == NewUi(None, None)

Init ==
  /\ pc = [p \in Procs |-> "idle"] /\ link = [p \in Procs |-> None]
  /\ hidden = [p \in Procs |-> FALSE] /\ tries = [p \in Procs |-> 0]
  /\ mutex = {} /\ windows = {}
  /\ sent = [p \in Procs |-> None] /\ frames = 0 /\ acted = {} /\ ui = NoUi

Go(p, s) == pc' = [pc EXCEPT ![p] = s]

-----------------------------------------------------------------------------
\* The launch: wWinMain.

ArgLists == UNION {[1..n -> Links \cup {"--startup", "long"}] : n \in 0..2}
Valid(a) == {i \in DOMAIN a : IsPokrovAcquisitionUri(a[i])}
FindAcquisitionUri(a) ==
  IF Valid(a) = {} THEN None ELSE a[CHOOSE i \in Valid(a) : \A j \in Valid(a) : i <= j]
HasArgument(a, s) == \E i \in DOMAIN a : a[i] = s

\* CreateMutexW opens the mutex that any handle keeps alive.
AlreadyExists == mutex # {}

Launch(p) ==
  /\ pc[p] = "idle"
  /\ \E a \in ArgLists :
       LET l == FindAcquisitionUri(a)
           h == l = None /\ HasArgument(a, "--startup")
       IN /\ link' = [link EXCEPT ![p] = l] /\ hidden' = [hidden EXCEPT ![p] = h]
          /\ \/ /\ mutex' = mutex \cup {p}
                /\ Go(p, IF ~AlreadyExists THEN "starting" ELSE IF h THEN "leaving" ELSE "looking")
             \/ Go(p, "failed") /\ UNCHANGED mutex    \* no session or no mutex
  /\ UNCHANGED <<tries, windows, sent, frames, acted, ui>>

Leave(p, s) == Go(p, s) /\ mutex' = mutex \ {p}

\* A repeated login launch forwards nothing; its handle is open until it closes it.
LoginLeaves(p) ==
  /\ pc[p] = "leaving" /\ Leave(p, "succeeded")
  /\ UNCHANGED <<args, tries, windows, sent, frames, acted, ui>>

Message(p) == [command |-> IF link[p] = None THEN "show" ELSE "continue",
               payload |-> IF link[p] = None THEN "nothing" ELSE link[p]]

\* FindWindowW finds any window of the class, and SendMessageTimeoutW goes to it.
FindWindow(p) ==
  /\ pc[p] = "looking" /\ tries[p] < Attempts
  /\ IF windows = {}
     THEN tries' = [tries EXCEPT ![p] = @ + 1] /\ UNCHANGED <<pc, sent>>
     ELSE /\ \E w \in windows : sent' = [sent EXCEPT ![p] = w]
          /\ Go(p, "sending") /\ UNCHANGED tries
  /\ UNCHANGED <<args, mutex, windows, frames, acted, ui>>

GiveUp(p) ==
  /\ pc[p] = "looking" /\ tries[p] = Attempts
  /\ Leave(p, "failed") /\ UNCHANGED <<args, tries, windows, sent, frames, acted, ui>>

\* The call ends without an answer: two seconds passed, or the window is gone.
\* A message that was not answered may still be handled.
Unanswered(p) ==
  /\ pc[p] = "sending" /\ sent[p] \in Procs
  /\ \/ UNCHANGED sent
     \/ sent' = [sent EXCEPT ![p] = None]
  /\ Leave(p, "failed") /\ UNCHANGED <<args, tries, windows, frames, acted, ui>>

\* Faulty: the wait is what counts, not the answer.
AnsweredAnyway(p) == pc[p] = "sending"
Answered(p) == pc[p] = "sending" /\ sent[p] = "handled"

ForwardActivation(p) ==
  /\ Answered(p) /\ Leave(p, "succeeded")
  /\ UNCHANGED <<args, tries, windows, sent, frames, acted, ui>>

-----------------------------------------------------------------------------
\* The window: its creation, its messages and its end.

CreateWindow(p) ==
  /\ pc[p] = "starting"
  /\ \/ /\ windows' = windows \cup {p} /\ Go(p, "creating")
        /\ ui' = NewUi(link[p], p) /\ UNCHANGED mutex
     \/ Leave(p, "failed") /\ UNCHANGED <<windows, ui>>
  /\ UNCHANGED <<args, tries, sent, frames, acted>>

\* Without an engine Create fails and the mutex is closed; the window is
\* destroyed after that, when wWinMain returns.
OnCreate(p) ==
  /\ pc[p] = "creating"
  /\ \/ Go(p, "running") /\ ui' = [ui EXCEPT !.channel = TRUE] /\ UNCHANGED mutex
     \/ Leave(p, "unwinding") /\ ui' = NoUi
  /\ UNCHANGED <<args, tries, windows, sent, frames, acted>>

Unwind(p) ==
  /\ pc[p] = "unwinding" /\ windows' = windows \ {p} /\ Go(p, "failed")
  /\ UNCHANGED <<args, tries, mutex, sent, frames, acted, ui>>

\* WM_COPYDATA shows the window; a link is also kept for getInitialUri and sent
\* as uriChanged.
CopyData(m) ==
  IF m.command = "show" THEN ui
  ELSE [ui EXCEPT !.pending = m.payload, !.newest = m.payload,
          !.toDart = IF ui.channel THEN Append(@, <<"uriChanged", m.payload>>) ELSE @]

\* Messages are dispatched by the loop, and by what creation and teardown call.
Dispatching == ui.owner # None /\ pc[ui.owner] \in {"creating", "running", "closing"}

HandleCopyData(p) ==
  /\ Dispatching /\ sent[p] = ui.owner
  /\ \E f \in Encode(Message(p)) : \E m \in Decode(f) : ui' = CopyData(m) /\ acted' = {f}
  /\ sent' = [sent EXCEPT ![p] = "handled"]
  /\ UNCHANGED <<pc, args, tries, mutex, windows, frames>>

\* A frame that does not decode goes to the default handler.
ForeignCopyData ==
  /\ Dispatching /\ frames < Foreign /\ frames' = frames + 1
  /\ \E f \in AnyFrame : \E m \in Decode(f) : ui' = CopyData(m) /\ acted' = {f}
  /\ UNCHANGED <<pc, args, tries, mutex, windows, sent>>

\* The end of the session, or the tray's exit: the channel goes, then the
\* window, then the loop ends and the mutex is closed.
Destroy(p) ==
  /\ pc[p] = "running" /\ Go(p, "closing")
  /\ ui' = [ui EXCEPT !.channel = FALSE, !.dart = "gone", !.toDart = <<>>]
  /\ UNCHANGED <<args, tries, mutex, windows, sent, frames, acted>>

DestroyWindow(p) ==
  /\ pc[p] = "closing" /\ Go(p, "quitting") /\ windows' = windows \ {p} /\ ui' = NoUi
  /\ UNCHANGED <<args, tries, mutex, sent, frames, acted>>

Quit(p) ==
  /\ pc[p] = "quitting" /\ Leave(p, "closed")
  /\ UNCHANGED <<args, tries, windows, sent, frames, acted, ui>>

\* The handler of the channel: the kept link is handed out once.
GetInitialUri(p) ==
  /\ ui.owner = p /\ pc[p] = "running" /\ ui.dart = "asking"
  /\ ui' = [ui EXCEPT !.toDart = Append(@, <<"answer", ui.pending>>),
                      !.pending = None, !.dart = "waiting"]

-----------------------------------------------------------------------------
\* Dart: the link service, main() and the shell.

\* _consumeAcquisitionUri and beginAcquisition: one at a time, each handle once.
BeginAcquisition(u, l) ==
  IF l = None THEN u
  ELSE IF u.consuming # None THEN [u EXCEPT !.dropped = @ \cup {l}]
  ELSE IF l \in u.processed THEN u
  ELSE [u EXCEPT !.processed = @ \cup {l}, !.consuming = l, !.consumed[l] = @ + 1]

\* start(): the handler is set, what the buffer kept is delivered to it, and
\* the window is asked.
DartStart ==
  /\ ui.dart = "boot"
  /\ ui' = [ui EXCEPT !.dart = "asking", !.held = ui.buffer, !.buffer = None]

Listening == ui.dart \in {"mounted", "shell"}

\* Before start() the channel buffer keeps one message, the newest.
UriChanged(u, l) ==
  IF Listening THEN BeginAcquisition(u, l)
  ELSE IF ui.dart = "boot" THEN [u EXCEPT !.buffer = l] ELSE [u EXCEPT !.held = l]

DartReceive ==
  /\ ui.toDart # <<>>
  /\ LET e == Head(ui.toDart)
         u == [ui EXCEPT !.toDart = Tail(@)]
     IN ui' = (IF e[1] = "answer" THEN [u EXCEPT !.initial = e[2], !.dart = "services"]
               ELSE UriChanged(u, e[2]))

\* waitUntilReadyToShow.
DartShow == ui.dart = "services" /\ ui' = [ui EXCEPT !.dart = "ready"]

\* initState listens; onListen adds the kept link to the stream, which
\* delivers it later.  The initial link is consumed after the first frame.
Subscribe ==
  /\ ui.dart = "ready"
  /\ ui' = [ui EXCEPT !.dart = "mounted", !.streamed = ui.held, !.held = None]

Deliver ==
  /\ Listening /\ ui.streamed # None
  /\ ui' = BeginAcquisition([ui EXCEPT !.streamed = None], ui.streamed)

PostFrame ==
  /\ ui.dart = "mounted"
  /\ ui' = BeginAcquisition([ui EXCEPT !.dart = "shell"], ui.initial)

FinishAcquisition ==
  /\ ui.consuming # None /\ ui' = [ui EXCEPT !.consuming = None]

Running == ui.owner # None /\ pc[ui.owner] = "running"
Dart ==
  /\ Running
  /\ \/ DartStart \/ DartReceive \/ DartShow \/ Subscribe \/ Deliver \/ PostFrame
     \/ FinishAcquisition
  /\ UNCHANGED <<pc, args, tries, mutex, windows, sent, frames, acted>>

Shell ==
  /\ \E p \in Procs : GetInitialUri(p)
  /\ UNCHANGED <<pc, args, tries, mutex, windows, sent, frames, acted>>

\* Everything was launched and has ended.
Done ==
  /\ \A p \in Procs : pc[p] \in {"closed", "succeeded", "failed"}
  /\ UNCHANGED vars

Next ==
  \/ \E p \in Procs : \/ Launch(p) \/ LoginLeaves(p) \/ FindWindow(p) \/ GiveUp(p)
                      \/ Unanswered(p) \/ ForwardActivation(p) \/ CreateWindow(p) \/ OnCreate(p)
                      \/ Unwind(p) \/ HandleCopyData(p) \/ Destroy(p) \/ DestroyWindow(p)
                      \/ Quit(p)
  \/ ForeignCopyData \/ Dart \/ Shell \/ Done

Spec == Init /\ [][Next]_vars

\* The UI thread and the Dart isolate run; nobody has to launch or close.
Fairness ==
  /\ WF_vars(Dart)
  /\ \A p \in Procs : WF_vars(GetInitialUri(p) /\ Shell)

-----------------------------------------------------------------------------

TypeOK ==
  /\ \A p \in Procs : pc[p] \in {"idle", "starting", "leaving", "looking", "sending",
       "creating", "unwinding", "running", "closing", "quitting", "closed", "succeeded", "failed"}
  /\ mutex \subseteq Procs /\ windows \subseteq Procs /\ ui.owner \in Procs \cup {None}

\* A session has one UI at a time: the named mutex is held from before the
\* window is created until after it is gone (main.cpp).
OneUi == Cardinality({p \in Procs : pc[p] \in {"starting", "creating", "running", "closing"}}) <= 1

\* A launch that ends with EXIT_SUCCESS and was not the UI itself has had its
\* message handled by the window, or is a login launch that asks for nothing.
SuccessWasHandled ==
  \A p \in Procs : pc[p] = "succeeded" => hidden[p] \/ sent[p] = "handled"

\* The window acts only on what Encode writes: no other frame that a program
\* sends it shows the window or leaves a link (activation_protocol.cpp).
ActsOnEncoded == \A f \in acted : \E m \in [command : {"show", "continue"}, payload : Payloads] :
                   f \in Encode(m)

\* A link that reaches the shell twice, as the answer to getInitialUri and as
\* uriChanged, is consumed once (beginAcquisition).
ConsumedOnce == \A l \in Links : ui.consumed[l] <= 1

\* Launches that race for the session end in one UI, which has what they were for
\* and nothing that anyone else sent.
ActivationIsExact == TypeOK /\ OneUi /\ SuccessWasHandled /\ ActsOnEncoded /\ ConsumedOnce

\* The last link the window was given is consumed, unless it reaches the shell
\* while another is being consumed, or the window closes.
LastLinkIsConsumed ==
  \A l \in Links :
    (Running /\ ui.newest = l) ~> \/ ~Running \/ ui.newest # l
                                  \/ l \in ui.processed \cup ui.dropped

=============================================================================

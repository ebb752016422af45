--------------------------- MODULE WindowsEvents ---------------------------
(***************************************************************************)
(* The event journal of the Windows service (service_events.cpp): threads  *)
(* form a record and queue it, one writer appends it to a file that is     *)
(* rotated before it grows past its limit.  The process may be killed and  *)
(* started again over the files it left, and a write or a rename may fail. *)
(***************************************************************************)
EXTENDS Naturals, Sequences, WindowsCapabilities

CONSTANTS
  Producers,   \* threads that record events
  Sent,        \* commands whose requests are recorded
  Failures,    \* what the DPI executor says
  MaxPending,  \* records that wait for the writer (4096)
  MaxLine,     \* a record may have this length (512), in units of a short record
  FileLimit,   \* kMaximumServiceEventJournalSize, in the same units
  MaxEvents,   \* bound: records formed
  MaxFaults    \* bound: failed calls and kills

EventsAssumption ==
  /\ {MaxPending, MaxEvents} \subseteq Nat \ {0} /\ MaxFaults \in Nat
  /\ FileLimit \in Nat /\ MaxLine \in 1..FileLimit /\ Sent \subseteq Commands

VARIABLES
  journal,  \* "none" before it is created, "open", "stopping"
  formed,   \* records formed so far, and the next sequence number
  held,     \* producer -> the record it has formed and not queued, or NoLine
  pending,  \* pending_
  writer,   \* "none", "waits", "rotates", "writes", "ended"
  line,     \* the record the writer holds
  current,  \* service-events.v1.log: its size, and the records that are whole in it
  previous, \* service-events.v1.previous.log
  written,  \* every record that was written whole, in order
  tried,    \* records the writer has taken, of those it was given
  given,    \* records AppendLine has accepted in this process
  faults

vars == <<journal, formed, held, pending, writer, line, current, previous,
          written, tried, given, faults>>
files == <<current, previous, written>>

NoLine == [n |-> 0]
NoFile == [size |-> 0, whole |-> <<>>]

Init ==
  /\ journal = "none" /\ formed = 0 /\ held = [p \in Producers |-> NoLine]
  /\ pending = <<>> /\ writer = "none" /\ line = NoLine
  /\ current = NoFile /\ previous = NoFile /\ written = <<>>
  /\ tried = {} /\ given = {} /\ faults = 0

-----------------------------------------------------------------------------
(* Records *)

\* CommandName: four commands have no name of their own.
CommandName(c) ==
  CASE c \in {"readTransportNetworkContext", "readCandidateNetwork", "observeNetworkContext"} -> "status"
    [] c = "replaceManagedProfile" -> "connect"
    [] c = "stageBoundProfile" -> "stageProfile"
    [] c \in BoundControls -> "configureSmartAccessRuntimeControl"
    [] c \in Leases \cup {"readBootClock", "connectWithIdentity"} -> "invalid"
    [] OTHER -> c

\* LocalDpiFailureName: a closed list, whatever the executor says; "none" is its
\* empty text.
LocalDpiFailureName(failure) ==
  CASE failure = "none" -> "none"
    [] failure = "local_dpi_child_failed" -> failure
    [] OTHER -> "local_dpi_unavailable"

\* A record of Record, RecordSystemBoot and RecordTransitionGuardFailure, ...
EventLine == {[size |-> 1, numbered |-> TRUE, text |-> "event"]}
\* ... of RecordIpcRequest and RecordIpcResponse, ...
IpcLine == {[size |-> 1, numbered |-> TRUE, text |-> CommandName(c)] : c \in Sent}
\* ... of RecordLocalDpiObservation, ...
DpiLine == {[size |-> 1, numbered |-> TRUE, text |-> LocalDpiFailureName(f)] :
              f \in Failures}
\* ... and of RecordCoreOperationalEvent, which brings numbers of its own and
\* whatever texts Core sent.
CoreLine == {[size |-> s, numbered |-> FALSE, text |-> "core"] : s \in 2..(MaxLine + 1)}

\* A thread forms a record: the number is drawn before the lock is taken.
FormLine(p) ==
  /\ journal = "open" /\ held[p] = NoLine /\ formed < MaxEvents
  /\ formed' = formed + 1
  /\ \E l \in UNION {EventLine, IpcLine, DpiLine, CoreLine} :
       held' = [held EXCEPT ![p] =
                  [n |-> formed', by |-> p, size |-> l.size, numbered |-> l.numbered,
                   text |-> l.text]]
  /\ UNCHANGED <<journal, pending, writer, line, files, tried, given, faults>>

NoRoom == journal = "stopping" \/ Len(pending) >= MaxPending

\* AppendLine: the record is queued, or dropped when it is too long or there is no
\* room or no time.
AppendLine(p) ==
  /\ journal # "none" /\ held[p] # NoLine
  /\ held' = [held EXCEPT ![p] = NoLine]
  /\ IF held[p].size > MaxLine \/ NoRoom
     THEN UNCHANGED <<pending, given>>
     ELSE pending' = Append(pending, held[p]) /\ given' = given \cup {held[p].n}
  /\ UNCHANGED <<journal, formed, writer, line, files, tried, faults>>

-----------------------------------------------------------------------------
(* The writer *)

\* The writer is woken by a record or the end.
Take ==
  /\ writer = "waits" /\ pending # <<>>
  /\ line' = Head(pending) /\ pending' = Tail(pending) /\ writer' = "rotates"
  /\ tried' = tried \cup {line'.n}
  /\ UNCHANGED <<journal, formed, held, files, given, faults>>

RotateIfNeeded == current.size + line.size > FileLimit

\* Faulty: the previous file is not replaced when there is one.
RotateOnce ==
  /\ current' = IF RotateIfNeeded THEN NoFile ELSE current
  /\ previous' = IF RotateIfNeeded /\ previous = NoFile THEN current ELSE previous

\* The full file takes the place of the previous one.
Rotate ==
  /\ current' = IF RotateIfNeeded THEN NoFile ELSE current
  /\ previous' = IF RotateIfNeeded THEN current ELSE previous

Rotated ==
  /\ writer = "rotates" /\ Rotate /\ writer' = "writes"
  /\ UNCHANGED <<journal, formed, held, pending, line, written, tried, given, faults>>

Fault == faults < MaxFaults /\ faults' = faults + 1

\* A record that was not written is given up.
Drop == UNCHANGED pending

\* The attributes cannot be read, the rename fails or the file cannot be opened.
WriteFails ==
  /\ writer \in {"rotates", "writes"} /\ Fault
  /\ line' = NoLine /\ writer' = "waits" /\ Drop
  /\ UNCHANGED <<journal, formed, held, files, tried, given>>

WriteLine ==
  /\ writer = "writes"
  /\ current' = [size |-> current.size + line.size, whole |-> Append(current.whole, line)]
  /\ written' = Append(written, line)
  /\ line' = NoLine /\ writer' = "waits"
  /\ UNCHANGED <<journal, formed, held, pending, previous, tried, given, faults>>

\* The disk takes a part of the record only: nothing takes it back.
Torn == {[current EXCEPT !.size = @ + part] : part \in 1..line.size}

WriteTears ==
  /\ writer = "writes" /\ Fault
  /\ current' \in Torn
  /\ line' = NoLine /\ writer' = "waits"
  /\ UNCHANGED <<journal, formed, held, pending, previous, written, tried, given>>

WriterEnds ==
  /\ writer = "waits" /\ journal = "stopping" /\ pending = <<>>
  /\ writer' = "ended"
  /\ UNCHANGED <<journal, formed, held, pending, line, files, tried, given, faults>>

-----------------------------------------------------------------------------
(* The journal's life *)

Create ==
  /\ journal = "none" /\ formed < MaxEvents
  /\ journal' = "open" /\ writer' = "waits"
  /\ UNCHANGED <<formed, held, pending, line, files, tried, given, faults>>

\* The destructor: no record is queued from now on, and the writer is joined.
Stop ==
  /\ journal = "open" /\ journal' = "stopping"
  /\ UNCHANGED <<formed, held, pending, writer, line, files, tried, given, faults>>

\* The service ends, or is started again in the same state root.
Gone ==
  /\ journal' = "none" /\ writer' = "none" /\ line' = NoLine /\ pending' = <<>>
  /\ held' = [p \in Producers |-> NoLine] /\ tried' = {} /\ given' = {}

Joined ==
  /\ journal = "stopping" /\ writer = "ended" /\ Gone
  /\ UNCHANGED <<formed, files, faults>>

\* The process is killed; a record may be torn.
Kill ==
  /\ journal # "none" /\ Fault /\ Gone
  /\ current' \in {current} \cup (IF writer = "writes" THEN Torn ELSE {})
  /\ UNCHANGED <<formed, previous, written>>

\* The destructor waits, or nothing more is recorded.
Rests == (journal = "stopping" \/ formed = MaxEvents) /\ UNCHANGED vars

ProducerStep == \E p \in Producers : FormLine(p) \/ AppendLine(p)
WriterStep == Take \/ Rotated \/ WriteFails \/ WriteLine \/ WriteTears \/ WriterEnds
Next == ProducerStep \/ WriterStep \/ Create \/ Stop \/ Joined \/ Kill \/ Rests
Spec == Init /\ [][Next]_vars

\* The writer is a thread of its own, and a join returns.
Fairness == WF_vars(WriterStep) /\ WF_vars(Joined)

-----------------------------------------------------------------------------
TypeOK ==
  /\ journal \in {"none", "open", "stopping"} /\ Len(pending) <= MaxPending
  /\ writer \in {"none", "waits", "rotates", "writes", "ended"}
  /\ (writer = "none") = (journal = "none")
  /\ formed \in 0..MaxEvents /\ faults \in 0..MaxFaults /\ tried \subseteq given

\* Neither file outgrows its limit, whatever was torn, dropped or left by an
\* earlier process.
FilesAreBounded == current.size <= FileLimit /\ previous.size <= FileLimit

\* What the two files hold are the newest records that were written: rotation
\* gives up the oldest ones and no other.
NewestAreKept ==
  LET kept == previous.whole \o current.whole
  IN /\ Len(kept) <= Len(written)
     /\ \A i \in 1..Len(kept) : kept[i] = written[Len(written) - Len(kept) + i]

\* The records of one thread are written in the order in which it made them.
ThreadOrder ==
  \A i, j \in DOMAIN written : i < j /\ written[i].by = written[j].by => written[i].n < written[j].n

\* A journal that is destroyed has handed the writer all it had accepted.
NothingLeftBehind == writer = "ended" => tried = given

\* Only closed values are written.
ClosedValues ==
  \A i \in DOMAIN written :
    written[i].text \in Commands \cup {"event", "core", "none", "invalid",
                                       "local_dpi_child_failed", "local_dpi_unavailable"}

\* The files are what the writer was given, in order and up to the newest.
JournalIsSound ==
  TypeOK /\ FilesAreBounded /\ NewestAreKept /\ ThreadOrder /\ NothingLeftBehind /\ ClosedValues

\* The destructor gets past the writer.
StopEnds == journal = "stopping" ~> journal = "none"

\* An accepted record is taken by the writer unless the process ends.
AcceptedIsTried ==
  \A n \in 1..MaxEvents : n \in given ~> n \in tried \/ journal = "none"

=============================================================================

------------------------- MODULE WindowsCrashProfile -------------------------
(***************************************************************************)
(* The crash records of one kind of process (windows_crash_profile.cpp):   *)
(* the unhandled-exception filter of a dying process moves the current     *)
(* file over the previous one and writes a new one, beside other threads   *)
(* that crash too, and the process may end at any point of it.  A reader   *)
(* of the diagnostics opens the two files one after the other.  Files have *)
(* identities, so that a handle follows a file that is moved.              *)
(***************************************************************************)
EXTENDS Naturals, Sequences, FiniteSets

CONSTANTS
  Threads,      \* threads of the process that may crash
  MaxFrames,    \* kMaximumWindowsCrashFrames
  MaxUnwind,    \* kMaximumUnwindAttempts
  Records,      \* bound on records, and so on files
  Faults,       \* bound on interrupted or failing writes
  Reads         \* bound on reads

CrashAssumption == {MaxFrames, MaxUnwind, Records, Faults, Reads} \subseteq Nat

VARIABLES
  up,           \* the process runs and the filter is installed
  modules,      \* allowlisted modules whose range is stored: "none" or "all"
  active,       \* crash_filter_active
  pc, frames,   \* of each thread
  disk,         \* the files by identity
  last,         \* the last identity given out
  cur, prev,    \* the file under each name, 0 for none
  rpc, handle, size, found,   \* the reader, its open file, its records
  reads, faults,
  whole,        \* files that were ever complete, a history variable
  spoilt        \* a file was incomplete, or a call failed, during the read

vars == <<up, modules, active, pc, frames, disk, last, cur, prev, rpc, handle, size, found,
          reads, faults, whole, spoilt>>
crash == <<up, modules, active, pc, frames, last>>
reader == <<rpc, handle, size, found, reads>>

File(b, n) == [body |-> b, frames |-> n]
Writing == {"create", "write", "close"}

Init ==
  /\ up = FALSE /\ modules = "none" /\ active = FALSE
  /\ pc = [t \in Threads |-> "idle"] /\ frames = [t \in Threads |-> 0]
  /\ disk = <<>> /\ last = 0 /\ cur = 0 /\ prev = 0
  /\ rpc = "idle" /\ handle = 0 /\ size = "empty" /\ found = <<>>
  /\ reads = 0 /\ faults = 0 /\ whole = {} /\ spoilt = FALSE

Incomplete(f) == f # 0 /\ disk[f].body # "whole"

\* The modules that are loaded by then have their ranges stored before the filter
\* is set.
InstallWindowsCrashProfile ==
  /\ ~up /\ up' = TRUE /\ modules' \in {"none", "all"} /\ active' = FALSE
  /\ UNCHANGED <<pc, frames, disk, last, cur, prev, reader, faults, whole, spoilt>>

RefreshWindowsCrashProfileModules ==
  /\ up /\ modules = "none" /\ modules' = "all"
  /\ UNCHANGED <<up, active, pc, frames, disk, last, cur, prev, reader, faults, whole, spoilt>>

\* Faulty: every thread that crashes writes a record.
EntersAlways(t) == TRUE
\* test_and_set: the others leave the record to the first.
Enters(t) == ~active

HandleUnhandledException(t) ==
  /\ up /\ pc[t] = "idle" /\ last < Records
  /\ IF Enters(t) THEN active' = TRUE /\ pc' = [pc EXCEPT ![t] = "capture"]
     ELSE pc' = [pc EXCEPT ![t] = "leaving"] /\ UNCHANGED active
  /\ UNCHANGED <<up, modules, frames, disk, last, cur, prev, reader, faults, whole, spoilt>>

\* The walk: addresses outside the known modules are left out.
CaptureSafeFrames(t) ==
  /\ pc[t] = "capture"
  /\ \E walked \in 0..MaxUnwind : \E n \in 0..walked :
       /\ n <= MaxFrames /\ (modules = "none" => n = 0)
       /\ frames' = [frames EXCEPT ![t] = n]
  /\ pc' = [pc EXCEPT ![t] = "move"]
  /\ UNCHANGED <<up, modules, active, disk, last, cur, prev, reader, faults, whole, spoilt>>

FormatWindowsCrashRecord(n) == IF n < MaxFrames THEN n ELSE MaxFrames

Leave(t) == pc' = [pc EXCEPT ![t] = "leaving"] /\ active' = FALSE

Fault == faults < Faults /\ faults' = faults + 1

\* The writer's handle shares reading only.
Held == \E t \in Threads : pc[t] \in {"write", "close"}

\* MoveFileExW.  A file that is being written cannot be moved; the move fails too
\* when a file is held open, and is not tried when no record could be formatted.
Move(t) ==
  /\ pc[t] = "move"
  /\ \/ /\ cur # 0 /\ ~Held /\ prev' = cur /\ cur' = 0
        /\ pc' = [pc EXCEPT ![t] = "create"] /\ UNCHANGED active
     \/ cur = 0 /\ pc' = [pc EXCEPT ![t] = "create"] /\ UNCHANGED <<active, cur, prev>>
     \/ Leave(t) /\ UNCHANGED <<cur, prev>>
  /\ UNCHANGED <<up, modules, frames, disk, last, reader, faults, whole, spoilt>>

\* CREATE_ALWAYS empties a file that is there.
Create(t) ==
  /\ pc[t] = "create"
  /\ \/ /\ ~Held
        /\ IF cur = 0 THEN last' = last + 1 /\ cur' = last' /\ disk' = Append(disk, File("empty", 0))
           ELSE disk' = [disk EXCEPT ![cur] = File("empty", 0)] /\ UNCHANGED <<last, cur>>
        /\ spoilt' = TRUE
        /\ pc' = [pc EXCEPT ![t] = "write"] /\ UNCHANGED <<active, faults>>
     \/ Fault /\ Leave(t) /\ UNCHANGED <<disk, last, cur, spoilt>>
  /\ UNCHANGED <<up, modules, frames, prev, reader, whole>>

\* The file that the thread has open is the current one: nobody else moves it.
Write(t) ==
  /\ pc[t] = "write"
  /\ \/ /\ disk' = [disk EXCEPT ![cur] = File("whole", FormatWindowsCrashRecord(frames[t]))]
        /\ whole' = whole \cup {cur} /\ UNCHANGED faults
     \/ /\ Fault /\ disk' = [disk EXCEPT ![cur] = File("partial", 0)] /\ UNCHANGED whole
  /\ pc' = [pc EXCEPT ![t] = "close"]
  /\ UNCHANGED <<up, modules, active, frames, last, cur, prev, reader, spoilt>>

Close(t) ==
  /\ pc[t] = "close" /\ Leave(t)
  /\ UNCHANGED <<up, modules, frames, disk, last, cur, prev, reader, faults, whole, spoilt>>

\* The process ends after an exception that was passed on, or is ended: what
\* another thread was writing stays as it is.
Ends ==
  /\ up /\ up' = FALSE /\ pc' = [t \in Threads |-> "idle"]
  /\ \/ (\A t \in Threads : pc[t] \notin Writing) /\ UNCHANGED <<faults, disk>>
     \/ /\ \E t \in Threads : pc[t] \in Writing
        /\ Fault
        /\ \/ UNCHANGED disk
           \/ cur # 0 /\ disk[cur].body = "empty" /\ disk' = [disk EXCEPT ![cur].body = "partial"]
  /\ UNCHANGED <<modules, active, frames, last, cur, prev, reader, whole, spoilt>>

-----------------------------------------------------------------------------
\* ReadWindowsCrashDiagnostics.

\* The schema: one whole line with at most the frames a record may have.
ProjectWindowsCrashRecord(f) == f.body = "whole" /\ f.frames <= MaxFrames

ReadStart ==
  /\ rpc = "idle" /\ reads < Reads /\ reads' = reads + 1
  /\ rpc' = "current" /\ found' = <<>> /\ spoilt' = (Incomplete(cur) \/ Incomplete(prev))
  /\ UNCHANGED <<handle, size, disk, cur, prev, faults, whole, crash>>

Following == IF rpc = "current" THEN "previous" ELSE "ok"

\* A record that is not there is passed over.
Missing == Following

Open ==
  /\ rpc \in {"current", "previous"} /\ handle = 0
  /\ LET f == IF rpc = "current" THEN cur ELSE prev
     IN IF f = 0 THEN rpc' = Missing /\ UNCHANGED <<handle, size>>
        ELSE IF disk[f].body = "empty" THEN rpc' = "failed" /\ UNCHANGED <<handle, size>>
        ELSE handle' = f /\ size' = disk[f].body /\ UNCHANGED rpc
  /\ UNCHANGED <<found, reads, disk, cur, prev, faults, whole, spoilt, crash>>

\* The length is the one that was seen, and the record has the schema.
Accepts(f) == f.body = size /\ ProjectWindowsCrashRecord(f)

Read ==
  /\ handle # 0
  /\ IF Accepts(disk[handle])
     THEN found' = Append(found, handle) /\ rpc' = Following
     ELSE rpc' = "failed" /\ UNCHANGED found
  /\ handle' = 0
  /\ UNCHANGED <<size, reads, disk, cur, prev, faults, whole, spoilt, crash>>

Reported ==
  /\ rpc \in {"ok", "failed"} /\ rpc' = "idle" /\ found' = <<>> /\ size' = "empty"
  /\ UNCHANGED <<handle, reads, disk, cur, prev, faults, whole, spoilt, crash>>

Next ==
  \/ InstallWindowsCrashProfile \/ RefreshWindowsCrashProfileModules \/ Ends
  \/ \E t \in Threads : \/ HandleUnhandledException(t) \/ CaptureSafeFrames(t) \/ Move(t)
                        \/ Create(t) \/ Write(t) \/ Close(t)
  \/ ReadStart \/ Open \/ Read \/ Reported

Spec == Init /\ [][Next]_vars

-----------------------------------------------------------------------------

TypeOK ==
  /\ pc \in [Threads -> {"idle", "capture", "move", "leaving"} \cup Writing]
  /\ rpc \in {"idle", "current", "previous", "ok", "failed"}
  /\ {cur, prev, handle} \subseteq 0..last /\ last = Len(disk)
  /\ \A f \in 1..last : disk[f].body \in {"empty", "partial", "whole"}

\* Once a record was written, one interrupted or failing write does not leave
\* the directory without a complete one: the current file is moved aside
\* before it is replaced, and one thread at a time does so.
KeepsAWhole ==
  /\ whole # {} /\ faults <= 1 /\ \A t \in Threads : pc[t] \notin Writing
  => \E f \in {cur, prev} \ {0} : disk[f].body = "whole"

\* "Missing records are an empty success; unreadable/corrupt records fail
\* closed": a read that fails met an incomplete file ...
FailureHasCause == rpc = "failed" => spoilt

\* ... and one that succeeds reports only complete records.
ReportedIsWhole == rpc = "ok" => \A i \in 1..Len(found) : found[i] \in whole

\* Whatever the filter writes, the reader accepts: the bound on frames in
\* FormatWindowsCrashRecord is the bound of the schema.
WholeIsReadable ==
  \A f \in 1..last : disk[f].body = "whole" => ProjectWindowsCrashRecord(disk[f])

\* Crashing threads, ends of the process and the reader: a directory that had a
\* complete record keeps one, and only complete records are reported, the same one
\* perhaps twice when it is moved under the reader.
CrashesAreReported ==
  TypeOK /\ KeepsAWhole /\ FailureHasCause /\ ReportedIsWhole /\ WholeIsReadable

=============================================================================

------------------------ MODULE WindowsShell_proofs -------------------------
(***************************************************************************)
(* Proofs for the processes of the desktop shell: the crash filter and its *)
(* reader (WindowsCrashProfile), the launches of a session and their links *)
(* (WindowsActivation) and the window as the owner of a connection         *)
(* (WindowsRunner).  A theorem speaks of one of them.                      *)
(***************************************************************************)
EXTENDS WindowsShell, Integers, FiniteSets, FiniteSetTheorems, SequenceTheorems, TLAPS

-----------------------------------------------------------------------------
(* The crash filter *)

Bodies == {"empty", "partial", "whole"}
Files == [body : Bodies, frames : Nat]
InFilter == {"capture", "move", "create", "write", "close"}

WholeFile(f) == f \in 1..serial /\ disk[f].body = "whole"

CrashTypes ==
  /\ up \in BOOLEAN /\ active \in BOOLEAN /\ spoilt \in BOOLEAN
  /\ modules \in {"none", "all"}
  /\ at \in [Threads -> {"idle", "capture", "move", "leaving"} \cup Crash!Writing]
  /\ stack \in [Threads -> Nat]
  /\ disk \in Seq(Files) /\ serial \in Nat /\ serial = Len(disk)
  /\ cur \in 0..serial /\ prev \in 0..serial /\ handle \in 0..serial
  /\ rpc \in {"idle", "current", "previous", "ok", "failed"}
  /\ size \in Bodies /\ found \in Seq(1..serial)
  /\ faults \in Nat /\ reads \in Nat /\ whole \subseteq 1..serial

\* test_and_set lets one thread of a running process into the filter.
OneFilters ==
  /\ \A t \in Threads : at[t] \in InFilter => up /\ active
  /\ \A t, u \in Threads : at[t] \in InFilter /\ at[u] \in InFilter => t = u

\* The names are of different files; the name is free before a file is created,
\* and the file is empty until it is written.
NamesFit ==
  /\ cur # 0 => cur # prev
  /\ \A t \in Threads :
       /\ at[t] = "create" => cur = 0
       /\ at[t] = "write" => cur # 0 /\ disk[cur].body = "empty"
       /\ at[t] = "close" => cur # 0

\* A file that was complete stays complete, and can be read.
WholeStays ==
  /\ \A f \in 1..serial : f \in whole <=> disk[f].body = "whole"
  /\ \A f \in 1..serial : disk[f].body = "whole" => disk[f].frames <= MaxFrames

\* Where the complete record is while nothing has failed, and after one failure.
RecordIsKept ==
  whole # {} =>
    /\ faults = 0 => WholeFile(cur) \/ \E t \in Threads : at[t] \in {"create", "write"}
    /\ faults = 0 /\ (\E t \in Threads : at[t] \in {"create", "write"}) => WholeFile(prev)
    /\ faults <= 1 /\ (\A t \in Threads : at[t] \notin {"create", "write"})
         => WholeFile(cur) \/ WholeFile(prev)

\* A current file of a process that met no failure is complete, or being written.
CurrentIsWhole ==
  faults = 0 /\ cur # 0 /\ (\A t \in Threads : at[t] # "write") => WholeFile(cur)

\* A read during which nothing was spoilt meets complete files only.
ReadsWhole ==
  /\ rpc \in {"current", "previous"} /\ ~spoilt =>
       /\ cur # 0 => WholeFile(cur)
       /\ prev # 0 => WholeFile(prev)
       /\ handle # 0 => WholeFile(handle) /\ size = "whole"
  /\ handle # 0 => rpc \in {"current", "previous"}
  /\ rpc = "failed" => spoilt
  /\ \A i \in 1..Len(found) : found[i] \in whole

FilterInv ==
  /\ CrashTypes /\ OneFilters /\ NamesFit /\ WholeStays /\ RecordIsKept /\ CurrentIsWhole
  /\ ReadsWhole

LEMMA FilterInit == ASSUME Crash!Init PROVE FilterInv
<1> USE DEF Crash!Init
<1>1. CrashTypes
  <2>1. <<>> \in Seq(Files) /\ <<>> \in Seq(1..serial) BY EmptySeq
  <2>2. Len(<<>>) = 0 BY EmptySeq
  <2>3. at \in [Threads -> {"idle", "capture", "move", "leaving"} \cup Crash!Writing]
    /\ stack \in [Threads -> Nat]
    OBVIOUS
  <2>4. disk \in Seq(Files) /\ found \in Seq(1..serial) /\ serial = Len(disk) BY <2>1, <2>2
  <2>5. serial \in Nat /\ cur \in 0..serial /\ prev \in 0..serial /\ handle \in 0..serial
        /\ whole \subseteq 1..serial /\ faults \in Nat /\ reads \in Nat
    OBVIOUS
  <2>6. up \in BOOLEAN /\ active \in BOOLEAN /\ spoilt \in BOOLEAN /\ modules \in {"none", "all"}
        /\ rpc \in {"idle", "current", "previous", "ok", "failed"} /\ size \in Bodies
    BY DEF Bodies
  <2> QED BY <2>3, <2>4, <2>5, <2>6 DEF CrashTypes
<1>2. OneFilters /\ NamesFit BY DEF OneFilters, NamesFit, InFilter
<1>3. WholeStays /\ RecordIsKept /\ CurrentIsWhole BY DEF WholeStays, RecordIsKept, CurrentIsWhole
<1>4. ReadsWhole BY DEF ReadsWhole
<1> QED BY <1>1, <1>2, <1>3, <1>4 DEF FilterInv

\* What the invariant says is what the run checks.
LEMMA FilterReports == ASSUME FilterInv PROVE CrashesAreReported
<1> USE DEF FilterInv
<1>1. Crash!TypeOK
  <2>1. \A f \in 1..serial : disk[f] \in Files BY DEF CrashTypes
  <2>2. \A f \in 1..serial : disk[f].body \in {"empty", "partial", "whole"}
    BY <2>1 DEF Files, Bodies
  <2> QED BY <2>2 DEF CrashTypes, Crash!TypeOK
<1>2. Crash!KeepsAWhole
  BY DEF Crash!KeepsAWhole, RecordIsKept, WholeFile, Crash!Writing, CrashTypes
<1>3. Crash!FailureHasCause BY DEF Crash!FailureHasCause, ReadsWhole
<1>4. Crash!ReportedIsWhole BY DEF Crash!ReportedIsWhole, ReadsWhole
<1>5. Crash!WholeIsReadable
  BY DEF Crash!WholeIsReadable, Crash!ProjectWindowsCrashRecord, WholeStays
<1> QED BY <1>1, <1>2, <1>3, <1>4, <1>5 DEF CrashesAreReported, Crash!CrashesAreReported

\* Steps that touch no file and no name.
LEMMA FilterKeepsFiles ==
  ASSUME FilterInv, CrashTypes', OneFilters',
         UNCHANGED <<disk, serial, cur, prev, faults, whole>>,
         \A t \in Threads : at'[t] \in {"create", "write", "close"} => at'[t] = at[t],
         (\E t \in Threads : at[t] \in {"create", "write"})
           <=> (\E t \in Threads : at'[t] \in {"create", "write"})
  PROVE  NamesFit' /\ WholeStays' /\ RecordIsKept' /\ CurrentIsWhole'
<1> USE DEF FilterInv
<1>1. NamesFit' BY DEF NamesFit, CrashTypes
<1>2. WholeStays' BY DEF WholeStays
<1>3. RecordIsKept' BY DEF RecordIsKept, WholeFile
<1>4. CurrentIsWhole' BY DEF CurrentIsWhole, WholeFile, NamesFit
<1> QED BY <1>1, <1>2, <1>3, <1>4

\* The reader's part of the invariant while no file, name or read changes.
LEMMA FilterKeepsReader ==
  ASSUME FilterInv, UNCHANGED <<disk, serial, cur, prev, whole, spoilt, rpc, handle, size, found>>
  PROVE  ReadsWhole'
BY DEF FilterInv, ReadsWhole, WholeFile

LEMMA InstallFilter ==
  ASSUME FilterInv, Crash!InstallWindowsCrashProfile PROVE FilterInv'
<1> USE DEF FilterInv, Crash!InstallWindowsCrashProfile, Crash!reader
<1>1. CrashTypes' BY DEF CrashTypes
<1>2. OneFilters' BY DEF OneFilters
<1>3. ReadsWhole' BY FilterKeepsReader
<1> QED BY <1>1, <1>2, <1>3, FilterKeepsFiles

LEMMA RefreshFilter ==
  ASSUME FilterInv, Crash!RefreshWindowsCrashProfileModules PROVE FilterInv'
<1> USE DEF FilterInv, Crash!RefreshWindowsCrashProfileModules, Crash!reader
<1>1. CrashTypes' BY DEF CrashTypes
<1>2. OneFilters' BY DEF OneFilters
<1>3. ReadsWhole' BY FilterKeepsReader
<1> QED BY <1>1, <1>2, <1>3, FilterKeepsFiles

\* test_and_set lets a thread in only when no other is inside.
LEMMA EnterFilter ==
  ASSUME FilterInv, NEW t \in Threads, Crash!HandleUnhandledException(t) PROVE FilterInv'
<1> USE DEF FilterInv, Crash!HandleUnhandledException, Crash!reader, Crash!Enters
<1>1. at' \in [Threads -> {"idle", "capture", "move", "leaving"} \cup Crash!Writing]
      /\ \A u \in Threads : u # t => at'[u] = at[u]
  BY DEF CrashTypes
<1>2. at[t] = "idle" /\ at'[t] \in {"capture", "leaving"}
      /\ (at'[t] = "capture" => ~active /\ active')
      /\ (at'[t] = "leaving" => active' = active)
  BY DEF CrashTypes
<1>3. CrashTypes' BY <1>1 DEF CrashTypes
<1>4. OneFilters' BY <1>1, <1>2, <1>3 DEF OneFilters, InFilter, CrashTypes
<1>5. ReadsWhole' BY FilterKeepsReader
<1>6. \A u \in Threads : at'[u] \in {"create", "write", "close"} => at'[u] = at[u]
  BY <1>1, <1>2
<1>7. \A u \in Threads : at'[u] \in {"create", "write"} <=> at[u] \in {"create", "write"}
  BY <1>1, <1>2
<1> QED BY <1>3, <1>4, <1>5, <1>6, <1>7, FilterKeepsFiles

LEMMA CaptureFilter ==
  ASSUME FilterInv, Crash!CrashAssumption, NEW t \in Threads, Crash!CaptureSafeFrames(t)
  PROVE  FilterInv'
<1> USE DEF FilterInv, Crash!CaptureSafeFrames, Crash!reader
<1>1. at' \in [Threads -> {"idle", "capture", "move", "leaving"} \cup Crash!Writing]
      /\ (\A u \in Threads : u # t => at'[u] = at[u]) /\ at'[t] = "move" /\ at[t] = "capture"
  BY DEF CrashTypes
<1>2. stack' \in [Threads -> Nat]
  <2>1. PICK walked \in 0..MaxUnwind : \E n \in 0..walked : stack' = [stack EXCEPT ![t] = n]
    OBVIOUS
  <2>2. PICK n \in 0..walked : stack' = [stack EXCEPT ![t] = n] BY <2>1
  <2>3. n \in Nat BY DEF Crash!CrashAssumption
  <2> QED BY <2>2, <2>3 DEF CrashTypes
<1>3. CrashTypes' BY <1>1, <1>2 DEF CrashTypes
<1>4. OneFilters' BY <1>1 DEF OneFilters, InFilter
<1>5. ReadsWhole' BY FilterKeepsReader
<1>6. \A u \in Threads : at'[u] \in {"create", "write", "close"} => at'[u] = at[u]
  BY <1>1
<1>7. \A u \in Threads : at'[u] \in {"create", "write"} <=> at[u] \in {"create", "write"}
  BY <1>1
<1> QED BY <1>3, <1>4, <1>5, <1>6, <1>7, FilterKeepsFiles

\* The complete current file becomes the previous one before its name is used again.
LEMMA MoveFilter ==
  ASSUME FilterInv, NEW t \in Threads, Crash!Move(t) PROVE FilterInv'
<1> USE DEF FilterInv, Crash!reader
<1>1. at[t] = "move" /\ UNCHANGED <<up, modules, stack, disk, serial, faults, whole, spoilt,
                                    rpc, handle, size, found, reads>>
  BY DEF Crash!Move
<1>2. \A u \in Threads : at[u] \in InFilter => u = t
  BY <1>1 DEF OneFilters, InFilter
<1>3. CASE at' = [at EXCEPT ![t] = "create"] /\ UNCHANGED active
           /\ \/ cur # 0 /\ prev' = cur /\ cur' = 0
              \/ cur = 0 /\ UNCHANGED <<cur, prev>>
  <2>1. at' \in [Threads -> {"idle", "capture", "move", "leaving"} \cup Crash!Writing]
        /\ (\A u \in Threads : u # t => at'[u] = at[u]) /\ at'[t] = "create"
    BY <1>3 DEF CrashTypes, Crash!Writing
  <2>2. CrashTypes' BY <1>1, <1>3, <2>1 DEF CrashTypes
  <2>3. OneFilters' BY <1>1, <1>2, <1>3, <2>1 DEF OneFilters, InFilter
  <2>4. \A u \in Threads : u # t => at'[u] \notin InFilter BY <1>2, <2>1
  <2>5. cur' = 0 /\ prev' = (IF cur # 0 THEN cur ELSE prev) BY <1>3
  <2>6. NamesFit' BY <2>1, <2>4, <2>5 DEF NamesFit, InFilter
  <2>7. WholeStays' BY <1>1 DEF WholeStays
  <2>8. \A u \in Threads : at[u] \notin {"create", "write"} BY <1>1, <1>2 DEF InFilter
  <2>9. RecordIsKept'
    BY <1>1, <2>1, <2>5, <2>8 DEF RecordIsKept, WholeFile, CrashTypes
  <2>10. CurrentIsWhole' BY <2>5 DEF CurrentIsWhole
  <2>11. ReadsWhole' BY <1>1, <2>5 DEF ReadsWhole, WholeFile
  <2> QED BY <2>2, <2>3, <2>6, <2>7, <2>9, <2>10, <2>11
<1>4. CASE at' = [at EXCEPT ![t] = "leaving"] /\ active' = FALSE /\ UNCHANGED <<cur, prev>>
  <2>1. at' \in [Threads -> {"idle", "capture", "move", "leaving"} \cup Crash!Writing]
        /\ (\A u \in Threads : u # t => at'[u] = at[u]) /\ at'[t] = "leaving"
    BY <1>4 DEF CrashTypes, Crash!Writing
  <2>2. CrashTypes' BY <1>1, <1>4, <2>1 DEF CrashTypes
  <2>3. OneFilters' BY <1>1, <1>2, <1>4, <2>1 DEF OneFilters, InFilter
  <2>4. ReadsWhole' BY <1>1, <1>4, FilterKeepsReader
  <2>5. \A u \in Threads : at'[u] \in {"create", "write", "close"} => at'[u] = at[u]
    BY <2>1
  <2>6. \A u \in Threads : at'[u] \in {"create", "write"} <=> at[u] \in {"create", "write"}
    BY <1>1, <2>1
  <2> QED BY <1>1, <1>4, <2>2, <2>3, <2>4, <2>5, <2>6, FilterKeepsFiles
<1>5. \/ /\ at' = [at EXCEPT ![t] = "create"] /\ UNCHANGED active
         /\ \/ cur # 0 /\ prev' = cur /\ cur' = 0
            \/ cur = 0 /\ UNCHANGED <<cur, prev>>
      \/ at' = [at EXCEPT ![t] = "leaving"] /\ active' = FALSE /\ UNCHANGED <<cur, prev>>
  BY Zenon DEF Crash!Move, Crash!Leave
<1> QED BY <1>3, <1>4, <1>5

\* The name is free, so that a new file is created and no old one is emptied.
LEMMA CreateFilter ==
  ASSUME FilterInv, NEW t \in Threads, Crash!Create(t) PROVE FilterInv'
<1> USE DEF FilterInv, Crash!reader
<1>1. at[t] = "create" /\ UNCHANGED <<up, modules, stack, prev, rpc, handle, size, found, reads, whole>>
  BY DEF Crash!Create
<1>2. \A u \in Threads : at[u] \in InFilter => u = t
  BY <1>1 DEF OneFilters, InFilter
<1>3. cur = 0 BY <1>1 DEF NamesFit
<1>4. CASE /\ serial' = serial + 1 /\ cur' = serial' /\ disk' = Append(disk, Crash!File("empty", 0))
           /\ spoilt' = TRUE /\ at' = [at EXCEPT ![t] = "write"] /\ UNCHANGED <<active, faults>>
  <2>1. at' \in [Threads -> {"idle", "capture", "move", "leaving"} \cup Crash!Writing]
        /\ (\A u \in Threads : u # t => at'[u] = at[u]) /\ at'[t] = "write"
    BY <1>4 DEF CrashTypes, Crash!Writing
  <2>2. Crash!File("empty", 0) \in Files BY DEF Crash!File, Files, Bodies
  <2>3. disk' \in Seq(Files) /\ Len(disk') = serial' /\ (\A f \in 1..serial : disk'[f] = disk[f])
        /\ disk'[serial'] = Crash!File("empty", 0)
    BY <1>4, <2>2, AppendProperties DEF CrashTypes
  <2>4. disk'[serial'].body = "empty" BY <2>3 DEF Crash!File
  <2>5. serial \in Nat /\ serial' = serial + 1 BY <1>4 DEF CrashTypes
  <2>6. found \in Seq(1..serial')
    <3>1. 1..serial \subseteq 1..serial' BY <2>5
    <3> QED BY <3>1, SeqMonotonic DEF CrashTypes
  <2>7. CrashTypes'
    <3>1. cur' \in 0..serial' /\ prev' \in 0..serial' /\ handle' \in 0..serial' /\ whole' \subseteq 1..serial'
      BY <1>1, <1>4, <2>5 DEF CrashTypes
    <3>2. up' \in BOOLEAN /\ active' \in BOOLEAN /\ spoilt' \in BOOLEAN
      BY <1>1, <1>4, Zenon DEF CrashTypes
    <3> QED BY <1>1, <1>4, <2>1, <2>3, <2>5, <2>6, <3>1, <3>2 DEF CrashTypes
  <2>8. OneFilters' BY <1>1, <1>2, <1>4, <2>1 DEF OneFilters, InFilter
  <2>9. \A u \in Threads : u # t => at'[u] \notin InFilter BY <1>2, <2>1
  <2>10. NamesFit'
    <3>1. cur' # prev' BY <1>1, <1>4, <2>5 DEF CrashTypes
    <3>2. cur' = serial' BY <1>4
    <3>4. disk'[cur'].body = "empty" /\ cur' # 0 BY <2>4, <2>5, <3>2
    <3>3. \A u \in Threads : at'[u] # "create" /\ at'[u] # "close" BY <2>1, <2>9 DEF InFilter
    <3> QED BY <3>1, <3>3, <3>4 DEF NamesFit
  <2>11. WholeStays'
    <3>1. serial' \notin whole BY <2>5 DEF CrashTypes
    <3>2. \A f \in 1..serial' : f \in 1..serial \/ f = serial' BY <2>5
    <3> QED BY <1>1, <2>3, <2>4, <3>1, <3>2 DEF WholeStays
  <2>12. \A f \in Nat : WholeFile(f) => f \in 1..serial' /\ disk'[f].body = "whole"
    BY <2>3, <2>5 DEF WholeFile
  <2>13. RecordIsKept'
    <3>1. prev \in Nat BY DEF CrashTypes
    <3>2. faults = 0 /\ whole # {} => WholeFile(prev) BY <1>1 DEF RecordIsKept
    <3> QED BY <1>1, <1>4, <2>1, <2>12, <3>1, <3>2 DEF RecordIsKept, WholeFile
  <2>14. CurrentIsWhole' BY <2>1 DEF CurrentIsWhole
  <2>15. ReadsWhole' BY <1>1, <1>4 DEF ReadsWhole
  <2> QED BY <2>7, <2>8, <2>10, <2>11, <2>13, <2>14, <2>15
<1>5. CASE /\ faults' = faults + 1 /\ at' = [at EXCEPT ![t] = "leaving"] /\ active' = FALSE
           /\ UNCHANGED <<disk, serial, cur, spoilt>>
  <2>1. at' \in [Threads -> {"idle", "capture", "move", "leaving"} \cup Crash!Writing]
        /\ (\A u \in Threads : u # t => at'[u] = at[u]) /\ at'[t] = "leaving"
    BY <1>5 DEF CrashTypes, Crash!Writing
  <2>2. CrashTypes'
    <3>1. faults' \in Nat BY <1>5 DEF CrashTypes
    <3>2. active' \in BOOLEAN BY <1>5, Zenon
    <3> QED BY <1>1, <1>5, <2>1, <3>1, <3>2 DEF CrashTypes
  <2>3. \A u \in Threads : at'[u] \notin InFilter BY <1>2, <2>1 DEF InFilter
  <2>4. OneFilters' BY <2>3 DEF OneFilters
  <2>5. NamesFit' BY <1>1, <1>5, <2>3 DEF NamesFit, InFilter
  <2>6. WholeStays' BY <1>1, <1>5 DEF WholeStays
  <2>7. RecordIsKept'
    <3>1. faults = 0 /\ whole # {} => WholeFile(prev) BY <1>1 DEF RecordIsKept
    <3> QED BY <1>1, <1>5, <3>1 DEF RecordIsKept, WholeFile, CrashTypes
  <2>8. CurrentIsWhole' BY <1>3, <1>5 DEF CurrentIsWhole
  <2>9. ReadsWhole' BY <1>1, <1>5, FilterKeepsReader
  <2> QED BY <2>2, <2>4, <2>5, <2>6, <2>7, <2>8, <2>9
<1>6. \/ /\ serial' = serial + 1 /\ cur' = serial' /\ disk' = Append(disk, Crash!File("empty", 0))
         /\ spoilt' = TRUE /\ at' = [at EXCEPT ![t] = "write"] /\ UNCHANGED <<active, faults>>
      \/ /\ faults' = faults + 1 /\ at' = [at EXCEPT ![t] = "leaving"] /\ active' = FALSE
         /\ UNCHANGED <<disk, serial, cur, spoilt>>
  BY <1>3, Zenon DEF Crash!Create, Crash!Leave, Crash!Fault
<1> QED BY <1>4, <1>5, <1>6

\* The file under the current name is complete, or is the one that was cut short.
LEMMA WriteFilter ==
  ASSUME FilterInv, Crash!CrashAssumption, NEW t \in Threads, Crash!Write(t) PROVE FilterInv'
<1> USE DEF FilterInv, Crash!reader
<1>1. at[t] = "write" /\ at' = [at EXCEPT ![t] = "close"]
      /\ UNCHANGED <<up, modules, active, stack, serial, cur, prev, rpc, handle, size, found, reads, spoilt>>
  BY DEF Crash!Write
<1>2. \A u \in Threads : at[u] \in InFilter => u = t
  BY <1>1 DEF OneFilters, InFilter
<1>3. cur \in 1..serial /\ cur # prev /\ disk[cur].body = "empty" /\ cur \notin whole
  BY <1>1 DEF NamesFit, CrashTypes, WholeStays
<1>4. at' \in [Threads -> {"idle", "capture", "move", "leaving"} \cup Crash!Writing]
      /\ (\A u \in Threads : u # t => at'[u] = at[u]) /\ at'[t] = "close"
  BY <1>1 DEF CrashTypes, Crash!Writing
<1>5. PICK b \in Bodies, n \in 0..MaxFrames :
        /\ disk' = [disk EXCEPT ![cur] = Crash!File(b, n)]
        /\ \/ b = "whole" /\ whole' = whole \cup {cur} /\ faults' = faults
           \/ b = "partial" /\ whole' = whole /\ faults' = faults + 1
  <2>1. CASE disk' = [disk EXCEPT ![cur] = Crash!File("whole", Crash!FormatWindowsCrashRecord(stack[t]))]
             /\ whole' = whole \cup {cur} /\ UNCHANGED faults
    <3>1. Crash!FormatWindowsCrashRecord(stack[t]) \in 0..MaxFrames
      BY DEF Crash!FormatWindowsCrashRecord, CrashTypes, Crash!CrashAssumption
    <3> QED BY <2>1, <3>1 DEF Bodies
  <2>2. CASE disk' = [disk EXCEPT ![cur] = Crash!File("partial", 0)]
             /\ whole' = whole /\ faults' = faults + 1
    <3>1. 0 \in 0..MaxFrames BY DEF Crash!CrashAssumption
    <3> QED BY <2>2, <3>1 DEF Bodies
  <2>3. \/ disk' = [disk EXCEPT ![cur] = Crash!File("whole", Crash!FormatWindowsCrashRecord(stack[t]))]
           /\ whole' = whole \cup {cur} /\ UNCHANGED faults
        \/ disk' = [disk EXCEPT ![cur] = Crash!File("partial", 0)] /\ whole' = whole /\ faults' = faults + 1
    BY Zenon DEF Crash!Write, Crash!Fault
  <2> QED BY <2>1, <2>2, <2>3
<1>6. disk' \in Seq(Files) /\ Len(disk') = serial
      /\ (\A f \in 1..serial : f # cur => disk'[f] = disk[f])
      /\ disk'[cur].body = b /\ disk'[cur].frames <= MaxFrames
  <2>1. Crash!File(b, n) \in Files BY <1>5 DEF Crash!File, Files
  <2>2. disk' \in Seq(Files) /\ Len(disk') = serial
        /\ (\A f \in 1..serial : disk'[f] = IF f = cur THEN Crash!File(b, n) ELSE disk[f])
    BY <1>3, <1>5, <2>1, ExceptSeq DEF CrashTypes
  <2> QED BY <1>3, <1>5, <2>2 DEF Crash!File, Crash!CrashAssumption
<1>7. CrashTypes'
  <2>1. whole' \subseteq 1..serial BY <1>3, <1>5 DEF CrashTypes
  <2>2. faults' \in Nat BY <1>5 DEF CrashTypes
  <2> QED BY <1>1, <1>4, <1>6, <2>1, <2>2 DEF CrashTypes
<1>8. \A u \in Threads : u # t => at'[u] \notin InFilter BY <1>2, <1>4
<1>9. OneFilters' BY <1>1, <1>4, <1>8 DEF OneFilters, InFilter
<1>10. NamesFit'
  <2>1. \A u \in Threads : at'[u] # "create" /\ at'[u] # "write" BY <1>4, <1>8 DEF InFilter
  <2>2. cur' # 0 /\ cur' # prev' BY <1>1, <1>3 DEF CrashTypes
  <2> QED BY <2>1, <2>2 DEF NamesFit
<1>11. \A f \in 1..serial : f # cur => (f \in whole' <=> f \in whole) BY <1>5
<1>12. cur \in whole' <=> b = "whole" BY <1>3, <1>5
<1>13. WholeStays' BY <1>1, <1>6, <1>11, <1>12 DEF WholeStays
<1>14. RecordIsKept'
  <2>1. faults = 0 /\ whole # {} => WholeFile(prev) BY <1>1 DEF RecordIsKept
  <2>2. WholeFile(prev) => prev' \in 1..serial' /\ disk'[prev'].body = "whole"
    BY <1>1, <1>3, <1>6 DEF WholeFile
  <2>3. CASE b = "whole"
    BY <1>1, <1>3, <1>5, <1>6, <2>3 , <1>4, <1>8 DEF RecordIsKept, WholeFile, InFilter
  <2>4. CASE b = "partial"
    BY <1>1, <1>5, <2>1, <2>2, <2>4, <1>4, <1>8 DEF RecordIsKept, WholeFile, InFilter, CrashTypes
  <2> QED BY <1>5, <2>3, <2>4
<1>15. CurrentIsWhole'
  <2>1. b = "partial" => faults' # 0 BY <1>5 DEF CrashTypes
  <2> QED BY <1>1, <1>3, <1>5, <1>6, <2>1 DEF CurrentIsWhole, WholeFile
<1>16. ReadsWhole'
  <2>1. rpc \in {"current", "previous"} => spoilt BY <1>3 DEF ReadsWhole, WholeFile
  <2>2. whole \subseteq whole' BY <1>5
  <2> QED BY <1>1, <2>1, <2>2 DEF ReadsWhole
<1> QED BY <1>7, <1>9, <1>10, <1>13, <1>14, <1>15, <1>16

LEMMA CloseFilter ==
  ASSUME FilterInv, NEW t \in Threads, Crash!Close(t) PROVE FilterInv'
<1> USE DEF FilterInv, Crash!Close, Crash!Leave, Crash!reader
<1>1. \A u \in Threads : at[u] \in InFilter => u = t
  BY DEF OneFilters, InFilter
<1>2. at' \in [Threads -> {"idle", "capture", "move", "leaving"} \cup Crash!Writing]
      /\ (\A u \in Threads : u # t => at'[u] = at[u]) /\ at'[t] = "leaving" /\ at[t] = "close"
  BY DEF CrashTypes, Crash!Writing
<1>3. CrashTypes' BY <1>2 DEF CrashTypes
<1>4. OneFilters' BY <1>1, <1>2 DEF OneFilters, InFilter
<1>5. ReadsWhole' BY FilterKeepsReader
<1>6. \A u \in Threads : at'[u] \in {"create", "write", "close"} => at'[u] = at[u]
  BY <1>2
<1>7. \A u \in Threads : at'[u] \in {"create", "write"} <=> at[u] \in {"create", "write"}
  BY <1>2
<1> QED BY <1>3, <1>4, <1>5, <1>6, <1>7, FilterKeepsFiles

\* What was being written stays as it is; the record before it is still there.
LEMMA EndsFilter ==
  ASSUME FilterInv, Crash!Ends PROVE FilterInv'
<1> USE DEF FilterInv, Crash!reader
<1>1. up' = FALSE /\ at' = [t \in Threads |-> "idle"]
      /\ UNCHANGED <<modules, active, stack, serial, cur, prev, rpc, handle, size, found, reads, whole, spoilt>>
  BY DEF Crash!Ends
<1>2. at' \in [Threads -> {"idle", "capture", "move", "leaving"} \cup Crash!Writing]
      /\ \A u \in Threads : at'[u] = "idle"
  BY <1>1
<1>3. OneFilters' BY <1>2 DEF OneFilters, InFilter
<1>4. up' \in BOOLEAN BY <1>1, Zenon
<1>5. CASE (\A t \in Threads : at[t] \notin Crash!Writing) /\ UNCHANGED <<faults, disk>>
  <2>1. CrashTypes' BY <1>1, <1>2, <1>4, <1>5 DEF CrashTypes
  <2>2. ReadsWhole' BY <1>1, <1>5, FilterKeepsReader
  <2> QED BY <1>1, <1>2, <1>3, <1>5, <2>1, <2>2, FilterKeepsFiles DEF Crash!Writing
<1>6. CASE /\ \E t \in Threads : at[t] \in Crash!Writing
           /\ faults' = faults + 1
           /\ \/ UNCHANGED disk
              \/ cur # 0 /\ disk[cur].body = "empty" /\ disk' = [disk EXCEPT ![cur].body = "partial"]
  <2>1. disk' \in Seq(Files) /\ Len(disk') = serial
        /\ \A f \in 1..serial : \/ disk'[f] = disk[f]
                                \/ /\ f = cur /\ disk[f].body = "empty" /\ disk'[f].body = "partial"
                                   /\ ~UNCHANGED disk
    <3>1. CASE UNCHANGED disk BY <3>1 DEF CrashTypes
    <3>2. CASE cur # 0 /\ disk[cur].body = "empty" /\ disk' = [disk EXCEPT ![cur].body = "partial"]
      <4>1. cur \in 1..serial /\ disk[cur] \in Files BY <3>2 DEF CrashTypes
      <4>2. [disk[cur] EXCEPT !.body = "partial"] \in Files BY <4>1 DEF Files, Bodies
      <4>3. disk' = [disk EXCEPT ![cur] = [disk[cur] EXCEPT !.body = "partial"]] BY <3>2, <4>1 DEF CrashTypes
      <4>4. disk' \in Seq(Files) /\ Len(disk') = serial
            /\ (\A f \in 1..serial : disk'[f] = IF f = cur THEN [disk[cur] EXCEPT !.body = "partial"] ELSE disk[f])
        BY <4>1, <4>2, <4>3, ExceptSeq DEF CrashTypes
      <4>5. disk'[cur].body = "partial" BY <4>1, <4>4 DEF Files
      <4>6. disk' # disk BY <3>2, <4>5
      <4> QED BY <3>2, <4>4, <4>5, <4>6
    <3> QED BY <1>6, <3>1, <3>2
  <2>2. CrashTypes'
    <3>1. faults' \in Nat BY <1>6 DEF CrashTypes
    <3> QED BY <1>1, <1>2, <1>4, <2>1, <3>1 DEF CrashTypes
  <2>3. NamesFit' BY <1>1, <1>2 DEF NamesFit
  <2>4. \A f \in 1..serial : disk'[f].body = "whole" <=> disk[f].body = "whole" BY <2>1
  <2>5. WholeStays'
    <3>1. \A f \in 1..serial : disk'[f].body = "whole" => disk'[f] = disk[f] BY <2>1
    <3> QED BY <1>1, <2>4, <3>1 DEF WholeStays
  <2>6. \A f : WholeFile(f) <=> (f \in 1..serial' /\ disk'[f].body = "whole")
    BY <1>1, <2>4 DEF WholeFile
  <2>7. RecordIsKept'
    <3>1. whole # {} /\ faults = 0 => WholeFile(cur) \/ WholeFile(prev) BY DEF RecordIsKept
    <3>2. faults \in Nat BY DEF CrashTypes
    <3> QED BY <1>1, <1>2, <1>6, <2>6, <3>1, <3>2 DEF RecordIsKept, WholeFile
  <2>8. CurrentIsWhole' BY <1>6 DEF CurrentIsWhole, CrashTypes
  <2>9. ReadsWhole' BY <1>1, <2>6, <2>1 DEF ReadsWhole, WholeFile
  <2> QED BY <1>3, <2>2, <2>3, <2>5, <2>7, <2>8, <2>9
<1>7. \/ (\A t \in Threads : at[t] \notin Crash!Writing) /\ UNCHANGED <<faults, disk>>
      \/ /\ \E t \in Threads : at[t] \in Crash!Writing
         /\ faults' = faults + 1
         /\ \/ UNCHANGED disk
            \/ cur # 0 /\ disk[cur].body = "empty" /\ disk' = [disk EXCEPT ![cur].body = "partial"]
  BY Zenon DEF Crash!Ends, Crash!Fault
<1> QED BY <1>5, <1>6, <1>7

-----------------------------------------------------------------------------
(* Its reader *)

LEMMA ReadStartFilter == ASSUME FilterInv, Crash!ReadStart PROVE FilterInv'
<1> USE DEF FilterInv, Crash!ReadStart, Crash!crash
<1>1. CrashTypes'
  <2>1. <<>> \in Seq(1..serial) BY EmptySeq
  <2>2. spoilt' \in BOOLEAN BY Zenon DEF Crash!Incomplete
  <2> QED BY <2>1, <2>2 DEF CrashTypes
<1>2. OneFilters' BY DEF OneFilters
<1>3. ReadsWhole'
  <2>1. ~spoilt' => ~Crash!Incomplete(cur) /\ ~Crash!Incomplete(prev) OBVIOUS
  <2>2. handle = 0 /\ handle' = 0 BY DEF ReadsWhole
  <2>3. Len(found') = 0 BY EmptySeq
  <2>4. ~spoilt' => (cur # 0 => WholeFile(cur)) /\ (prev # 0 => WholeFile(prev))
    BY <2>1 DEF WholeFile, Crash!Incomplete, CrashTypes
  <2> QED BY <2>2, <2>3, <2>4 DEF ReadsWhole, WholeFile
<1> QED BY <1>1, <1>2, <1>3, FilterKeepsFiles

LEMMA OpenFilter == ASSUME FilterInv, Crash!Open PROVE FilterInv'
<1> USE DEF FilterInv, Crash!crash
<1>1. /\ rpc \in {"current", "previous"} /\ handle = 0
      /\ UNCHANGED <<found, reads, disk, cur, prev, faults, whole, spoilt, up, modules, active, at, stack, serial>>
  BY DEF Crash!Open
<1> DEFINE f == IF rpc = "current" THEN cur ELSE prev
<1>2. \/ f = 0 /\ rpc' \in {"previous", "ok"} /\ UNCHANGED <<handle, size>>
      \/ f # 0 /\ disk[f].body = "empty" /\ rpc' = "failed" /\ UNCHANGED <<handle, size>>
      \/ f # 0 /\ disk[f].body # "empty" /\ handle' = f /\ size' = disk[f].body /\ UNCHANGED rpc
  BY DEF Crash!Open, Crash!Missing, Crash!Following
<1>3. f \in 0..serial BY DEF CrashTypes
<1>4. f # 0 => disk[f].body \in Bodies
  <2>1. f # 0 => f \in 1..serial BY <1>3 DEF CrashTypes
  <2>2. \A g \in 1..serial : disk[g] \in Files BY DEF CrashTypes
  <2>3. \A g \in 1..serial : disk[g].body \in Bodies BY <2>2 DEF Files
  <2> QED BY <2>1, <2>3
<1>5. ~spoilt /\ f # 0 => WholeFile(f) BY <1>1 DEF ReadsWhole
<1>6. CrashTypes'
  <2>1. rpc' \in {"idle", "current", "previous", "ok", "failed"} BY <1>1, <1>2
  <2>2. handle' \in 0..serial
    <3>1. 0 \in 0..serial BY DEF CrashTypes
    <3>2. handle' = 0 \/ handle' = f BY <1>1, <1>2
    <3> QED BY <1>3, <3>1, <3>2
  <2>3. size' \in Bodies BY <1>2, <1>4 DEF CrashTypes
  <2> QED BY <1>1, <2>1, <2>2, <2>3 DEF CrashTypes
<1>7. OneFilters' BY <1>1 DEF OneFilters
<1>8. ReadsWhole'
  <2>1. handle' # 0 => handle' = f /\ f # 0 /\ rpc' = rpc /\ size' = disk[f].body BY <1>1, <1>2
  <2>2. ~spoilt => (cur # 0 => WholeFile(cur)) /\ (prev # 0 => WholeFile(prev)) BY <1>1 DEF ReadsWhole
  <2>3. rpc' = "failed" => spoilt BY <1>1, <1>2, <1>5 DEF WholeFile
  <2>4. \A i \in 1..Len(found) : found[i] \in whole BY DEF ReadsWhole
  <2> HIDE DEF f
  <2>5. handle' # 0 /\ ~spoilt' => handle' \in 1..serial' /\ disk'[handle'].body = "whole" /\ size' = "whole"
    BY <1>1, <1>5, <2>1 DEF WholeFile
  <2> QED BY <1>1, <2>1, <2>2, <2>3, <2>4, <2>5 DEF ReadsWhole, WholeFile
<1> QED BY <1>1, <1>6, <1>7, <1>8, FilterKeepsFiles

\* A record that is reported was complete when it was read.
LEMMA ReadFilter == ASSUME FilterInv, Crash!Read PROVE FilterInv'
<1> USE DEF FilterInv, Crash!crash
<1>1. /\ handle # 0 /\ handle' = 0
      /\ UNCHANGED <<size, reads, disk, cur, prev, faults, whole, spoilt, up, modules, active, at, stack, serial>>
  BY DEF Crash!Read
<1>2. handle \in 1..serial /\ rpc \in {"current", "previous"} BY <1>1 DEF CrashTypes, ReadsWhole
<1>3. \/ /\ Crash!Accepts(disk[handle]) /\ found' = Append(found, handle)
         /\ rpc' \in {"previous", "ok"}
      \/ ~Crash!Accepts(disk[handle]) /\ rpc' = "failed" /\ UNCHANGED found
  BY DEF Crash!Read, Crash!Following
<1>4. Crash!Accepts(disk[handle]) => handle \in whole
  BY <1>2 DEF Crash!Accepts, Crash!ProjectWindowsCrashRecord, WholeStays
<1>5. ~spoilt => Crash!Accepts(disk[handle])
  BY <1>1, <1>2 DEF Crash!Accepts, Crash!ProjectWindowsCrashRecord, WholeStays, ReadsWhole, WholeFile
<1>6. found' \in Seq(1..serial) /\ \A i \in 1..Len(found') : found'[i] \in whole
  <2>1. CASE found' = Append(found, handle) /\ handle \in whole
    <3>1. found \in Seq(1..serial) /\ \A i \in 1..Len(found) : found[i] \in whole BY DEF CrashTypes, ReadsWhole
    <3>2. /\ found' \in Seq(1..serial) /\ Len(found') = Len(found) + 1 /\ found'[Len(found) + 1] = handle
          /\ \A i \in 1..Len(found) : found'[i] = found[i]
      BY <1>2, <2>1, <3>1, AppendProperties
    <3>3. Len(found) \in Nat BY <3>1, LenProperties
    <3>4. \A i \in 1..Len(found') : i \in 1..Len(found) \/ i = Len(found) + 1 BY <3>2, <3>3
    <3> QED BY <2>1, <3>1, <3>2, <3>4
  <2>2. CASE UNCHANGED found BY <2>2 DEF CrashTypes, ReadsWhole
  <2> QED BY <1>3, <1>4, <2>1, <2>2
<1>7. CrashTypes'
  <2>1. rpc' \in {"idle", "current", "previous", "ok", "failed"} BY <1>3
  <2>2. handle' \in 0..serial' BY <1>1 DEF CrashTypes
  <2> QED BY <1>1, <1>6, <2>1, <2>2 DEF CrashTypes
<1>8. OneFilters' BY <1>1 DEF OneFilters
<1>9. ReadsWhole'
  <2>1. ~spoilt => (cur # 0 => WholeFile(cur)) /\ (prev # 0 => WholeFile(prev)) BY <1>2 DEF ReadsWhole
  <2>2. rpc' = "failed" => spoilt' BY <1>1, <1>3, <1>5
  <2> QED BY <1>1, <1>6, <2>1, <2>2 DEF ReadsWhole, WholeFile
<1> QED BY <1>1, <1>7, <1>8, <1>9, FilterKeepsFiles

LEMMA ReportedFilter == ASSUME FilterInv, Crash!Reported PROVE FilterInv'
<1> USE DEF FilterInv, Crash!Reported, Crash!crash
<1>1. CrashTypes'
  <2>1. <<>> \in Seq(1..serial) BY EmptySeq
  <2> QED BY <2>1 DEF CrashTypes, Bodies
<1>2. OneFilters' BY DEF OneFilters
<1>3. ReadsWhole'
  <2>1. handle' = 0 /\ rpc' = "idle" BY DEF ReadsWhole
  <2>2. Len(found') = 0 BY EmptySeq
  <2> QED BY <2>1, <2>2 DEF ReadsWhole
<1> QED BY <1>1, <1>2, <1>3, FilterKeepsFiles

LEMMA FilterUnchanged == ASSUME FilterInv, UNCHANGED Crash!vars PROVE FilterInv'
<1> USE DEF FilterInv, Crash!vars
<1>1. CrashTypes' BY DEF CrashTypes
<1>2. OneFilters' BY DEF OneFilters
<1>3. ReadsWhole' BY FilterKeepsReader
<1> QED BY <1>1, <1>2, <1>3, FilterKeepsFiles

LEMMA FilterStep == ASSUME FilterInv, Crash!CrashAssumption, Crash!Next PROVE FilterInv'
<1>1. CASE Crash!InstallWindowsCrashProfile \/ Crash!RefreshWindowsCrashProfileModules \/ Crash!Ends
  BY <1>1, InstallFilter, RefreshFilter, EndsFilter
<1>2. CASE \E t \in Threads : \/ Crash!HandleUnhandledException(t) \/ Crash!CaptureSafeFrames(t)
                              \/ Crash!Move(t) \/ Crash!Create(t) \/ Crash!Write(t) \/ Crash!Close(t)
  BY <1>2, EnterFilter, CaptureFilter, MoveFilter, CreateFilter, WriteFilter, CloseFilter
<1>3. CASE Crash!ReadStart \/ Crash!Open \/ Crash!Read \/ Crash!Reported
  BY <1>3, ReadStartFilter, OpenFilter, ReadFilter, ReportedFilter
<1> QED BY <1>1, <1>2, <1>3 DEF Crash!Next

\* Crashing threads, interrupted writes, ends of the process and the reader, in
\* whatever order: one failing write never costs the last complete record, a read
\* fails only over an incomplete file, and what it reports is complete and within
\* the schema's bounds (HandleUnhandledException and ReadWindowsCrashDiagnostics).
THEOREM CrashesReported ==
  ASSUME Crash!CrashAssumption PROVE Crash!Spec => []CrashesAreReported
<1>1. Crash!Init => FilterInv BY FilterInit
<1>2. FilterInv /\ [Crash!Next]_(Crash!vars) => FilterInv'
  BY FilterStep, FilterUnchanged
<1>3. FilterInv => CrashesAreReported BY FilterReports
<1> QED BY <1>1, <1>2, <1>3, PTL DEF Crash!Spec

-----------------------------------------------------------------------------
(* The launches of a session *)

Places == {"idle", "starting", "leaving", "looking", "sending", "creating", "unwinding",
           "running", "closing", "quitting", "closed", "succeeded", "failed"}
Owning == {"starting", "creating", "running", "closing", "quitting"}
Holding == Owning \cup {"leaving", "looking", "sending"}

LaunchTypes ==
  /\ pc \in [Procs -> Places] /\ hidden \in [Procs -> BOOLEAN]
  /\ sent \in [Procs -> Procs \cup {"none", "handled"}]
  /\ mutex \subseteq Procs /\ windows \subseteq Procs

\* A launch has a handle of the mutex from its start to its end, and one of those
\* that have one found the name free.
MutexFits ==
  /\ \A p \in Procs : p \in mutex <=> pc[p] \in Holding
  /\ \A p, q \in Procs : pc[p] \in Owning /\ pc[q] \in Owning => p = q

\* What the window keeps of links: consumed once, and then known to be.
LinksFit(u) ==
  /\ DOMAIN u = {"owner", "pending", "channel", "toDart", "dart", "buffer", "initial", "held",
                 "streamed", "processed", "consuming", "newest", "dropped", "consumed"}
  /\ u.owner \in Procs \cup {"none"}
  /\ u.consumed \in [Links -> {0, 1}]
  /\ \A l \in Links : u.consumed[l] = 1 => l \in u.processed

\* A launch that forwards nothing is a login launch.
LeavesHidden == \A p \in Procs : pc[p] = "leaving" => hidden[p]

LaunchInv ==
  /\ LaunchTypes /\ MutexFits /\ LinksFit(ui) /\ LeavesHidden
  /\ Activation!SuccessWasHandled /\ Activation!ActsOnEncoded

LEMMA LaunchCounts == ASSUME NEW S PROVE Activation!Cardinality(S) = Cardinality(S)
  BY DEF Activation!Cardinality, Cardinality

LEMMA LaunchReports == ASSUME LaunchInv PROVE ActivationIsExact
<1> USE DEF LaunchInv
<1>1. Activation!TypeOK
  BY DEF LaunchTypes, Places, LinksFit, Activation!TypeOK, Activation!None
<1>2. Activation!OneUi
  <2> DEFINE S == {p \in Procs : pc[p] \in {"starting", "creating", "running", "closing"}}
  <2>1. \A p, q \in S : p = q BY DEF MutexFits, Owning
  <2>2. CASE S = {} BY <2>2, FS_EmptySet, LaunchCounts DEF Activation!OneUi
  <2>3. CASE S # {}
    <3>1. PICK p : p \in S BY <2>3
    <3>2. S = {p} BY <2>1, <3>1
    <3>3. Cardinality(S) = 1 BY <3>2, FS_Singleton
    <3> QED BY <3>3, LaunchCounts DEF Activation!OneUi
  <2> QED BY <2>2, <2>3
<1>3. Activation!ConsumedOnce BY DEF LinksFit, Activation!ConsumedOnce
<1> QED BY <1>1, <1>2, <1>3 DEF ActivationIsExact, Activation!ActivationIsExact

\* A new window has consumed nothing.
LEMMA NewWindowFits ==
  ASSUME NEW l, NEW o \in Procs \cup {"none"} PROVE LinksFit(Activation!NewUi(l, o))
BY DEF LinksFit, Activation!NewUi

LEMMA LaunchInit == ASSUME Activation!Init PROVE LaunchInv
<1> USE DEF Activation!Init, Activation!None
<1>1. LaunchTypes BY DEF LaunchTypes, Places
<1>2. MutexFits BY DEF MutexFits, Holding, Owning
<1>3. LinksFit(ui) BY NewWindowFits DEF Activation!NoUi
<1>4. LeavesHidden /\ Activation!SuccessWasHandled /\ Activation!ActsOnEncoded
  BY DEF LeavesHidden, Activation!SuccessWasHandled, Activation!ActsOnEncoded
<1> QED BY <1>1, <1>2, <1>3, <1>4 DEF LaunchInv

\* A step of a launch that owns nothing more than before.
LEMMA LaunchMoves ==
  ASSUME LaunchInv, NEW p \in Procs, NEW s \in Places, pc' = [pc EXCEPT ![p] = s],
         mutex' = mutex \/ mutex' = mutex \cup {p} \/ mutex' = mutex \ {p},
         p \in mutex' <=> s \in Holding,
         s \in Owning => pc[p] \in Owning \/ mutex = {}
  PROVE  /\ pc' \in [Procs -> Places] /\ mutex' \subseteq Procs
         /\ pc'[p] = s /\ \A q \in Procs : q # p => pc'[q] = pc[q]
         /\ MutexFits'
<1> USE DEF LaunchInv
<1>1. pc' \in [Procs -> Places] /\ pc'[p] = s /\ \A q \in Procs : q # p => pc'[q] = pc[q]
  BY DEF LaunchTypes
<1>2. mutex' \subseteq Procs /\ \A q \in Procs : q # p => (q \in mutex' <=> q \in mutex)
  BY DEF LaunchTypes
<1>3. \A q \in Procs : q \in mutex' <=> pc'[q] \in Holding BY <1>1, <1>2 DEF MutexFits
<1>4. ASSUME NEW q \in Procs, NEW r \in Procs, pc'[q] \in Owning, pc'[r] \in Owning PROVE q = r
  <2>1. \A a \in Procs : pc[a] \in Owning => a \in mutex BY DEF MutexFits, Holding
  <2>2. CASE mutex = {} BY <1>1, <1>4, <2>1, <2>2
  <2>3. CASE mutex # {}
    <3>1. pc[q] \in Owning /\ pc[r] \in Owning BY <1>1, <1>4, <2>3
    <3> QED BY <3>1 DEF MutexFits
  <2> QED BY <2>2, <2>3
<1> QED BY <1>1, <1>2, <1>3, <1>4 DEF MutexFits

LEMMA LaunchKept ==
  ASSUME LaunchInv, NEW p \in Procs, Activation!Launch(p) PROVE LaunchInv'
<1> USE DEF LaunchInv
<1>1. UNCHANGED <<windows, sent, acted, ui>> /\ pc[p] = "idle" BY DEF Activation!Launch
<1>2. PICK h \in BOOLEAN, s \in {"starting", "leaving", "looking", "failed"} :
        /\ hidden' = [hidden EXCEPT ![p] = h] /\ pc' = [pc EXCEPT ![p] = s]
        /\ s = "starting" => mutex = {}
        /\ s = "leaving" => h
        /\ mutex' = IF s \in {"starting", "leaving", "looking"} THEN mutex \cup {p} ELSE mutex
  <2>1. PICK a \in Activation!ArgLists :
          LET h == Activation!FindAcquisitionUri(a) = Activation!None /\ Activation!HasArgument(a, "--startup")
          IN /\ hidden' = [hidden EXCEPT ![p] = h]
             /\ \/ mutex = {} /\ mutex' = mutex \cup {p} /\ Activation!Go(p, "starting")
                \/ h /\ mutex' = mutex \cup {p} /\ Activation!Go(p, "leaving")
                \/ mutex' = mutex \cup {p} /\ Activation!Go(p, "looking")
                \/ Activation!Go(p, "failed") /\ UNCHANGED mutex
    BY DEF Activation!Launch, Activation!AlreadyExists
  <2> DEFINE h == Activation!FindAcquisitionUri(a) = Activation!None /\ Activation!HasArgument(a, "--startup")
  <2>2. h \in BOOLEAN OBVIOUS
  <2>3. /\ hidden' = [hidden EXCEPT ![p] = h]
        /\ \/ mutex = {} /\ mutex' = mutex \cup {p} /\ Activation!Go(p, "starting")
           \/ h /\ mutex' = mutex \cup {p} /\ Activation!Go(p, "leaving")
           \/ mutex' = mutex \cup {p} /\ Activation!Go(p, "looking")
           \/ Activation!Go(p, "failed") /\ UNCHANGED mutex
    BY <2>1
  <2> HIDE DEF h
  <2> QED BY <2>2, <2>3 DEF Activation!Go
<1>3. p \notin mutex BY <1>1 DEF MutexFits, Holding, Owning
<1>4. p \in mutex' <=> s \in Holding BY <1>2, <1>3 DEF Holding, Owning
<1>5. s \in Places /\ (s \in Owning => mutex = {}) BY <1>2 DEF Places, Owning
<1>6. /\ pc' \in [Procs -> Places] /\ mutex' \subseteq Procs /\ pc'[p] = s
      /\ (\A q \in Procs : q # p => pc'[q] = pc[q]) /\ MutexFits'
  BY <1>2, <1>4, <1>5, LaunchMoves
<1>7. hidden' \in [Procs -> BOOLEAN] /\ hidden'[p] = h /\ \A q \in Procs : q # p => hidden'[q] = hidden[q]
  BY <1>2 DEF LaunchTypes
<1>8. LaunchTypes' BY <1>1, <1>6, <1>7 DEF LaunchTypes
<1>9. Activation!SuccessWasHandled' /\ LeavesHidden'
  BY <1>1, <1>2, <1>6, <1>7 DEF Activation!SuccessWasHandled, LeavesHidden
<1>10. LinksFit(ui)' /\ Activation!ActsOnEncoded' BY <1>1 DEF Activation!ActsOnEncoded, LinksFit
<1> QED BY <1>6, <1>8, <1>9, <1>10

\* Steps of a launch that leave the window as it is.
LEMMA LaunchLooks ==
  ASSUME LaunchInv, NEW p \in Procs,
         \/ Activation!LoginLeaves(p) \/ Activation!FindWindow(p) \/ Activation!GiveUp(p)
         \/ Activation!Unanswered(p) \/ Activation!ForwardActivation(p) \/ Activation!Unwind(p) \/ Activation!Quit(p)
  PROVE  LaunchInv'
<1> USE DEF LaunchInv, Activation!args, Activation!Go, Activation!Leave
<1>1. UNCHANGED <<hidden, acted, ui>>
  BY Zenon DEF Activation!LoginLeaves, Activation!FindWindow, Activation!GiveUp, Activation!Unanswered,
     Activation!ForwardActivation, Activation!Unwind, Activation!Quit
<1>2. LinksFit(ui)' /\ Activation!ActsOnEncoded' BY <1>1 DEF Activation!ActsOnEncoded, LinksFit
<1>3. CASE UNCHANGED <<pc, sent, mutex, windows>>
  BY <1>1, <1>2, <1>3 DEF LaunchTypes, MutexFits, LeavesHidden, Activation!SuccessWasHandled
<1>4. ASSUME NEW s \in Places, pc' = [pc EXCEPT ![p] = s], pc[p] \notin {"succeeded"},
             windows' \subseteq windows,
             NEW v \in Procs \cup {"none", "handled"}, sent' = [sent EXCEPT ![p] = v],
             s = "succeeded" => v = "handled" \/ hidden[p], s # "leaving",
             mutex' = mutex \/ mutex' = mutex \cup {p} \/ mutex' = mutex \ {p},
             p \in mutex' <=> s \in Holding,
             s \notin Owning
      PROVE  LaunchInv'
  <2>1. /\ pc' \in [Procs -> Places] /\ mutex' \subseteq Procs /\ pc'[p] = s
        /\ (\A q \in Procs : q # p => pc'[q] = pc[q]) /\ MutexFits'
    BY <1>4, LaunchMoves
  <2>2. sent' \in [Procs -> Procs \cup {"none", "handled"}] /\ sent'[p] = v
        /\ \A q \in Procs : q # p => sent'[q] = sent[q]
    BY <1>4 DEF LaunchTypes
  <2>3. LaunchTypes' BY <1>1, <1>4, <2>1, <2>2 DEF LaunchTypes
  <2>4. Activation!SuccessWasHandled' /\ LeavesHidden'
    BY <1>1, <1>4, <2>1, <2>2 DEF Activation!SuccessWasHandled, LeavesHidden
  <2> QED BY <1>2, <2>1, <2>3, <2>4
<1>5. sent = [sent EXCEPT ![p] = sent[p]] /\ sent[p] \in Procs \cup {"none", "handled"} BY DEF LaunchTypes
<1>6. p \in mutex <=> pc[p] \in Holding BY DEF MutexFits
<1>7. CASE Activation!FindWindow(p)
  <2>1. CASE windows = {} BY <1>3, <1>7, <2>1 DEF Activation!FindWindow
  <2>2. CASE windows # {}
    <3>1. PICK w \in windows : sent' = [sent EXCEPT ![p] = w] BY <1>7, <2>2 DEF Activation!FindWindow
    <3>2. /\ pc[p] = "looking" /\ pc' = [pc EXCEPT ![p] = "sending"] /\ UNCHANGED <<mutex, windows>>
      BY <1>7, <2>2 DEF Activation!FindWindow
    <3>3. w \in Procs \cup {"none", "handled"} BY <3>1 DEF LaunchTypes
    <3>4. "sending" \in Places /\ "sending" \notin Owning /\ p \in mutex /\ "sending" \in Holding
      BY <1>6, <3>2 DEF Places, Owning, Holding
    <3> QED BY <1>4, <3>1, <3>2, <3>3, <3>4
  <2> QED BY <2>1, <2>2
<1>8. "failed" \in Places /\ "failed" \notin Holding /\ "failed" \notin Owning
      /\ "succeeded" \in Places /\ "succeeded" \notin Holding /\ "succeeded" \notin Owning
      /\ "closed" \in Places /\ "closed" \notin Holding /\ "closed" \notin Owning
  BY DEF Places, Owning, Holding
<1>9. CASE Activation!GiveUp(p)
  <2>1. /\ pc[p] = "looking" /\ pc' = [pc EXCEPT ![p] = "failed"] /\ mutex' = mutex \ {p}
        /\ UNCHANGED <<windows, sent>>
    BY <1>9 DEF Activation!GiveUp
  <2> QED BY <1>4, <1>5, <1>8, <2>1
<1>10. CASE Activation!Unanswered(p)
  <2>1. /\ pc[p] = "sending" /\ pc' = [pc EXCEPT ![p] = "failed"] /\ mutex' = mutex \ {p}
        /\ UNCHANGED windows /\ (sent' = sent \/ sent' = [sent EXCEPT ![p] = "none"])
    BY <1>10, Zenon DEF Activation!Unanswered, Activation!None
  <2> QED BY <1>4, <1>5, <1>8, <2>1
<1>11. CASE Activation!ForwardActivation(p)
  <2>1. /\ pc[p] = "sending" /\ pc' = [pc EXCEPT ![p] = "succeeded"] /\ mutex' = mutex \ {p}
        /\ UNCHANGED <<windows, sent>> /\ sent[p] = "handled"
    BY <1>11 DEF Activation!ForwardActivation, Activation!Answered
  <2> QED BY <1>4, <1>5, <1>8, <2>1
<1>12. CASE Activation!Unwind(p)
  <2>1. /\ pc[p] = "unwinding" /\ pc' = [pc EXCEPT ![p] = "failed"] /\ mutex' = mutex
        /\ UNCHANGED sent /\ windows' = windows \ {p}
    BY <1>12 DEF Activation!Unwind
  <2>2. p \notin mutex BY <1>6, <2>1 DEF Holding, Owning
  <2> QED BY <1>4, <1>5, <1>8, <2>1, <2>2
<1>13. CASE Activation!Quit(p)
  <2>1. /\ pc[p] = "quitting" /\ pc' = [pc EXCEPT ![p] = "closed"] /\ mutex' = mutex \ {p}
        /\ UNCHANGED <<windows, sent>>
    BY <1>13 DEF Activation!Quit
  <2> QED BY <1>4, <1>5, <1>8, <2>1
<1>14. CASE Activation!LoginLeaves(p)
  <2>1. /\ pc[p] = "leaving" /\ pc' = [pc EXCEPT ![p] = "succeeded"] /\ mutex' = mutex \ {p}
        /\ UNCHANGED <<windows, sent>>
    BY <1>14 DEF Activation!LoginLeaves
  <2>2. hidden[p] BY <2>1 DEF LeavesHidden
  <2> QED BY <1>4, <1>5, <1>8, <2>1, <2>2
<1> QED BY <1>7, <1>9, <1>10, <1>11, <1>12, <1>13, <1>14

\* The window's own steps: it changes owner only by being made or destroyed.
LEMMA WindowMoves ==
  ASSUME LaunchInv, NEW p \in Procs,
         \/ Activation!CreateWindow(p) \/ Activation!OnCreate(p) \/ Activation!Destroy(p)
         \/ Activation!DestroyWindow(p)
  PROVE  LaunchInv'
<1> USE DEF LaunchInv, Activation!args, Activation!Go, Activation!Leave
<1>1. UNCHANGED <<hidden, acted, sent>>
  BY Zenon DEF Activation!CreateWindow, Activation!OnCreate, Activation!Destroy, Activation!DestroyWindow
<1>2. ASSUME NEW s \in Places, pc' = [pc EXCEPT ![p] = s], pc[p] \in Owning, s # "succeeded",
             windows' = windows \/ windows' = windows \cup {p} \/ windows' = windows \ {p},
             mutex' = IF s \in Owning THEN mutex ELSE mutex \ {p},
             s \notin {"leaving", "looking", "sending"}, LinksFit(ui')
      PROVE  LaunchInv'
  <2>1. p \in mutex BY <1>2 DEF MutexFits, Holding
  <2>2. p \in mutex' <=> s \in Holding BY <1>2, <2>1 DEF Holding
  <2>3. /\ pc' \in [Procs -> Places] /\ mutex' \subseteq Procs /\ pc'[p] = s
        /\ (\A q \in Procs : q # p => pc'[q] = pc[q]) /\ MutexFits'
    BY <1>2, <2>2, LaunchMoves
  <2>4. windows' \subseteq Procs BY <1>2 DEF LaunchTypes
  <2>5. LaunchTypes' BY <1>1, <2>3, <2>4 DEF LaunchTypes
  <2>6. Activation!SuccessWasHandled' /\ LeavesHidden'
    BY <1>1, <1>2, <2>3 DEF Activation!SuccessWasHandled, LeavesHidden
  <2>7. LinksFit(ui)' BY <1>2 DEF LinksFit
  <2>8. Activation!ActsOnEncoded' BY <1>1 DEF Activation!ActsOnEncoded
  <2> QED BY <2>3, <2>5, <2>6, <2>7, <2>8
<1>3. LinksFit(Activation!NoUi) BY NewWindowFits DEF Activation!NoUi, Activation!None
<1>4. CASE Activation!CreateWindow(p)
  <2>1. pc[p] = "starting" /\ \/ /\ windows' = windows \cup {p} /\ pc' = [pc EXCEPT ![p] = "creating"]
                                 /\ ui' = Activation!NewUi(link[p], p) /\ mutex' = mutex
                              \/ /\ pc' = [pc EXCEPT ![p] = "failed"] /\ mutex' = mutex \ {p}
                                 /\ windows' = windows /\ ui' = ui
    BY <1>4, Zenon DEF Activation!CreateWindow
  <2>2. LinksFit(ui') BY <2>1, NewWindowFits
  <2>3. CASE pc' = [pc EXCEPT ![p] = "creating"] /\ mutex' = mutex /\ windows' = windows \cup {p}
    BY <1>2, <2>1, <2>2, <2>3 DEF Places, Owning
  <2>4. CASE pc' = [pc EXCEPT ![p] = "failed"] /\ mutex' = mutex \ {p} /\ windows' = windows
    BY <1>2, <2>1, <2>2, <2>4 DEF Places, Owning
  <2> QED BY <2>1, <2>3, <2>4
<1>5. CASE Activation!OnCreate(p)
  <2>1. pc[p] = "creating" /\ windows' = windows
        /\ \/ pc' = [pc EXCEPT ![p] = "running"] /\ ui' = [ui EXCEPT !.channel = TRUE] /\ mutex' = mutex
           \/ pc' = [pc EXCEPT ![p] = "unwinding"] /\ mutex' = mutex \ {p} /\ ui' = Activation!NoUi
    BY <1>5, Zenon DEF Activation!OnCreate
  <2>2. LinksFit(ui') BY <1>3, <2>1 DEF LinksFit
  <2>3. CASE pc' = [pc EXCEPT ![p] = "running"] /\ mutex' = mutex BY <1>2, <2>1, <2>2, <2>3 DEF Places, Owning
  <2>4. CASE pc' = [pc EXCEPT ![p] = "unwinding"] /\ mutex' = mutex \ {p}
    BY <1>2, <2>1, <2>2, <2>4 DEF Places, Owning
  <2> QED BY <2>1, <2>3, <2>4
<1>6. CASE Activation!Destroy(p)
  <2>1. pc[p] = "running" /\ UNCHANGED <<windows, mutex>> /\ pc' = [pc EXCEPT ![p] = "closing"]
        /\ ui' = [ui EXCEPT !.channel = FALSE, !.dart = "gone", !.toDart = <<>>]
    BY <1>6 DEF Activation!Destroy
  <2>2. LinksFit(ui') BY <2>1 DEF LinksFit
  <2> QED BY <1>2, <2>1, <2>2 DEF Places, Owning
<1>7. CASE Activation!DestroyWindow(p)
  <2>1. pc[p] = "closing" /\ mutex' = mutex /\ pc' = [pc EXCEPT ![p] = "quitting"]
        /\ ui' = Activation!NoUi /\ windows' = windows \ {p}
    BY <1>7 DEF Activation!DestroyWindow
  <2>2. LinksFit(ui') BY <1>3, <2>1
  <2> QED BY <1>2, <2>1, <2>2 DEF Places, Owning
<1> QED BY <1>4, <1>5, <1>6, <1>7

\* A frame that decodes is one that Encode writes: Decode checks the size that it
\* carries against the text, and the message against what may be sent.
LEMMA DecodedIsEncoded ==
  ASSUME NEW f \in Activation!AnyFrame, NEW m \in Activation!Decode(f)
  PROVE  /\ m \in [command : {"show", "continue"}, payload : Activation!Payloads]
         /\ f \in Activation!Encode(m)
<1>1. PICK h \in BOOLEAN, c \in {"show", "continue", "other"}, s \in 0..(MaxPayload + 1),
           p \in Activation!Payloads :
        f = [header |-> h, command |-> c, size |-> s, payload |-> p]
  BY DEF Activation!AnyFrame
<1>2. /\ m = [command |-> f.command, payload |-> f.payload]
      /\ f.header /\ f.size = Activation!Size(f.payload) /\ f.command \in {"show", "continue"}
      /\ Activation!IsValidMessage(m)
  BY DEF Activation!Decode
<1>3. f.header = h /\ f.command = c /\ f.size = s /\ f.payload = p BY <1>1
<1>4. m = [command |-> c, payload |-> p] /\ h = TRUE /\ s = Activation!Size(p) /\ c \in {"show", "continue"}
  BY <1>2, <1>3
<1>5. m.command = c /\ m.payload = p BY <1>4
<1>6. f = [header |-> TRUE, command |-> m.command, size |-> Activation!Size(m.payload), payload |-> m.payload]
  BY <1>1, <1>4, <1>5
<1> QED BY <1>2, <1>4, <1>6 DEF Activation!Encode, Activation!Frame

\* Showing the window or leaving a link consumes nothing.
LEMMA CopyDataFits == ASSUME LinksFit(ui), NEW m PROVE LinksFit(Activation!CopyData(m))
<1>2. CASE m.command = "show" BY <1>2 DEF Activation!CopyData
<1>3. CASE m.command # "show"
  <2>1. PICK s : Activation!CopyData(m)
                   = [ui EXCEPT !.pending = m.payload, !.newest = m.payload, !.toDart = s]
    BY <1>3 DEF Activation!CopyData
  <2> QED BY <2>1 DEF LinksFit
<1> QED BY <1>2, <1>3

LEMMA HandleKept ==
  ASSUME LaunchInv, NEW p \in Procs, Activation!HandleCopyData(p) PROVE LaunchInv'
<1> USE DEF LaunchInv, Activation!args
<1>1. UNCHANGED <<pc, hidden, mutex, windows>> /\ sent' = [sent EXCEPT ![p] = "handled"]
  BY DEF Activation!HandleCopyData
<1>2. PICK f \in Activation!Encode(Activation!Message(p)) :
        \E m \in Activation!Decode(f) : ui' = Activation!CopyData(m) /\ acted' = {f}
  BY DEF Activation!HandleCopyData
<1>3. LinksFit(ui)' BY <1>2, CopyDataFits DEF LinksFit
<1>4. Activation!ActsOnEncoded'
  <2> DEFINE m == Activation!Message(p)
  <2>1. Activation!IsValidMessage(m) BY <1>2 DEF Activation!Encode
  <2>2. m \in [command : {"show", "continue"}, payload : Activation!Payloads]
    BY <2>1 DEF Activation!Message, Activation!IsValidMessage, Activation!IsPokrovAcquisitionUri,
       Activation!Payloads
  <2> HIDE DEF m
  <2>3. \E n \in [command : {"show", "continue"}, payload : Activation!Payloads] : f \in Activation!Encode(n)
    BY <1>2, <2>2 DEF m
  <2> QED BY <1>2, <2>3 DEF Activation!ActsOnEncoded
<1>5. sent' \in [Procs -> Procs \cup {"none", "handled"}] /\ sent'[p] = "handled"
      /\ \A q \in Procs : q # p => sent'[q] = sent[q]
  BY <1>1 DEF LaunchTypes
<1>6. LaunchTypes' /\ MutexFits' BY <1>1, <1>5 DEF LaunchTypes, MutexFits
<1>7. Activation!SuccessWasHandled' /\ LeavesHidden' BY <1>1, <1>5 DEF Activation!SuccessWasHandled, LeavesHidden
<1> QED BY <1>3, <1>4, <1>6, <1>7

\* Steps of the UI that leave every launch alone.
LEMMA UiMoves ==
  ASSUME LaunchInv, UNCHANGED <<pc, hidden, mutex, windows, sent>>, LinksFit(ui'), Activation!ActsOnEncoded'
  PROVE  LaunchInv'
<1> USE DEF LaunchInv
<1>1. LaunchTypes' /\ MutexFits' BY DEF LaunchTypes, MutexFits
<1>2. Activation!SuccessWasHandled' /\ LeavesHidden' BY DEF Activation!SuccessWasHandled, LeavesHidden
<1>3. LinksFit(ui)' BY DEF LinksFit
<1> QED BY <1>1, <1>2, <1>3

LEMMA ForeignKept == ASSUME LaunchInv, Activation!ForeignCopyData PROVE LaunchInv'
<1> USE DEF Activation!args
<1>1. UNCHANGED <<pc, hidden, mutex, windows, sent>> BY DEF Activation!ForeignCopyData
<1>2. PICK f \in Activation!AnyFrame :
        \E m \in Activation!Decode(f) : ui' = Activation!CopyData(m) /\ acted' = {f}
  BY DEF Activation!ForeignCopyData
<1>3. LinksFit(ui') BY <1>2, CopyDataFits DEF LaunchInv
<1>4. Activation!ActsOnEncoded' BY <1>2, DecodedIsEncoded DEF Activation!ActsOnEncoded
<1> QED BY <1>1, <1>3, <1>4, UiMoves

\* A handle is consumed only when it was not processed before.
LEMMA BeginFits == ASSUME NEW u, LinksFit(u), NEW l PROVE LinksFit(Activation!BeginAcquisition(u, l))
<1>1. LinksFit([u EXCEPT !.dropped = @ \cup {l}]) BY DEF LinksFit
<1>2. ASSUME l \notin u.processed
      PROVE  LinksFit([u EXCEPT !.processed = @ \cup {l}, !.consuming = l, !.consumed[l] = @ + 1])
  <2> DEFINE v == [u EXCEPT !.processed = @ \cup {l}, !.consuming = l, !.consumed[l] = @ + 1]
  <2>1. /\ DOMAIN v = DOMAIN u /\ v.owner = u.owner /\ v.processed = u.processed \cup {l}
        /\ v.consumed = [u.consumed EXCEPT ![l] = u.consumed[l] + 1]
    BY DEF LinksFit
  <2> HIDE DEF v
  <2>2. \A k \in Links : v.consumed[k] = IF k = l THEN u.consumed[k] + 1 ELSE u.consumed[k]
    BY <2>1 DEF LinksFit
  <2>3. \A k \in Links : k = l => u.consumed[k] = 0 BY <1>2 DEF LinksFit
  <2>4. v.consumed \in [Links -> {0, 1}]
    <3>1. \A k \in Links : v.consumed[k] \in {0, 1} BY <2>2, <2>3 DEF LinksFit
    <3> QED BY <2>1, <3>1 DEF LinksFit
  <2>5. \A k \in Links : v.consumed[k] = 1 => k \in v.processed BY <2>1, <2>2 DEF LinksFit
  <2> QED BY <2>1, <2>4, <2>5 DEF LinksFit, v
<1> QED BY <1>1, <1>2 DEF Activation!BeginAcquisition

\* Any step of Dart, whatever order answers and messages come in.
LEMMA DartKept == ASSUME LaunchInv, Activation!Dart PROVE LaunchInv'
<1> USE DEF Activation!args
<1>1. UNCHANGED <<pc, hidden, mutex, windows, sent, acted>> BY DEF Activation!Dart
<1>2. LinksFit(ui) BY DEF LaunchInv
<1>3. LinksFit(ui')
  <2>1. CASE Activation!DartStart BY <1>2, <2>1 DEF LinksFit, Activation!DartStart
  <2>2. CASE Activation!DartReceive
    <3> DEFINE e == Head(ui.toDart)
               u == [ui EXCEPT !.toDart = Tail(@)]
    <3>1. ui' = IF e[1] = "answer" THEN [u EXCEPT !.initial = e[2], !.dart = "services"]
                ELSE Activation!UriChanged(u, e[2])
      BY <2>2 DEF Activation!DartReceive
    <3>2. LinksFit(u) BY <1>2 DEF LinksFit
    <3> HIDE DEF e, u
    <3>3. LinksFit([u EXCEPT !.initial = e[2], !.dart = "services"]) BY <3>2 DEF LinksFit
    <3>4. LinksFit(Activation!UriChanged(u, e[2]))
      <4>1. LinksFit([u EXCEPT !.buffer = e[2]]) BY <3>2 DEF LinksFit
      <4>2. LinksFit([u EXCEPT !.held = e[2]]) BY <3>2 DEF LinksFit
      <4> QED BY <3>2, <4>1, <4>2, BeginFits DEF Activation!UriChanged
    <3> QED BY <3>1, <3>3, <3>4
  <2>3. CASE Activation!DartShow BY <1>2, <2>3 DEF LinksFit, Activation!DartShow
  <2>4. CASE Activation!Subscribe BY <1>2, <2>4 DEF LinksFit, Activation!Subscribe
  <2>5. CASE Activation!Deliver
    <3>1. LinksFit([ui EXCEPT !.streamed = Activation!None]) BY <1>2 DEF LinksFit
    <3> QED BY <2>5, <3>1, BeginFits DEF Activation!Deliver
  <2>6. CASE Activation!PostFrame
    <3>1. LinksFit([ui EXCEPT !.dart = "shell"]) BY <1>2 DEF LinksFit
    <3> QED BY <2>6, <3>1, BeginFits DEF Activation!PostFrame
  <2>7. CASE Activation!FinishAcquisition BY <1>2, <2>7 DEF LinksFit, Activation!FinishAcquisition
  <2> QED BY <2>1, <2>2, <2>3, <2>4, <2>5, <2>6, <2>7 DEF Activation!Dart
<1>4. Activation!ActsOnEncoded' BY <1>1 DEF LaunchInv, Activation!ActsOnEncoded
<1> QED BY <1>1, <1>3, <1>4, UiMoves

LEMMA ShellKept == ASSUME LaunchInv, Activation!Shell PROVE LaunchInv'
<1> USE DEF Activation!args
<1>1. UNCHANGED <<pc, hidden, mutex, windows, sent, acted>> BY DEF Activation!Shell
<1>2. LinksFit(ui) BY DEF LaunchInv
<1>3. LinksFit(ui')
  <2>1. PICK p \in Procs : Activation!GetInitialUri(p) BY DEF Activation!Shell
  <2>2. PICK s : ui' = [ui EXCEPT !.toDart = s, !.pending = Activation!None, !.dart = "waiting"]
    BY <2>1 DEF Activation!GetInitialUri
  <2> QED BY <1>2, <2>2 DEF LinksFit
<1>4. Activation!ActsOnEncoded' BY <1>1 DEF LaunchInv, Activation!ActsOnEncoded
<1> QED BY <1>1, <1>3, <1>4, UiMoves

LEMMA LaunchUnchanged == ASSUME LaunchInv, UNCHANGED Activation!vars PROVE LaunchInv'
<1>1. UNCHANGED <<pc, hidden, mutex, windows, sent, acted, ui>> BY DEF Activation!vars
<1>2. LinksFit(ui') /\ Activation!ActsOnEncoded' BY <1>1 DEF LaunchInv, Activation!ActsOnEncoded
<1> QED BY <1>1, <1>2, UiMoves

LEMMA LaunchStep == ASSUME LaunchInv, [Activation!Next]_(Activation!vars) PROVE LaunchInv'
<1>1. CASE \E p \in Procs :
             \/ Activation!Launch(p) \/ Activation!LoginLeaves(p) \/ Activation!FindWindow(p)
             \/ Activation!GiveUp(p) \/ Activation!Unanswered(p) \/ Activation!ForwardActivation(p)
             \/ Activation!CreateWindow(p) \/ Activation!OnCreate(p) \/ Activation!Unwind(p)
             \/ Activation!HandleCopyData(p) \/ Activation!Destroy(p)
             \/ Activation!DestroyWindow(p) \/ Activation!Quit(p)
  BY <1>1, LaunchKept, LaunchLooks, WindowMoves, HandleKept
<1>2. CASE Activation!Done BY <1>2, LaunchUnchanged DEF Activation!Done
<1>3. CASE Activation!ForeignCopyData \/ Activation!Dart \/ Activation!Shell
  BY <1>3, ForeignKept, DartKept, ShellKept
<1> QED BY <1>1, <1>2, <1>3, LaunchUnchanged DEF Activation!Next

\* Launches that race for the session, answers that are lost and frames of other
\* programs, in whatever order: one process has the UI, a launch that reports
\* success was handled, the window acts only on what the protocol encodes, and a
\* link that reaches Dart along both paths is consumed once.
THEOREM ActivationExact == Activation!Spec => []ActivationIsExact
<1>1. Activation!Init => LaunchInv BY LaunchInit
<1>2. LaunchInv /\ [Activation!Next]_(Activation!vars) => LaunchInv' BY LaunchStep
<1>3. LaunchInv => ActivationIsExact BY LaunchReports
<1> QED BY <1>1, <1>2, <1>3, PTL DEF Activation!Spec

-----------------------------------------------------------------------------
(* The window's requests *)

OwnerCommands == {"confirm", "cancel", "promote", "revoke", "control"}
StartCommands == {"bound", "plain"}
OtherCommands == {"none", "stage", "ask", "disconnect"}
Results == {"ok", "failed", "stopped", "unsettled"}
Digests == Profiles \cup {0}
Tasks == [cmd : OwnerCommands \cup StartCommands \cup OtherCommands, c : 0..MaxRequests, intent : Digests]
Owners == [c : 0..MaxRequests, id : 0..MaxRequests, bound : BOOLEAN, promoted : BOOLEAN]
Facts == {"connected", "failed", "cancelled", "promoted", "settled"}
Reqs == [kind : {"none", "bound", "plain"}, cancel : BOOLEAN, completed : BOOLEAN, target : BOOLEAN,
         svc : {"none", "starting", "up", "ended"}, interrupted : BOOLEAN, tried : BOOLEAN,
         lease : BOOLEAN, told : SUBSET Facts, asked : BOOLEAN, waits : Int]

RunnerTypes ==
  /\ owner \in Owners /\ stopped \in 0..MaxRequests /\ intent \in Digests
  /\ req \in [1..MaxRequests -> Reqs]
  /\ tasks \in Seq(Tasks) /\ Len(tasks) <= MaxQueue /\ running \in Tasks
  /\ ready \in Seq([task : Tasks, result : Results])
  /\ window \in {"open", "ending", "closing", "closed"} /\ count \in Nat
  /\ last \in [profile : Digests, stops : SUBSET Digests]

\* A task is for a request of its kind, and was asked for.
TaskFits(t, r, stops) ==
  /\ t.c # 0 <=> t.cmd \notin OtherCommands
  /\ t.cmd \in StartCommands => r[t.c].kind = t.cmd
  /\ t.cmd \in OwnerCommands => r[t.c].kind = "bound"
  /\ t.cmd \in {"confirm", "cancel"} => r[t.c].asked
  /\ t.cmd = "promote" => r[t.c].completed
  /\ t.cmd \in {"confirm", "disconnect"} => t.intent \in stops

TasksFit ==
  /\ \A i \in 1..Len(tasks) : TaskFits(tasks[i], req, last.stops)
  /\ TaskFits(running, req, last.stops)
  /\ \A i \in 1..Len(ready) : TaskFits(ready[i].task, req, last.stops)

StartOf(t, c) == t.cmd \in StartCommands /\ t.c = c
Starting ==
  {c \in 1..MaxRequests : StartOf(running, c) \/ \E i \in 1..Len(tasks) : StartOf(tasks[i], c)}

\* A request is started once, and its settlement is behind its start.
StartsOnce ==
  /\ \A c \in 1..MaxRequests :
       /\ \A i, j \in 1..Len(tasks) : StartOf(tasks[i], c) /\ StartOf(tasks[j], c) => i = j
       /\ StartOf(running, c) => \A i \in 1..Len(tasks) : ~StartOf(tasks[i], c)
       /\ req[c].completed => c \notin Starting
       /\ \A i \in 1..Len(tasks) : StartOf(tasks[i], c) => req[c].svc = "none"
  /\ \A i \in 1..Len(tasks) : tasks[i].cmd = "confirm" =>
       \/ req[tasks[i].c].completed \/ StartOf(running, tasks[i].c)
       \/ \E j \in 1..(i - 1) : StartOf(tasks[j], tasks[i].c)
  /\ running.cmd = "confirm" => req[running.c].completed

\* Nothing of the request runs, or will.
SettledOnes ==
  {c \in 1..MaxRequests :
     req[c].kind # "none" /\ req[c].svc \in {"none", "ended"} /\ c \notin Starting}

RequestFits(c) ==
  /\ req[c].kind = "none" =>
       /\ req[c].svc = "none" /\ req[c].told = {} /\ ~req[c].completed /\ ~req[c].interrupted
       /\ ~req[c].target
  /\ req[c].kind = "bound" => (req[c].target <=> req[c].svc # "none")
  /\ req[c].interrupted => req[c].cancel
  /\ "promoted" \in req[c].told =>
       req[c].kind = "bound" /\ req[c].completed /\ (req[c].cancel => req[c].asked)
  /\ "settled" \in req[c].told => c \in SettledOnes

LiveOnes == {c \in 1..MaxRequests : req[c].kind = "bound" /\ req[c].svc \in {"starting", "up"}}

\* The window's record of the request it has, and the request it must have.
OwnerFits ==
  /\ owner.id # 0 => owner.id = owner.c
  /\ owner.c = 0 => ~owner.bound
  /\ owner.promoted => owner.bound /\ "promoted" \in req[owner.c].told
  /\ owner.c # 0 =>
       /\ req[owner.c].kind = IF owner.bound THEN "bound" ELSE "plain"
       /\ "promoted" \in req[owner.c].told => owner.promoted
       /\ window = "open" => req[owner.c].completed \/ owner.c \in Starting

MustOwn ==
  \A c \in 1..MaxRequests :
    /\ window # "closed" /\ req[c].kind = "bound" /\ c \in Starting \cup LiveOnes => owner.c = c
    /\ req[c].kind = "plain" /\ c \in Starting /\ req[c].svc = "none" /\ ~req[c].cancel => owner.c = c

\* What is known to be stopped is.
StopsFit ==
  /\ stopped # 0 => stopped \in SettledOnes
  /\ \A i \in 1..Len(ready) :
       ready[i].task.cmd = "confirm" /\ ready[i].result = "stopped" => ready[i].task.c \in SettledOnes

CloseFits ==
  /\ window \in {"closing", "closed"} => tasks = <<>>
  /\ window = "closed" => running = Runner!NoTask
  /\ window = "closed" => \A c \in LiveOnes :
       req[c].tried \/ "promoted" \in req[c].told

RunnerInv ==
  /\ RunnerTypes /\ TasksFit /\ StartsOnce /\ (\A c \in 1..MaxRequests : RequestFits(c))
  /\ OwnerFits /\ MustOwn /\ StopsFit /\ CloseFits /\ Runner!IntentIsNewest

LEMMA RunnerInit == ASSUME Runner!RunnerAssumption, Runner!Init PROVE RunnerInv
<1> USE DEF Runner!Init, Runner!NoOwner, Runner!NoTask, Runner!NoRequest, Runner!Requests
<1>1. MaxRequests \in Nat /\ MaxQueue \in Nat BY DEF Runner!RunnerAssumption
<1>2. running \in Tasks /\ owner \in Owners /\ last \in [profile : Digests, stops : SUBSET Digests]
  BY <1>1 DEF Tasks, Owners, Digests, OtherCommands
<1>3. Runner!NoRequest \in Reqs BY DEF Reqs
<1>4. tasks \in Seq(Tasks) /\ ready \in Seq([task : Tasks, result : Results])
      /\ Len(tasks) = 0 /\ Len(ready) = 0
  BY EmptySeq
<1>5. req \in [1..MaxRequests -> Reqs] /\ \A c \in 1..MaxRequests : req[c] = Runner!NoRequest
  BY <1>3
<1>6. RunnerTypes
  <2>1. stopped \in 0..MaxRequests /\ intent \in Digests /\ count \in Nat /\ Len(tasks) <= MaxQueue
    BY <1>1, <1>4 DEF Digests
  <2>2. window \in {"open", "ending", "closing", "closed"} OBVIOUS
  <2> HIDE DEF Runner!Init
  <2> QED BY <1>2, <1>4, <1>5, <2>1, <2>2 DEF RunnerTypes
<1>7. TasksFit BY <1>4 DEF TasksFit, TaskFits, OtherCommands, StartCommands, OwnerCommands
<1>8. Starting = {} BY <1>4 DEF Starting, StartOf, StartCommands
<1>9. StartsOnce BY <1>4, <1>8 DEF StartsOnce, StartOf, StartCommands
<1>10. \A c \in 1..MaxRequests : RequestFits(c) BY <1>5 DEF RequestFits
<1>11. OwnerFits /\ MustOwn BY <1>5, <1>8 DEF OwnerFits, MustOwn, LiveOnes
<1>12. StopsFit /\ CloseFits BY <1>4, <1>5 DEF StopsFit, CloseFits, LiveOnes
<1>13. Runner!IntentIsNewest BY DEF Runner!IntentIsNewest
<1> QED BY <1>6, <1>7, <1>9, <1>10, <1>11, <1>12, <1>13 DEF RunnerInv

\* What the invariant says is what the run checks.
LEMMA RunnerReports == ASSUME Runner!RunnerAssumption, RunnerInv PROVE RequestsAreOwned
<1> USE DEF RunnerInv, Runner!Requests, Runner!Live, Runner!Open
<1>1. Runner!TypeOK
  <2>1. \A c \in 1..MaxRequests : req[c] \in Reqs BY DEF RunnerTypes
  <2>2. \A c \in 1..MaxRequests : req[c].svc \in {"none", "starting", "up", "ended"} /\ req[c].told \subseteq Facts
    BY <2>1 DEF Reqs
  <2>3. (owner.promoted => owner.bound) /\ (owner.id # 0 => owner.id = owner.c) BY DEF OwnerFits
  <2> QED BY <2>2, <2>3 DEF Runner!TypeOK, RunnerTypes, Owners, Digests, Facts
<1>2. Runner!SettledIsStopped
  BY DEF Runner!SettledIsStopped, RequestFits, SettledOnes, Starting, StartOf, StartCommands
<1>3. Runner!OwnerIsKept BY DEF Runner!OwnerIsKept, MustOwn, LiveOnes, OwnerFits
<1>4. Runner!ClosedHasAsked BY DEF Runner!ClosedHasAsked, CloseFits, LiveOnes
<1>5. Runner!LeaseIsKept BY DEF Runner!LeaseIsKept, RequestFits
<1>6. Runner!NewestStarts
  <2>1. SUFFICES ASSUME NEW c \in 1..MaxRequests, Runner!Waits(c), req[c].kind = "plain",
                        req[c].svc = "none", ~req[c].cancel
                 PROVE  owner.c = c
    BY DEF Runner!NewestStarts
  <2>2. \A t \in Tasks : TaskFits(t, req, last.stops) /\ t.c = c => StartOf(t, c)
    BY <2>1 DEF TaskFits, StartOf, Tasks, OwnerCommands, StartCommands, OtherCommands
  <2>3. DOMAIN tasks = 1..Len(tasks) /\ \A i \in 1..Len(tasks) : tasks[i] \in Tasks
    BY LenProperties, ElementOfSeq DEF RunnerTypes
  <2>4. c \in Starting
    <3>1. CASE running.c = c BY <2>2, <3>1 DEF Starting, TasksFit, RunnerTypes
    <3>2. CASE \E i \in DOMAIN tasks : tasks[i].c = c BY <2>2, <2>3, <3>2 DEF Starting, TasksFit
    <3> QED BY <2>1, <3>1, <3>2 DEF Runner!Waits
  <2> QED BY <2>1, <2>4 DEF MustOwn
<1> QED BY <1>1, <1>2, <1>3, <1>4, <1>5, <1>6 DEF RequestsAreOwned, Runner!RequestsAreOwned

-----------------------------------------------------------------------------
\* What no step of the window, the worker or the service takes back.
RequestsGrow ==
  /\ req' \in [1..MaxRequests -> Reqs]
  /\ \A d \in 1..MaxRequests :
       /\ req[d].kind # "none" => req'[d].kind = req[d].kind
       /\ req[d].asked => req'[d].asked
       /\ req[d].completed => req'[d].completed
       /\ req[d].cancel => req'[d].cancel
       /\ req[d].tried => req'[d].tried
       /\ req[d].told \subseteq req'[d].told
       /\ req[d].svc = "ended" => req'[d].svc = "ended"
       /\ req'[d].svc = "none" => req[d].svc = "none"
  /\ last.stops \subseteq last'.stops

LEMMA TaskKept ==
  ASSUME RunnerTypes, RequestsGrow, NEW t \in Tasks, TaskFits(t, req, last.stops)
  PROVE  TaskFits(t, req', last'.stops)
<1>2. t.c # 0 => t.c \in 1..MaxRequests BY DEF Tasks
<1>3. t.cmd \in StartCommands \cup OwnerCommands => t.cmd \notin OtherCommands /\ t.cmd # "none"
  BY DEF StartCommands, OwnerCommands, OtherCommands
<1>4. "confirm" \in OwnerCommands /\ "cancel" \in OwnerCommands /\ "promote" \in OwnerCommands
      /\ "none" \notin StartCommands
  BY DEF OwnerCommands, StartCommands
<1>5. t.cmd \in StartCommands => t.c \in 1..MaxRequests /\ req'[t.c].kind = t.cmd
  BY <1>2, <1>3, <1>4 DEF TaskFits, RequestsGrow
<1>6. t.cmd \in OwnerCommands => t.c \in 1..MaxRequests /\ req'[t.c].kind = "bound"
  BY <1>2, <1>3, <1>4 DEF TaskFits, RequestsGrow
<1>7. t.cmd \in {"confirm", "cancel"} => req'[t.c].asked BY <1>4, <1>6 DEF TaskFits, RequestsGrow
<1>8. t.cmd = "promote" => req'[t.c].completed BY <1>4, <1>6 DEF TaskFits, RequestsGrow
<1>9. t.cmd \in {"confirm", "disconnect"} => t.intent \in last'.stops BY DEF TaskFits, RequestsGrow
<1> QED BY <1>5, <1>6, <1>7, <1>8, <1>9 DEF TaskFits

\* Completions that are drained are gone.
ReadyShrinks ==
  /\ ready' \in Seq([task : Tasks, result : Results])
  /\ \A i \in 1..Len(ready') : \E j \in 1..Len(ready) : ready'[i] = ready[j]

LEMMA ReadySame == ASSUME RunnerTypes, UNCHANGED ready PROVE ReadyShrinks
BY DEF ReadyShrinks, RunnerTypes

LEMMA ReadyTail == ASSUME RunnerTypes, ready # <<>>, ready' = Tail(ready) PROVE ReadyShrinks
<1>1. ready' \in Seq([task : Tasks, result : Results]) /\ Len(ready') = Len(ready) - 1
      /\ \A i \in 1..Len(ready') : ready'[i] = ready[i + 1]
  BY HeadTailProperties DEF RunnerTypes
<1>2. Len(ready) \in Nat BY LenProperties DEF RunnerTypes
<1>3. \A i \in 1..Len(ready') : i + 1 \in 1..Len(ready) BY <1>1, <1>2
<1> QED BY <1>1, <1>3 DEF ReadyShrinks

LEMMA ReadyTasks ==
  ASSUME RunnerTypes, TasksFit, RequestsGrow, ReadyShrinks
  PROVE  \A i \in 1..Len(ready') : TaskFits(ready'[i].task, req', last'.stops)
<1>1. \A j \in 1..Len(ready) : ready[j].task \in Tasks
  <2>1. \A j \in 1..Len(ready) : ready[j] \in [task : Tasks, result : Results] BY ElementOfSeq DEF RunnerTypes
  <2> QED BY <2>1
<1>2. \A j \in 1..Len(ready) : TaskFits(ready[j].task, req', last'.stops) BY <1>1, TaskKept DEF TasksFit
<1> QED BY <1>2 DEF ReadyShrinks

\* Steps that queue nothing and take nothing from the queue.
LEMMA QueueStays ==
  ASSUME RunnerTypes, TasksFit, StartsOnce, RequestsGrow, ReadyShrinks, UNCHANGED <<tasks, running>>,
         \A d \in 1..MaxRequests :
           /\ req'[d].completed = req[d].completed
           /\ req[d].svc = "none" => req'[d].svc = "none" \/ StartOf(running, d)
  PROVE  TasksFit' /\ StartsOnce' /\ Starting' = Starting
<1>1. \A i \in 1..Len(tasks) : tasks[i] \in Tasks BY ElementOfSeq DEF RunnerTypes
<1>2. \A i \in 1..Len(ready') : TaskFits(ready'[i].task, req', last'.stops) BY ReadyTasks
<1>3. \A i \in 1..Len(tasks) : TaskFits(tasks[i], req', last'.stops) BY <1>1, TaskKept DEF TasksFit
<1>4. TaskFits(running, req', last'.stops) BY TaskKept DEF TasksFit, RunnerTypes
<1>5. TasksFit' BY <1>2, <1>3, <1>4 DEF TasksFit
<1>6. Starting' = Starting BY DEF Starting
<1>7. \A c \in 1..MaxRequests : \A i \in 1..Len(tasks) : StartOf(tasks[i], c) => req'[c].svc = "none"
  BY DEF StartsOnce
<1>8. \A i \in 1..Len(tasks) : tasks[i].cmd = "confirm" => tasks[i].c \in 1..MaxRequests
  BY <1>1 DEF TasksFit, TaskFits, OtherCommands, Tasks
<1>9. running.cmd = "confirm" => running.c \in 1..MaxRequests
  BY DEF TasksFit, TaskFits, OtherCommands, Tasks, RunnerTypes
<1>10. StartsOnce' BY <1>6, <1>7, <1>8, <1>9 DEF StartsOnce
<1> QED BY <1>5, <1>6, <1>10

\* A task that is queued: of a new request, or behind the start of its own.
LEMMA QueueGrows ==
  ASSUME RunnerTypes, MaxQueue \in Nat, TasksFit, StartsOnce, RequestsGrow, ReadyShrinks, running' = running,
         NEW t \in Tasks, tasks' = Append(tasks, t), Len(tasks) < MaxQueue,
         TaskFits(t, req', last'.stops),
         \A d \in 1..MaxRequests :
           req'[d].completed = req[d].completed /\ req'[d].svc = req[d].svc,
         t.cmd \in StartCommands =>
           req[t.c].kind = "none" /\ ~req[t.c].completed /\ req[t.c].svc = "none",
         t.cmd = "confirm" => req[t.c].completed \/ t.c \in Starting
  PROVE  /\ TasksFit' /\ StartsOnce' /\ tasks' \in Seq(Tasks) /\ Len(tasks') <= MaxQueue
         /\ Starting' = Starting \cup (IF t.cmd \in StartCommands THEN {t.c} ELSE {})
<1>1. \A i \in 1..Len(tasks) : tasks[i] \in Tasks BY ElementOfSeq DEF RunnerTypes
<1>2. /\ tasks' \in Seq(Tasks) /\ Len(tasks') = Len(tasks) + 1 /\ tasks'[Len(tasks) + 1] = t
      /\ \A i \in 1..Len(tasks) : tasks'[i] = tasks[i]
  BY AppendProperties DEF RunnerTypes
<1>3. Len(tasks) \in Nat BY LenProperties DEF RunnerTypes
<1>4. \A i \in 1..Len(tasks') : i \in 1..Len(tasks) \/ i = Len(tasks) + 1 BY <1>2, <1>3
<1>5. TasksFit'
  <2>1. \A i \in 1..Len(ready') : TaskFits(ready'[i].task, req', last'.stops) BY ReadyTasks
  <2>2. \A i \in 1..Len(tasks) : TaskFits(tasks[i], req', last'.stops) BY <1>1, TaskKept DEF TasksFit
  <2>3. TaskFits(running, req', last'.stops) BY TaskKept DEF TasksFit, RunnerTypes
  <2>4. \A i \in 1..Len(tasks') : TaskFits(tasks'[i], req', last'.stops) BY <1>2, <1>4, <2>2
  <2> QED BY <2>1, <2>3, <2>4 DEF TasksFit
<1>6. t.c # 0 => t.c \in 1..MaxRequests BY DEF Tasks
<1>7. t.cmd \in StartCommands => t.c \in 1..MaxRequests
  BY <1>6 DEF TaskFits, StartCommands, OtherCommands
<1>8. ASSUME NEW c \in 1..MaxRequests
      PROVE  c \in Starting' <=> c \in Starting \/ StartOf(t, c)
  <2>1. c \in Starting' <=> StartOf(running', c) \/ \E i \in 1..Len(tasks') : StartOf(tasks'[i], c)
    BY DEF Starting
  <2>2. (\E i \in 1..Len(tasks') : StartOf(tasks'[i], c))
          <=> StartOf(t, c) \/ \E i \in 1..Len(tasks) : StartOf(tasks[i], c)
    <3>1. Len(tasks) + 1 \in 1..Len(tasks') /\ \A i \in 1..Len(tasks) : i \in 1..Len(tasks') BY <1>2, <1>3
    <3> QED BY <1>2, <1>4, <3>1
  <2> QED BY <2>1, <2>2 DEF Starting
<1>9. Starting' = Starting \cup (IF t.cmd \in StartCommands THEN {t.c} ELSE {})
  BY <1>7, <1>8 DEF Starting, StartOf
<1>10. \A s \in Tasks : \A c \in 1..MaxRequests :
         TaskFits(s, req, last.stops) /\ StartOf(s, c) => req[c].kind # "none"
  BY DEF TaskFits, StartOf, StartCommands
<1>11. \A c \in 1..MaxRequests : StartOf(t, c) =>
         ~StartOf(running, c) /\ \A i \in 1..Len(tasks) : ~StartOf(tasks[i], c)
  BY <1>1, <1>10 DEF TasksFit, RunnerTypes, StartOf
<1>12. StartsOnce'
  <2>1. ASSUME NEW c \in 1..MaxRequests, NEW i \in 1..Len(tasks'), NEW j \in 1..Len(tasks'),
               StartOf(tasks'[i], c), StartOf(tasks'[j], c)
        PROVE  i = j
    <3>1. CASE i \in 1..Len(tasks) /\ j \in 1..Len(tasks) BY <1>2, <2>1, <3>1 DEF StartsOnce
    <3>2. CASE i = Len(tasks) + 1 \/ j = Len(tasks) + 1 BY <1>2, <1>4, <1>11, <2>1, <3>2
    <3> QED BY <1>4, <3>1, <3>2
  <2>2. ASSUME NEW c \in 1..MaxRequests, StartOf(running', c), NEW i \in 1..Len(tasks')
        PROVE  ~StartOf(tasks'[i], c)
    BY <1>2, <1>4, <1>11, <2>2 DEF StartsOnce
  <2>3. \A c \in 1..MaxRequests : req'[c].completed => c \notin Starting'
    BY <1>8 DEF StartsOnce, StartOf
  <2>4. ASSUME NEW c \in 1..MaxRequests, NEW i \in 1..Len(tasks'), StartOf(tasks'[i], c)
        PROVE  req'[c].svc = "none"
    BY <1>2, <1>4, <2>4 DEF StartsOnce, StartOf
  <2>5. ASSUME NEW i \in 1..Len(tasks'), tasks'[i].cmd = "confirm"
        PROVE  \/ req'[tasks'[i].c].completed \/ StartOf(running', tasks'[i].c)
               \/ \E j \in 1..(i - 1) : StartOf(tasks'[j], tasks'[i].c)
    <3>1. CASE i \in 1..Len(tasks)
      <4>1. tasks[i] = tasks'[i] /\ tasks[i].c \in 1..MaxRequests
        BY <1>1, <1>2, <2>5, <3>1 DEF TasksFit, TaskFits, OtherCommands, Tasks
      <4>2. \/ req[tasks[i].c].completed \/ StartOf(running, tasks[i].c)
            \/ \E j \in 1..(i - 1) : StartOf(tasks[j], tasks[i].c)
        BY <2>5, <3>1, <4>1 DEF StartsOnce
      <4>3. \A j \in 1..(i - 1) : j \in 1..Len(tasks) BY <1>3, <3>1
      <4> QED BY <1>2, <4>1, <4>2, <4>3
    <3>2. CASE i = Len(tasks) + 1
      <4>1. tasks'[i] = t /\ t.cmd = "confirm" /\ i - 1 = Len(tasks) BY <1>2, <1>3, <2>5, <3>2
      <4>2. t.c \in 1..MaxRequests BY <1>6, <4>1 DEF TaskFits, OtherCommands
      <4>3. req[t.c].completed \/ StartOf(running, t.c) \/ \E j \in 1..Len(tasks) : StartOf(tasks[j], t.c)
        BY <4>1 DEF Starting
      <4>4. \/ req'[t.c].completed \/ StartOf(running', t.c)
            \/ \E j \in 1..Len(tasks) : StartOf(tasks'[j], t.c)
        BY <1>2, <4>2, <4>3
      <4> QED BY <4>1, <4>4
    <3> QED BY <1>4, <3>1, <3>2
  <2>6. running'.cmd = "confirm" => req'[running'.c].completed
    <3>1. running.cmd = "confirm" => running.c \in 1..MaxRequests
      BY DEF TasksFit, TaskFits, OtherCommands, Tasks, RunnerTypes
    <3> QED BY <3>1 DEF StartsOnce
  <2> QED BY <2>1, <2>2, <2>3, <2>4, <2>5, <2>6 DEF StartsOnce
<1> QED BY <1>2, <1>3, <1>5, <1>9, <1>12

\* The worker takes the first task.
LEMMA QueueMoves ==
  ASSUME RunnerTypes, MaxQueue \in Nat, TasksFit, StartsOnce, running = Runner!NoTask, tasks # <<>>,
         running' = Head(tasks), tasks' = Tail(tasks), UNCHANGED <<req, ready, last>>
  PROVE  /\ TasksFit' /\ StartsOnce' /\ Starting' = Starting
         /\ tasks' \in Seq(Tasks) /\ Len(tasks') <= MaxQueue /\ running' \in Tasks
<1>1. /\ running' = tasks[1] /\ tasks' \in Seq(Tasks) /\ Len(tasks') = Len(tasks) - 1
      /\ \A i \in 1..Len(tasks') : tasks'[i] = tasks[i + 1]
  BY HeadTailProperties DEF RunnerTypes
<1>2. Len(tasks) \in Nat \ {0} BY LenProperties, EmptySeq DEF RunnerTypes
<1>3. \A i \in 1..Len(tasks) : tasks[i] \in Tasks BY ElementOfSeq DEF RunnerTypes
<1>4. 1 \in 1..Len(tasks) /\ \A i \in 1..Len(tasks') : i + 1 \in 1..Len(tasks) BY <1>1, <1>2
<1>5. \A i \in 1..Len(tasks) : i = 1 \/ (i - 1 \in 1..Len(tasks') /\ tasks[i] = tasks'[i - 1])
  BY <1>1, <1>2
<1>6. TasksFit' BY <1>1, <1>4 DEF TasksFit
<1>7. \A c : ~StartOf(running, c) BY DEF Runner!NoTask, StartOf, StartCommands
<1>8. ASSUME NEW c \in 1..MaxRequests
      PROVE  (StartOf(running', c) \/ \E i \in 1..Len(tasks') : StartOf(tasks'[i], c))
               <=> (\E i \in 1..Len(tasks) : StartOf(tasks[i], c))
  BY <1>1, <1>4, <1>5
<1>9. Starting' = Starting BY <1>7, <1>8 DEF Starting
<1>10. StartsOnce'
  <2>1. ASSUME NEW c \in 1..MaxRequests, NEW i \in 1..Len(tasks'), NEW j \in 1..Len(tasks'),
               StartOf(tasks'[i], c), StartOf(tasks'[j], c)
        PROVE  i = j
    <3>1. i + 1 = j + 1 BY <1>1, <1>4, <2>1 DEF StartsOnce
    <3> QED BY <3>1
  <2>2. ASSUME NEW c \in 1..MaxRequests, StartOf(running', c), NEW i \in 1..Len(tasks'), StartOf(tasks'[i], c)
        PROVE  FALSE
    <3>1. 1 = i + 1 BY <1>1, <1>4, <2>2 DEF StartsOnce
    <3> QED BY <3>1
  <2>3. ASSUME NEW i \in 1..Len(tasks'), tasks'[i].cmd = "confirm"
        PROVE  \/ req'[tasks'[i].c].completed \/ StartOf(running', tasks'[i].c)
               \/ \E j \in 1..(i - 1) : StartOf(tasks'[j], tasks'[i].c)
    <3>1. tasks'[i] = tasks[i + 1] /\ i + 1 \in 1..Len(tasks) BY <1>1, <1>4
    <3>2. \/ req[tasks[i + 1].c].completed
          \/ \E j \in 1..((i + 1) - 1) : StartOf(tasks[j], tasks[i + 1].c)
      BY <1>7, <2>3, <3>1 DEF StartsOnce
    <3>3. ASSUME NEW j \in 1..((i + 1) - 1), StartOf(tasks[j], tasks[i + 1].c)
          PROVE  StartOf(running', tasks'[i].c) \/ \E k \in 1..(i - 1) : StartOf(tasks'[k], tasks'[i].c)
      <4>1. CASE j = 1 BY <1>1, <3>1, <3>3, <4>1
      <4>2. CASE j # 1
        <5>1. j \in 1..Len(tasks) /\ j - 1 \in 1..(i - 1) BY <1>2, <3>1, <4>2
        <5>2. tasks[j] = tasks'[j - 1] BY <1>5, <4>2, <5>1
        <5> QED BY <3>1, <3>3, <5>1, <5>2
      <4> QED BY <4>1, <4>2
    <3> QED BY <3>1, <3>2, <3>3
  <2>4. running'.cmd = "confirm" => req'[running'.c].completed
    <3>1. tasks[1].cmd = "confirm" =>
            \/ req[tasks[1].c].completed \/ StartOf(running, tasks[1].c)
            \/ \E j \in 1..(1 - 1) : StartOf(tasks[j], tasks[1].c)
      BY <1>4 DEF StartsOnce
    <3> QED BY <1>1, <1>7, <3>1
  <2>5. \A c \in 1..MaxRequests : req'[c].completed => c \notin Starting' BY <1>9 DEF StartsOnce
  <2>6. \A c \in 1..MaxRequests : \A i \in 1..Len(tasks') : StartOf(tasks'[i], c) => req'[c].svc = "none"
    BY <1>1, <1>4 DEF StartsOnce
  <2> QED BY <2>1, <2>2, <2>3, <2>4, <2>5, <2>6 DEF StartsOnce
<1> QED BY <1>1, <1>2, <1>3, <1>4, <1>6, <1>9, <1>10 DEF RunnerTypes

\* The worker's call is over.
LEMMA QueueReturns ==
  ASSUME RunnerTypes, TasksFit, StartsOnce, RequestsGrow, running' = Runner!NoTask, tasks' = tasks,
         NEW result \in Results, ready' = Append(ready, [task |-> running, result |-> result]),
         Runner!NoTask \in Tasks,
         \A d \in 1..MaxRequests :
           /\ req'[d].completed <=> req[d].completed \/ StartOf(running, d)
           /\ req[d].svc = "none" => req'[d].svc = "none"
  PROVE  /\ TasksFit' /\ StartsOnce'
         /\ Starting' = {c \in Starting : ~StartOf(running, c)}
         /\ running' \in Tasks /\ ready' \in Seq([task : Tasks, result : Results])
         /\ \A i \in 1..Len(ready') :
              \/ \E j \in 1..Len(ready) : ready'[i] = ready[j]
              \/ ready'[i] = [task |-> running, result |-> result]
<1>1. \A i \in 1..Len(tasks) : tasks[i] \in Tasks BY ElementOfSeq DEF RunnerTypes
<1>2. [task |-> running, result |-> result] \in [task : Tasks, result : Results] BY DEF RunnerTypes
<1>3. /\ ready' \in Seq([task : Tasks, result : Results]) /\ Len(ready') = Len(ready) + 1
      /\ ready'[Len(ready) + 1] = [task |-> running, result |-> result]
      /\ \A i \in 1..Len(ready) : ready'[i] = ready[i]
  BY <1>2, AppendProperties DEF RunnerTypes
<1>4. Len(ready) \in Nat BY LenProperties DEF RunnerTypes
<1>5. \A i \in 1..Len(ready') : i \in 1..Len(ready) \/ i = Len(ready) + 1 BY <1>3, <1>4
<1>6. \A i \in 1..Len(ready') :
        \/ \E j \in 1..Len(ready) : ready'[i] = ready[j]
        \/ ready'[i] = [task |-> running, result |-> result]
  BY <1>3, <1>5
<1>7. TasksFit'
  <2>1. \A j \in 1..Len(ready) : ready[j].task \in Tasks
    <3>1. \A j \in 1..Len(ready) : ready[j] \in [task : Tasks, result : Results] BY ElementOfSeq DEF RunnerTypes
    <3> QED BY <3>1
  <2>2. \A j \in 1..Len(ready) : TaskFits(ready[j].task, req', last'.stops) BY <2>1, TaskKept DEF TasksFit
  <2>3. TaskFits(running, req', last'.stops) BY TaskKept DEF TasksFit, RunnerTypes
  <2>4. \A i \in 1..Len(ready') : TaskFits(ready'[i].task, req', last'.stops) BY <1>6, <2>2, <2>3
  <2>5. \A i \in 1..Len(tasks) : TaskFits(tasks[i], req', last'.stops) BY <1>1, TaskKept DEF TasksFit
  <2>6. TaskFits(running', req', last'.stops)
    BY DEF Runner!NoTask, TaskFits, OtherCommands, StartCommands, OwnerCommands
  <2> QED BY <2>4, <2>5, <2>6 DEF TasksFit
<1>8. \A c : ~StartOf(running', c) BY DEF Runner!NoTask, StartOf, StartCommands
<1>9. Starting' = {c \in Starting : ~StartOf(running, c)} BY <1>8 DEF Starting, StartsOnce
<1>10. StartsOnce'
  <2>1. ASSUME NEW i \in 1..Len(tasks), tasks[i].cmd = "confirm"
        PROVE  req'[tasks[i].c].completed \/ \E j \in 1..(i - 1) : StartOf(tasks[j], tasks[i].c)
    <3>1. tasks[i].c \in 1..MaxRequests BY <1>1, <2>1 DEF TasksFit, TaskFits, OtherCommands, Tasks
    <3> QED BY <2>1, <3>1 DEF StartsOnce
  <2>2. running'.cmd # "confirm" BY DEF Runner!NoTask
  <2>3. \A c \in 1..MaxRequests : req'[c].completed => c \notin Starting' BY <1>9 DEF StartsOnce
  <2> QED BY <1>8, <2>1, <2>2, <2>3 DEF StartsOnce
<1> QED BY <1>3, <1>6, <1>7, <1>9, <1>10

-----------------------------------------------------------------------------
\* A step of a request that leaves the owner alone.
Follows(d) ==
  /\ req'[d].kind = req[d].kind
  /\ req[d].kind = "none" => req'[d] = req[d]
  /\ req'[d].kind = "bound" => (req'[d].target <=> req'[d].svc # "none")
  /\ req'[d].interrupted => req'[d].cancel
  /\ "promoted" \in req'[d].told =>
       "promoted" \in req[d].told /\ (req'[d].cancel => req[d].cancel \/ req'[d].asked)
  /\ "settled" \in req'[d].told => "settled" \in req[d].told \/ d \in SettledOnes'

LEMMA FollowsSame ==
  ASSUME NEW d \in 1..MaxRequests, RequestFits(d), req'[d] = req[d] PROVE Follows(d)
BY DEF Follows, RequestFits

LEMMA SettledStay ==
  ASSUME RequestsGrow,
         \A d \in SettledOnes : d \notin Starting' /\ (req[d].svc = "none" => req'[d].svc = "none")
  PROVE  SettledOnes \subseteq SettledOnes'
BY DEF SettledOnes, RequestsGrow

LEMMA RequestsFollow ==
  ASSUME \A d \in 1..MaxRequests : RequestFits(d) /\ Follows(d), RequestsGrow,
         SettledOnes \subseteq SettledOnes'
  PROVE  (\A d \in 1..MaxRequests : RequestFits(d))'
<1>1. SUFFICES ASSUME NEW d \in 1..MaxRequests PROVE RequestFits(d)' OBVIOUS
<1>2. RequestFits(d) /\ Follows(d) OBVIOUS
<1>3. req'[d].kind = "none" =>
        /\ req'[d].svc = "none" /\ req'[d].told = {} /\ ~req'[d].completed /\ ~req'[d].interrupted
        /\ ~req'[d].target
  BY <1>2 DEF RequestFits, Follows
<1>4. "promoted" \in req'[d].told => req'[d].kind = "bound" /\ req'[d].completed /\ (req'[d].cancel => req'[d].asked)
  BY <1>2 DEF RequestFits, Follows, RequestsGrow
<1>5. "settled" \in req'[d].told => d \in SettledOnes' BY <1>2 DEF RequestFits, Follows
<1> QED BY <1>2, <1>3, <1>4, <1>5 DEF RequestFits, Follows

\* The window keeps its owner, perhaps without its id: what the owner must have does not grow.
LEMMA RunnerFollows ==
  ASSUME RunnerInv, RunnerTypes', RequestsGrow, TasksFit', StartsOnce',
         \A d \in 1..MaxRequests :
           /\ Follows(d)
           /\ d \in Starting' => d \in Starting
           /\ d \in Starting => d \in Starting' \/ req'[d].completed
           /\ d \in LiveOnes' => d \in LiveOnes \/ (d \in Starting /\ window # "closed"),
         SettledOnes \subseteq SettledOnes',
         owner'.c = owner.c, owner'.bound = owner.bound, owner'.promoted = owner.promoted,
         owner'.id = owner.id \/ owner'.id = 0, UNCHANGED <<stopped, window>>,
         \A i \in 1..Len(ready') :
           \/ \E j \in 1..Len(ready) : ready'[i] = ready[j]
           \/ ready'[i].task.cmd = "confirm" /\ ready'[i].result = "stopped" => ready'[i].task.c \in SettledOnes',
         window \in {"closing", "closed"} => tasks' = tasks, window = "closed" => running' = running,
         Runner!IntentIsNewest'
  PROVE  RunnerInv'
<1> USE DEF RunnerInv
<1>1. (\A d \in 1..MaxRequests : RequestFits(d))' BY RequestsFollow
<1>2. owner.c # 0 => owner.c \in 1..MaxRequests BY DEF RunnerTypes, Owners
<1>3. OwnerFits'
  <2>1. CASE owner.c = 0 BY <2>1 DEF OwnerFits
  <2>2. CASE owner.c # 0
    <3>1. req'[owner.c].kind = req[owner.c].kind
          /\ ("promoted" \in req'[owner.c].told <=> "promoted" \in req[owner.c].told)
          /\ (req[owner.c].completed \/ owner.c \in Starting => req'[owner.c].completed \/ owner.c \in Starting')
      BY <1>2, <2>2 DEF Follows, RequestsGrow
    <3> QED BY <2>2, <3>1 DEF OwnerFits
  <2> QED BY <2>1, <2>2
<1>4. MustOwn'
  <2>1. SUFFICES ASSUME NEW c \in 1..MaxRequests
                 PROVE  /\ window' # "closed" /\ req'[c].kind = "bound" /\ c \in Starting' \cup LiveOnes' => owner'.c = c
                        /\ req'[c].kind = "plain" /\ c \in Starting' /\ req'[c].svc = "none" /\ ~req'[c].cancel
                             => owner'.c = c
    BY DEF MustOwn
  <2>2. req'[c].kind = req[c].kind BY DEF Follows
  <2> QED BY <2>2 DEF MustOwn, RequestsGrow
<1>5. StopsFit' BY DEF StopsFit
<1>6. CloseFits'
  <2>1. ASSUME window' = "closed", NEW c \in LiveOnes' PROVE req'[c].tried \/ "promoted" \in req'[c].told
    <3>1. c \in LiveOnes /\ c \in 1..MaxRequests BY <2>1 DEF LiveOnes
    <3> QED BY <2>1, <3>1 DEF CloseFits, RequestsGrow
  <2> QED BY <2>1 DEF CloseFits
<1> QED BY <1>1, <1>3, <1>4, <1>5, <1>6

\* Steps that also leave the queue alone.
LEMMA RunnerFollowsQuietly ==
  ASSUME RunnerInv, RunnerTypes', RequestsGrow, ReadyShrinks, UNCHANGED <<tasks, running, owner, stopped, window>>,
         \A d \in 1..MaxRequests :
           /\ Follows(d) /\ req'[d].completed = req[d].completed
           /\ req[d].svc = "none" => req'[d].svc = "none" \/ (StartOf(running, d) /\ window # "closed")
           /\ d \in LiveOnes' => d \in LiveOnes \/ (d \in Starting /\ window # "closed"),
         SettledOnes \subseteq SettledOnes',
         Runner!IntentIsNewest'
  PROVE  RunnerInv'
<1>1. TasksFit' /\ StartsOnce' /\ Starting' = Starting BY QueueStays DEF RunnerInv
<1> QED BY <1>1, RunnerFollows DEF ReadyShrinks, RunnerInv

\* What a request may become while the owner and the queue stay.
MayBecome(c, r) ==
  /\ r \in Reqs /\ r.kind = req[c].kind /\ r.kind # "none" /\ r.completed = req[c].completed
  /\ (req[c].asked => r.asked) /\ (req[c].cancel => r.cancel) /\ (req[c].tried => r.tried)
  /\ req[c].told \subseteq r.told
  /\ (req[c].svc = "ended" => r.svc = "ended") /\ (r.svc = "none" => req[c].svc = "none")
  /\ req[c].svc = "none" => r.svc = "none" \/ (StartOf(running, c) /\ window # "closed")
  /\ r.kind = "bound" => (r.target <=> r.svc # "none")
  /\ r.interrupted => r.cancel
  /\ "promoted" \in r.told => "promoted" \in req[c].told /\ (r.cancel => req[c].cancel \/ r.asked)
  /\ "settled" \in r.told => "settled" \in req[c].told \/ c \in SettledOnes

LEMMA RunnerOneQuiet ==
  ASSUME RunnerInv, NEW c \in 1..MaxRequests, NEW r, MayBecome(c, r), req' = [req EXCEPT ![c] = r], ReadyShrinks,
         UNCHANGED <<tasks, running, owner, stopped, window, intent, count, last>>
  PROVE  RunnerInv'
<1> USE DEF RunnerInv, MayBecome
<1>1. req' \in [1..MaxRequests -> Reqs] /\ req'[c] = r /\ \A d \in 1..MaxRequests : d # c => req'[d] = req[d]
  BY DEF RunnerTypes
<1>2. RunnerTypes' BY <1>1 DEF RunnerTypes, ReadyShrinks
<1>3. RequestsGrow BY <1>1 DEF RequestsGrow
<1>4. Starting' = Starting BY DEF Starting
<1>5. \A d \in 1..MaxRequests : req[d].svc = "none" => req'[d].svc = "none" \/ (StartOf(running, d) /\ window # "closed")
  BY <1>1
<1>6. SettledOnes \subseteq SettledOnes'
  <2>1. \A d \in SettledOnes : d \notin Starting' /\ (req[d].svc = "none" => req'[d].svc = "none")
    BY <1>4, <1>5 DEF SettledOnes, Starting
  <2> QED BY <1>3, <2>1, SettledStay
<1>7. Follows(c) BY <1>1, <1>6 DEF Follows
<1>8. \A d \in 1..MaxRequests : Follows(d) /\ req'[d].completed = req[d].completed BY <1>1, <1>7, FollowsSame
<1>9. \A d \in 1..MaxRequests : d \in LiveOnes' => d \in LiveOnes \/ (d \in Starting /\ window # "closed")
  <2>1. SUFFICES ASSUME NEW d \in 1..MaxRequests, d \in LiveOnes', d = c
                 PROVE  d \in LiveOnes \/ (d \in Starting /\ window # "closed")
    BY <1>1 DEF LiveOnes
  <2>2. r.kind = "bound" /\ r.svc \in {"starting", "up"} BY <1>1, <2>1 DEF LiveOnes
  <2>3. req[c].svc \in {"none", "starting", "up", "ended"} BY DEF RunnerTypes, Reqs
  <2>4. CASE req[c].svc = "none" BY <2>1, <2>2, <2>4 DEF Starting
  <2>5. CASE req[c].svc # "none" BY <2>1, <2>2, <2>3, <2>5 DEF LiveOnes
  <2> QED BY <2>4, <2>5
<1>10. Runner!IntentIsNewest' BY DEF Runner!IntentIsNewest
<1> QED BY <1>2, <1>3, <1>5, <1>6, <1>8, <1>9, <1>10, RunnerFollowsQuietly

\* The request a task is for.
LEMMA TaskOfRequest ==
  ASSUME RunnerInv, NEW t \in Tasks, TaskFits(t, req, last.stops), t.cmd \notin OtherCommands
  PROVE  t.c \in 1..MaxRequests /\ req[t.c] \in Reqs /\ req[t.c].kind # "none" /\ RequestFits(t.c)
<1>1. t.c \in 1..MaxRequests BY DEF TaskFits, Tasks
<1>2. t.cmd \in StartCommands \/ t.cmd \in OwnerCommands BY DEF Tasks
<1>3. req[t.c].kind # "none" BY <1>2 DEF TaskFits, StartCommands
<1> QED BY <1>1, <1>3 DEF RunnerInv, RunnerTypes

LEMMA RunningRequest ==
  ASSUME RunnerInv, running.cmd \notin OtherCommands
  PROVE  running.c \in 1..MaxRequests /\ req[running.c] \in Reqs /\ req[running.c].kind # "none" /\ RequestFits(running.c)
BY TaskOfRequest DEF RunnerInv, RunnerTypes, TasksFit

LEMMA WriteKept == ASSUME RunnerInv, Runner!Write PROVE RunnerInv'
<1> USE DEF Runner!Runs
<1>1. /\ running.cmd \in StartCommands /\ ~req[running.c].cancel /\ req[running.c].svc = "none"
      /\ UNCHANGED <<owner, stopped, intent, tasks, running, ready, window, count, last>>
      /\ req' = [req EXCEPT ![running.c].svc = "starting", ![running.c].target = (running.cmd = "bound")]
  BY DEF Runner!Write, Runner!Starts, StartCommands
<1>2. PICK c : c = running.c OBVIOUS
<1>3. c \in 1..MaxRequests /\ req[c] \in Reqs /\ req[c].kind # "none" /\ RequestFits(c) /\ req[c].kind = running.cmd
  BY <1>1, <1>2, RunningRequest DEF StartCommands, OtherCommands, RunnerInv, TasksFit, TaskFits
<1> DEFINE r == [req[c] EXCEPT !.svc = "starting", !.target = (running.cmd = "bound")]
<1>4. req' = [req EXCEPT ![c] = r] BY <1>1, <1>2, <1>3 DEF RunnerInv, RunnerTypes
<1>5. (running.cmd = "bound") \in BOOLEAN OBVIOUS
<1>6. r \in Reqs BY <1>3, <1>5 DEF Reqs
<1>7. /\ r.kind = req[c].kind /\ r.completed = req[c].completed /\ r.asked = req[c].asked
      /\ r.cancel = req[c].cancel /\ r.tried = req[c].tried /\ r.told = req[c].told
      /\ r.interrupted = req[c].interrupted /\ r.svc = "starting" /\ (r.target <=> running.cmd = "bound")
  BY <1>3 DEF Reqs
<1>8. window # "closed"
  BY <1>1 DEF RunnerInv, CloseFits, StartCommands, Runner!NoTask
<1>9. StartOf(running, c) BY <1>1, <1>2 DEF StartOf
<1>10. ReadyShrinks BY <1>1, ReadySame DEF RunnerInv
<1> HIDE DEF r
<1>11. MayBecome(c, r) BY <1>1, <1>2, <1>3, <1>6, <1>7, <1>8, <1>9 DEF RequestFits, MayBecome
<1> QED BY <1>1, <1>3, <1>4, <1>10, <1>11, RunnerOneQuiet

\* The service ends a start, or stops what was interrupted.
LEMMA ServiceKept ==
  ASSUME RunnerInv, NEW c \in 1..MaxRequests, NEW well \in BOOLEAN,
         Runner!ServiceEnds(c, well) \/ Runner!ServiceStops(c)
  PROVE  RunnerInv'
<1>1. PICK s \in {"up", "ended"} :
        /\ req[c].svc \in {"starting", "up"} /\ req' = [req EXCEPT ![c].svc = s]
        /\ UNCHANGED <<owner, stopped, intent, tasks, running, ready, window, count, last>>
  BY DEF Runner!ServiceEnds, Runner!ServiceStops
<1>2. req[c] \in Reqs /\ RequestFits(c) /\ req[c].kind # "none" BY <1>1 DEF RunnerInv, RunnerTypes, RequestFits
<1> DEFINE r == [req[c] EXCEPT !.svc = s]
<1>3. req' = [req EXCEPT ![c] = r] BY <1>1 DEF RunnerInv, RunnerTypes
<1>4. /\ r.kind = req[c].kind /\ r.completed = req[c].completed /\ r.asked = req[c].asked
      /\ r.cancel = req[c].cancel /\ r.tried = req[c].tried /\ r.told = req[c].told
      /\ r.interrupted = req[c].interrupted /\ r.svc = s /\ r.target = req[c].target /\ r \in Reqs
  BY <1>2 DEF Reqs
<1> HIDE DEF r
<1>5. ReadyShrinks BY <1>1, ReadySame DEF RunnerInv
<1>6. MayBecome(c, r) BY <1>1, <1>2, <1>4 DEF RequestFits, MayBecome
<1> QED BY <1>1, <1>3, <1>5, <1>6, RunnerOneQuiet

\* Dart is told something; "settled" only of what is.
LEMMA TellKept ==
  ASSUME RunnerInv, NEW c \in 1..MaxRequests, NEW what \in Facts, ReadyShrinks,
         req' = [req EXCEPT ![c].told = @ \cup {what}],
         UNCHANGED <<owner, stopped, intent, tasks, running, window, count, last>>,
         req[c].kind # "none", what # "promoted", what = "settled" => c \in SettledOnes
  PROVE  RunnerInv'
<1>1. req[c] \in Reqs /\ RequestFits(c) BY DEF RunnerInv, RunnerTypes
<1> DEFINE r == [req[c] EXCEPT !.told = @ \cup {what}]
<1>2. req' = [req EXCEPT ![c] = r] BY DEF RunnerInv, RunnerTypes
<1>3. /\ r.kind = req[c].kind /\ r.completed = req[c].completed /\ r.asked = req[c].asked
      /\ r.cancel = req[c].cancel /\ r.tried = req[c].tried /\ r.told = req[c].told \cup {what}
      /\ r.interrupted = req[c].interrupted /\ r.svc = req[c].svc /\ r.target = req[c].target
  BY <1>1 DEF Reqs
<1>4. r \in Reqs BY <1>1 DEF Reqs
<1> HIDE DEF r
<1>5. MayBecome(c, r) BY <1>1, <1>3, <1>4 DEF RequestFits, MayBecome
<1> QED BY <1>2, <1>5, RunnerOneQuiet

LEMMA ConfirmKnownKept ==
  ASSUME RunnerInv, NEW c \in 1..MaxRequests, Runner!ConfirmKnown(c) PROVE RunnerInv'
<1>1. /\ req' = [req EXCEPT ![c].told = @ \cup {"settled"}] /\ stopped = c
      /\ UNCHANGED <<owner, stopped, intent, tasks, running, ready, window, count, last>>
  BY DEF Runner!ConfirmKnown
<1>2. c \in SettledOnes BY <1>1 DEF RunnerInv, StopsFit
<1>3. req[c].kind # "none" BY <1>2 DEF SettledOnes
<1>4. ReadyShrinks BY <1>1, ReadySame DEF RunnerInv
<1> QED BY <1>1, <1>2, <1>3, <1>4, TellKept DEF Facts

\* The completion at the head of the queue.
LEMMA FirstCompletion ==
  ASSUME RunnerInv, NEW cmd, Runner!Drains(cmd)
  PROVE  /\ window = "open" /\ ReadyShrinks /\ ready'= Tail(ready)
         /\ Runner!Completion.task \in Tasks /\ Runner!Completion.result \in Results
         /\ TaskFits(Runner!Completion.task, req, last.stops) /\ Runner!Completion.task.cmd = cmd
         /\ (cmd = "confirm" /\ Runner!Completion.result = "stopped" => Runner!C \in SettledOnes)
         /\ (cmd \notin OtherCommands => Runner!C \in 1..MaxRequests /\ req[Runner!C].kind # "none")
<1> USE DEF Runner!Drains, Runner!Completion, Runner!C
<1>1. window = "open" /\ ready # <<>> /\ ready' = Tail(ready) /\ Runner!Completion.task.cmd = cmd
  BY DEF Runner!Open
<1>2. ReadyShrinks BY <1>1, ReadyTail DEF RunnerInv
<1>3. Head(ready) = ready[1] /\ 1 \in 1..Len(ready)
  BY <1>1, HeadTailProperties, LenProperties, EmptySeq DEF RunnerInv, RunnerTypes
<1>4. Head(ready) \in [task : Tasks, result : Results]
  <2>1. ready \in Seq([task : Tasks, result : Results]) BY DEF RunnerInv, RunnerTypes
  <2>2. ready[1] \in [task : Tasks, result : Results] BY <1>3, <2>1, ElementOfSeq
  <2> QED BY <1>3, <2>2
<1>5. TaskFits(Head(ready).task, req, last.stops) BY <1>3 DEF RunnerInv, TasksFit
<1>6. cmd = "confirm" /\ Head(ready).result = "stopped" => Head(ready).task.c \in SettledOnes
  BY <1>1, <1>3 DEF RunnerInv, StopsFit
<1>7. Head(ready).task \in Tasks /\ Head(ready).result \in Results BY <1>4
<1>8. cmd \notin OtherCommands => Head(ready).task.c \in 1..MaxRequests /\ req[Head(ready).task.c].kind # "none"
  BY <1>1, <1>5, <1>7, TaskOfRequest
<1> QED BY <1>1, <1>2, <1>5, <1>6, <1>7, <1>8

LEMMA DrainBoundKept == ASSUME RunnerInv, Runner!DrainBound PROVE RunnerInv'
<1>1. /\ Runner!Drains("bound")
      /\ UNCHANGED <<owner, stopped, intent, tasks, running, window, count, last>>
      /\ \E what \in {"cancelled", "connected", "failed"} : req' = [req EXCEPT ![Runner!C].told = @ \cup {what}]
  BY DEF Runner!DrainBound, Runner!Tell
<1>c. PICK c : c = Runner!C OBVIOUS
<1>2. PICK what \in {"cancelled", "connected", "failed"} : req' = [req EXCEPT ![c].told = @ \cup {what}]
  BY <1>1, <1>c
<1>3. ReadyShrinks /\ c \in 1..MaxRequests /\ req[c].kind # "none"
  BY <1>1, <1>c, FirstCompletion DEF OtherCommands
<1> QED BY <1>1, <1>2, <1>3, TellKept DEF Facts

\* Steps in which no request changes.
LEMMA RunnerSame ==
  ASSUME RunnerInv, ReadyShrinks, UNCHANGED <<tasks, running, owner, stopped, window, count, last, req>>,
         intent' \in Digests, Runner!IntentIsNewest'
  PROVE  RunnerInv'
<1> USE DEF RunnerInv
<1>1. RunnerTypes' BY DEF RunnerTypes, ReadyShrinks
<1>2. RequestsGrow BY DEF RequestsGrow, RunnerTypes
<1>3. Starting' = Starting /\ LiveOnes' = LiveOnes BY DEF Starting, LiveOnes
<1>4. SettledOnes \subseteq SettledOnes' BY <1>3 DEF SettledOnes
<1>5. \A d \in 1..MaxRequests : Follows(d) BY FollowsSame
<1> QED BY <1>1, <1>2, <1>3, <1>4, <1>5, RunnerFollowsQuietly

LEMMA RunnerUnchanged == ASSUME RunnerInv, UNCHANGED Runner!vars PROVE RunnerInv'
<1>1. UNCHANGED <<owner, stopped, intent, req, tasks, running, ready, window, count, last>> BY DEF Runner!vars
<1>2. ReadyShrinks BY <1>1, ReadySame DEF RunnerInv
<1>3. intent' \in Digests /\ Runner!IntentIsNewest' BY <1>1 DEF RunnerInv, RunnerTypes, Runner!IntentIsNewest
<1> QED BY <1>1, <1>2, <1>3, RunnerSame

LEMMA DrainOtherKept == ASSUME RunnerInv, Runner!DrainOther PROVE RunnerInv'
<1>1. PICK cmd \in {"plain", "stage", "ask", "cancel", "revoke", "control"} : Runner!Drains(cmd)
  BY DEF Runner!DrainOther
<1>2. UNCHANGED <<owner, stopped, intent, req, tasks, running, window, count, last>> BY DEF Runner!DrainOther
<1>3. ReadyShrinks BY <1>1, FirstCompletion
<1>4. intent' \in Digests /\ Runner!IntentIsNewest' BY <1>2 DEF RunnerInv, RunnerTypes, Runner!IntentIsNewest
<1> QED BY <1>2, <1>3, <1>4, RunnerSame

\* Only the profile that a stop was asked under is forgotten.
LEMMA IntentForgotten ==
  ASSUME RunnerInv, NEW t \in Tasks, TaskFits(t, req, last.stops), t.cmd \in {"confirm", "disconnect"},
         intent' = intent \/ (intent' = 0 /\ intent = t.intent), UNCHANGED last
  PROVE  intent' \in Digests /\ Runner!IntentIsNewest'
<1>1. intent' \in Digests BY DEF RunnerInv, RunnerTypes, Digests
<1>2. t.intent \in last.stops BY DEF TaskFits
<1>3. Runner!IntentIsNewest' BY <1>2 DEF RunnerInv, Runner!IntentIsNewest
<1> QED BY <1>1, <1>3

LEMMA DrainDisconnectKept ==
  ASSUME RunnerInv, NEW clean \in BOOLEAN, Runner!DrainDisconnect(clean) PROVE RunnerInv'
<1>1. /\ Runner!Drains("disconnect") /\ UNCHANGED <<owner, stopped, req, tasks, running, window, count, last>>
      /\ (intent' = intent \/ (intent' = 0 /\ intent = Runner!Completion.task.intent))
  BY DEF Runner!DrainDisconnect
<1>2. ReadyShrinks /\ Runner!Completion.task \in Tasks /\ Runner!Completion.task.cmd = "disconnect"
      /\ TaskFits(Runner!Completion.task, req, last.stops)
  BY <1>1, FirstCompletion
<1>3. PICK t : t = Runner!Completion.task OBVIOUS
<1>4. intent' \in Digests /\ Runner!IntentIsNewest' BY <1>1, <1>2, <1>3, IntentForgotten
<1> QED BY <1>1, <1>2, <1>4, RunnerSame

LEMMA PickKept == ASSUME MaxQueue \in Nat, RunnerInv, Runner!Pick PROVE RunnerInv'
<1> USE DEF RunnerInv
<1>1. /\ window # "closed" /\ running = Runner!NoTask /\ tasks # <<>>
      /\ running' = Head(tasks) /\ tasks' = Tail(tasks)
      /\ UNCHANGED <<owner, stopped, intent, req, ready, window, count, last>>
  BY DEF Runner!Pick
<1>2. /\ TasksFit' /\ StartsOnce' /\ Starting' = Starting
      /\ tasks' \in Seq(Tasks) /\ Len(tasks') <= MaxQueue /\ running' \in Tasks
  BY <1>1, QueueMoves
<1>3. RunnerTypes' BY <1>1, <1>2 DEF RunnerTypes
<1>4. RequestsGrow BY <1>1 DEF RequestsGrow, RunnerTypes
<1>5. LiveOnes' = LiveOnes BY <1>1 DEF LiveOnes
<1>6. SettledOnes \subseteq SettledOnes' BY <1>1, <1>2 DEF SettledOnes
<1>7. \A d \in 1..MaxRequests : Follows(d) BY <1>1, FollowsSame
<1>8. window \notin {"closing", "closed"} BY <1>1 DEF CloseFits, RunnerTypes
<1>9. Runner!IntentIsNewest' BY <1>1 DEF Runner!IntentIsNewest
<1> QED BY <1>1, <1>2, <1>3, <1>4, <1>5, <1>6, <1>7, <1>8, <1>9, RunnerFollows

\* What a request may be when the worker's call is over.
MayReturn(d, r) ==
  /\ r \in Reqs /\ r.kind = req[d].kind /\ (r.kind = "none" => r = req[d]) /\ r.completed = req[d].completed
  /\ (req[d].asked => r.asked) /\ (req[d].cancel => r.cancel) /\ (req[d].tried => r.tried)
  /\ r.told = req[d].told
  /\ (req[d].svc = "ended" => r.svc = "ended") /\ (r.svc = "none" <=> req[d].svc = "none")
  /\ (r.svc = req[d].svc \/ r.svc = "ended") /\ r.target = req[d].target
  /\ r.interrupted => r.cancel
  /\ "promoted" \in r.told => (r.cancel => req[d].cancel \/ r.asked)

LEMMA MayReturnSame ==
  ASSUME NEW d \in 1..MaxRequests, RequestFits(d), req[d] \in Reqs PROVE MayReturn(d, req[d])
BY DEF MayReturn, RequestFits

LEMMA RunnerReturns ==
  ASSUME RunnerInv, MaxRequests \in Nat, running.cmd # "none", NEW result \in Results, NEW q,
         q \in [1..MaxRequests -> Reqs], Runner!Return(result, q),
         \A d \in 1..MaxRequests : MayReturn(d, q[d]),
         running.cmd = "confirm" /\ result = "stopped" => q[running.c].svc \in {"none", "ended"}
  PROVE  RunnerInv'
<1> USE DEF RunnerInv
<1>1. /\ running' = Runner!NoTask /\ ready' = Append(ready, [task |-> running, result |-> result])
      /\ UNCHANGED <<owner, stopped, intent, tasks, window, count, last>>
      /\ req' = IF running.c = 0 THEN q ELSE [q EXCEPT ![running.c].completed = @ \/ running.cmd \in StartCommands]
  BY DEF Runner!Return, Runner!Starts, Runner!Runs, StartCommands
<1>2. running \in Tasks BY DEF RunnerTypes
<1>3. running.c # 0 => running.c \in 1..MaxRequests BY <1>2 DEF Tasks
<1>4. running.cmd \in StartCommands => running.c # 0
  BY DEF TasksFit, TaskFits, StartCommands, OtherCommands
<1>5. /\ req' \in [1..MaxRequests -> Reqs]
      /\ \A d \in 1..MaxRequests : req'[d] = IF d = running.c
                                             THEN [q[d] EXCEPT !.completed = @ \/ running.cmd \in StartCommands]
                                             ELSE q[d]
  <2>1. CASE running.c = 0
    <3>1. \A d \in 1..MaxRequests : d # running.c BY <2>1
    <3> QED BY <1>1, <2>1, <3>1
  <2>2. CASE running.c # 0
    <3>1. q[running.c] \in Reqs BY <1>3, <2>2
    <3>2. (q[running.c].completed \/ running.cmd \in StartCommands) \in BOOLEAN OBVIOUS
    <3>3. [q[running.c] EXCEPT !.completed = @ \/ running.cmd \in StartCommands] \in Reqs
      BY <3>1, <3>2 DEF Reqs
    <3> QED BY <1>1, <1>3, <2>2, <3>3
  <2> QED BY <2>1, <2>2
<1>6. ASSUME NEW d \in 1..MaxRequests
      PROVE  /\ req'[d].kind = q[d].kind /\ req'[d].asked = q[d].asked /\ req'[d].cancel = q[d].cancel
             /\ req'[d].tried = q[d].tried /\ req'[d].told = q[d].told /\ req'[d].svc = q[d].svc
             /\ req'[d].target = q[d].target /\ req'[d].interrupted = q[d].interrupted
             /\ (req'[d].completed <=> q[d].completed \/ StartOf(running, d))
             /\ (d # running.c => req'[d] = q[d])
  BY <1>5 DEF StartOf, Reqs
<1>7. RequestsGrow BY <1>1, <1>5, <1>6 DEF RequestsGrow, MayReturn
<1>8. Runner!NoTask \in Tasks BY DEF Runner!NoTask, Tasks, Digests, OtherCommands
<1>9. \A d \in 1..MaxRequests :
        /\ req'[d].completed <=> req[d].completed \/ StartOf(running, d)
        /\ req[d].svc = "none" => req'[d].svc = "none"
  BY <1>6 DEF MayReturn
<1>10. /\ TasksFit' /\ StartsOnce' /\ Starting' = {c \in Starting : ~StartOf(running, c)}
       /\ running' \in Tasks /\ ready' \in Seq([task : Tasks, result : Results])
       /\ \A i \in 1..Len(ready') :
            \/ \E j \in 1..Len(ready) : ready'[i] = ready[j]
            \/ ready'[i] = [task |-> running, result |-> result]
  BY <1>1, <1>7, <1>8, <1>9, QueueReturns
<1>11. RunnerTypes' BY <1>1, <1>5, <1>10 DEF RunnerTypes
<1>12. SettledOnes \subseteq SettledOnes'
  BY <1>7, <1>9, <1>10, SettledStay DEF SettledOnes
<1>13. ASSUME NEW d \in 1..MaxRequests PROVE Follows(d)
  <2>1. req[d].kind = "none" => req'[d] = req[d]
    <3>1. req[d].kind = "none" => d # running.c
      <4>1. CASE running.cmd \in OtherCommands BY <4>1 DEF TasksFit, TaskFits
      <4>2. CASE running.cmd \notin OtherCommands BY <4>2, RunningRequest
      <4> QED BY <4>1, <4>2
    <3> QED BY <1>6, <3>1 DEF MayReturn
  <2>2. req'[d].kind = "bound" => (req'[d].target <=> req'[d].svc # "none")
    BY <1>6 DEF MayReturn, RequestFits
  <2> QED BY <1>6, <2>1, <2>2 DEF Follows, MayReturn
<1>14. \A d \in 1..MaxRequests : d \in Starting => d \in Starting' \/ req'[d].completed
  BY <1>9, <1>10
<1>15. \A d \in 1..MaxRequests : d \in LiveOnes' => d \in LiveOnes
  BY <1>6 DEF LiveOnes, MayReturn
<1>16. running.cmd = "confirm" /\ result = "stopped" => running.c \in SettledOnes'
  <2>1. SUFFICES ASSUME running.cmd = "confirm", result = "stopped" PROVE running.c \in SettledOnes' OBVIOUS
  <2>2. PICK c : c = running.c OBVIOUS
  <2>3. c \in 1..MaxRequests /\ req[c].kind # "none" BY <2>1, <2>2, RunningRequest DEF OtherCommands
  <2>4. req'[c].svc \in {"none", "ended"} /\ req'[c].kind # "none" BY <1>6, <2>1, <2>2, <2>3 DEF MayReturn
  <2>5. req[c].completed BY <2>1, <2>2 DEF StartsOnce
  <2>6. c \notin Starting' BY <1>10, <2>3, <2>5 DEF StartsOnce
  <2> QED BY <2>2, <2>3, <2>4, <2>6 DEF SettledOnes
<1>17. \A i \in 1..Len(ready') :
         \/ \E j \in 1..Len(ready) : ready'[i] = ready[j]
         \/ ready'[i].task.cmd = "confirm" /\ ready'[i].result = "stopped" => ready'[i].task.c \in SettledOnes'
  BY <1>10, <1>16
<1>18. Runner!IntentIsNewest' BY <1>1 DEF Runner!IntentIsNewest
<1>19. window # "closed" BY DEF CloseFits, Runner!NoTask
<1> QED BY <1>1, <1>7, <1>10, <1>11, <1>12, <1>13, <1>14, <1>15, <1>17, <1>18, <1>19, RunnerFollows

\* The exact cancellation of a request that was asked for, or never promoted.
LEMMA CancelledMayReturn ==
  ASSUME RunnerInv, NEW c \in 1..MaxRequests, NEW heard \in BOOLEAN, req[c].kind # "none",
         req[c].asked \/ req[c].cancel \/ "promoted" \notin req[c].told
  PROVE  /\ Runner!Cancelled(c, heard) \in [1..MaxRequests -> Reqs]
         /\ \A d \in 1..MaxRequests : MayReturn(d, Runner!Cancelled(c, heard)[d])
         /\ \A d \in 1..MaxRequests : d # c => Runner!Cancelled(c, heard)[d] = req[d]
         /\ Runner!Cancelled(c, heard)[c].tried /\ Runner!Cancelled(c, heard)[c].cancel
<1> DEFINE i == req[c].interrupted \/ (heard /\ req[c].svc \in {"starting", "up"})
           r == [req[c] EXCEPT !.cancel = TRUE, !.tried = TRUE, !.interrupted = i]
<1>1. req \in [1..MaxRequests -> Reqs] /\ req[c] \in Reqs BY DEF RunnerInv, RunnerTypes
<1>2. Runner!Cancelled(c, heard) = [req EXCEPT ![c] = r] BY <1>1 DEF Runner!Cancelled
<1>3. i \in BOOLEAN OBVIOUS
<1> HIDE DEF i
<1>4. r \in Reqs /\ r.kind = req[c].kind /\ r.completed = req[c].completed /\ r.asked = req[c].asked
      /\ r.cancel = TRUE /\ r.tried = TRUE /\ r.told = req[c].told /\ r.svc = req[c].svc /\ r.target = req[c].target
  BY <1>1, <1>3 DEF Reqs
<1> HIDE DEF r
<1>5. MayReturn(c, r) BY <1>4 DEF MayReturn
<1>6. \A d \in 1..MaxRequests : MayReturn(d, req[d]) BY <1>1, MayReturnSame DEF RunnerInv
<1> QED BY <1>1, <1>2, <1>4, <1>5, <1>6

LEMMA SameMayReturn ==
  ASSUME RunnerInv
  PROVE  req \in [1..MaxRequests -> Reqs] /\ \A d \in 1..MaxRequests : MayReturn(d, req[d])
BY MayReturnSame DEF RunnerInv, RunnerTypes

\* The end of a start: not written, answered, or lost.
LEMMA StartReturns ==
  ASSUME RunnerInv, MaxRequests \in Nat, NEW heard \in BOOLEAN,
         Runner!NotWritten \/ Runner!Answered \/ Runner!Lost(heard)
  PROVE  RunnerInv'
<1>1. running.cmd \in StartCommands
  BY DEF Runner!NotWritten, Runner!Answered, Runner!Lost, Runner!Starts, Runner!Runs, StartCommands
<1>2. running.cmd # "none" /\ running.cmd # "confirm" /\ running.cmd \notin OtherCommands
  BY <1>1 DEF StartCommands, OtherCommands
<1>3. CASE \E result \in {"ok", "failed"} : Runner!Return(result, req)
  <2>1. PICK result \in {"ok", "failed"} : Runner!Return(result, req) BY <1>3
  <2>2. PICK q : q = req OBVIOUS
  <2>3. q \in [1..MaxRequests -> Reqs] /\ \A d \in 1..MaxRequests : MayReturn(d, q[d]) BY <2>2, SameMayReturn
  <2>4. result \in Results /\ Runner!Return(result, q) BY <2>1, <2>2 DEF Results
  <2> QED BY <1>2, <2>3, <2>4, RunnerReturns
<1>4. CASE Runner!Lost(heard)
  <2>1. PICK c : c = running.c OBVIOUS
  <2>2. c \in 1..MaxRequests /\ req[c].kind # "none" /\ RequestFits(c) BY <1>2, <2>1, RunningRequest
  <2>3. c \in Starting BY <1>1, <2>1, <2>2 DEF Starting, StartOf
  <2>4. "promoted" \notin req[c].told BY <2>2, <2>3 DEF RunnerInv, StartsOnce, RequestFits
  <2>5. PICK q : q = Runner!Cancelled(c, heard) OBVIOUS
  <2>6. q \in [1..MaxRequests -> Reqs] /\ \A d \in 1..MaxRequests : MayReturn(d, q[d])
    BY <2>2, <2>4, <2>5, CancelledMayReturn
  <2>7. "failed" \in Results /\ Runner!Return("failed", q) BY <1>4, <2>1, <2>5 DEF Results, Runner!Lost
  <2> QED BY <1>2, <2>6, <2>7, RunnerReturns
<1> QED BY <1>3, <1>4 DEF Runner!NotWritten, Runner!Answered

LEMMA ConfirmReturns ==
  ASSUME RunnerInv, MaxRequests \in Nat, NEW heard \in BOOLEAN,
         NEW result \in {"stopped", "unsettled", "failed"}, Runner!Confirm(result, heard)
  PROVE  RunnerInv'
<1>1. running.cmd = "confirm" BY DEF Runner!Confirm, Runner!Runs
<1>2. PICK c : c = running.c OBVIOUS
<1>3. c \in 1..MaxRequests /\ req[c] \in Reqs /\ req[c].kind # "none" /\ RequestFits(c)
  BY <1>1, <1>2, RunningRequest DEF OtherCommands
<1>4. req[c].asked /\ req[c].kind = "bound"
  BY <1>1, <1>2 DEF RunnerInv, TasksFit, TaskFits, OwnerCommands
<1>5. CASE ~req[c].target
  <2>1. PICK q : q = req OBVIOUS
  <2>2. q \in [1..MaxRequests -> Reqs] /\ \A d \in 1..MaxRequests : MayReturn(d, q[d]) BY <2>1, SameMayReturn
  <2>3. Runner!Return(result, q) /\ result \in Results BY <1>2, <1>5, <2>1 DEF Runner!Confirm, Results
  <2>4. q[running.c].svc = "none" BY <1>2, <1>3, <1>4, <1>5, <2>1 DEF RequestFits
  <2> QED BY <1>1, <2>2, <2>3, <2>4, RunnerReturns
<1>6. CASE req[c].target
  <2>1. PICK p : p = Runner!Cancelled(c, heard) OBVIOUS
  <2>2. p \in [1..MaxRequests -> Reqs] /\ \A d \in 1..MaxRequests : MayReturn(d, p[d])
    BY <1>3, <1>4, <2>1, CancelledMayReturn
  <2>3. PICK s : s = IF result = "stopped" THEN "ended" ELSE p[c].svc OBVIOUS
  <2>4. PICK r : r = [p[c] EXCEPT !.svc = s] OBVIOUS
  <2>5. PICK q : q = [p EXCEPT ![c] = r] OBVIOUS
  <2>6. p[c] \in Reqs /\ s \in {"none", "starting", "up", "ended"} BY <1>3, <2>2, <2>3 DEF Reqs
  <2>7. r \in Reqs /\ r.kind = p[c].kind /\ r.completed = p[c].completed /\ r.asked = p[c].asked
        /\ r.cancel = p[c].cancel /\ r.tried = p[c].tried /\ r.told = p[c].told /\ r.svc = s
        /\ r.target = p[c].target /\ r.interrupted = p[c].interrupted
    BY <2>4, <2>6 DEF Reqs
  <2>8. req[c].svc # "none" BY <1>4, <1>6, <1>3 DEF RequestFits
  <2>9. MayReturn(c, r)
    <3>1. MayReturn(c, p[c]) BY <1>3, <2>2
    <3> QED BY <1>3, <2>3, <2>7, <2>8, <3>1 DEF MayReturn
  <2>10. q \in [1..MaxRequests -> Reqs] /\ \A d \in 1..MaxRequests : MayReturn(d, q[d])
    BY <1>3, <2>2, <2>5, <2>7, <2>9
  <2>11. q = [p EXCEPT ![c].svc = IF result = "stopped" THEN "ended" ELSE @]
    BY <1>3, <2>2, <2>3, <2>4, <2>5
  <2>12. Runner!Return(result, q) /\ result \in Results
    BY <1>2, <1>6, <2>1, <2>11 DEF Runner!Confirm, Results
  <2>13. result = "stopped" => q[running.c].svc = "ended" BY <1>2, <1>3, <2>2, <2>3, <2>5, <2>7
  <2> QED BY <1>1, <2>10, <2>12, <2>13, RunnerReturns
<1> QED BY <1>5, <1>6

LEMMA ExactCancelReturns ==
  ASSUME RunnerInv, MaxRequests \in Nat, NEW heard \in BOOLEAN, Runner!ExactCancel(heard)
  PROVE  RunnerInv'
<1>1. running.cmd = "cancel" BY DEF Runner!ExactCancel, Runner!Runs
<1>2. PICK c : c = running.c OBVIOUS
<1>3. c \in 1..MaxRequests /\ req[c].kind # "none" BY <1>1, <1>2, RunningRequest DEF OtherCommands
<1>4. req[c].asked BY <1>1, <1>2 DEF RunnerInv, TasksFit, TaskFits
<1>5. PICK q : q = IF req[c].target THEN Runner!Cancelled(c, heard) ELSE req OBVIOUS
<1>6. q \in [1..MaxRequests -> Reqs] /\ \A d \in 1..MaxRequests : MayReturn(d, q[d])
  BY <1>3, <1>4, <1>5, CancelledMayReturn, SameMayReturn
<1>7. PICK result \in {"ok", "failed"} : Runner!Return(result, q)
  BY <1>2, <1>5 DEF Runner!ExactCancel
<1> QED BY <1>1, <1>6, <1>7, RunnerReturns DEF Results

LEMMA LeaseReturns ==
  ASSUME RunnerInv, MaxRequests \in Nat, NEW took \in BOOLEAN, NEW answered \in BOOLEAN, Runner!Lease(took, answered)
  PROVE  RunnerInv'
<1> USE DEF Runner!Runs
<1>1. running.cmd \in {"promote", "revoke", "control"} BY DEF Runner!Lease
<1>2. PICK c : c = running.c OBVIOUS
<1>3. c \in 1..MaxRequests /\ req[c] \in Reqs /\ req[c].kind # "none" /\ RequestFits(c)
  BY <1>1, <1>2, RunningRequest DEF OtherCommands
<1>4. PICK l : l = IF took /\ running.cmd # "control" THEN running.cmd = "promote" ELSE req[c].lease OBVIOUS
<1>5. l \in BOOLEAN
  <2>1. req[c].lease \in BOOLEAN /\ (running.cmd = "promote") \in BOOLEAN BY <1>3 DEF Reqs
  <2> QED BY <1>4, <2>1
<1>6. PICK r : r = [req[c] EXCEPT !.lease = l] OBVIOUS
<1>7. PICK q : q = [req EXCEPT ![c] = r] OBVIOUS
<1>8. r \in Reqs /\ r.kind = req[c].kind /\ r.completed = req[c].completed /\ r.asked = req[c].asked
      /\ r.cancel = req[c].cancel /\ r.tried = req[c].tried /\ r.told = req[c].told /\ r.svc = req[c].svc
      /\ r.target = req[c].target /\ r.interrupted = req[c].interrupted
  BY <1>3, <1>5, <1>6 DEF Reqs
<1>9. MayReturn(c, r) BY <1>3, <1>8 DEF MayReturn, RequestFits
<1>10. q \in [1..MaxRequests -> Reqs] /\ \A d \in 1..MaxRequests : MayReturn(d, q[d])
  BY <1>3, <1>7, <1>8, <1>9, SameMayReturn
<1>11. PICK result \in {"ok", "failed"} :
         Runner!Return(result, [req EXCEPT ![c].lease = IF took /\ ~(running.cmd = "control") THEN running.cmd = "promote" ELSE @])
  BY <1>2 DEF Runner!Lease
<1>12. q = [req EXCEPT ![c].lease = IF took /\ ~(running.cmd = "control") THEN running.cmd = "promote" ELSE @]
  BY <1>3, <1>4, <1>6, <1>7, SameMayReturn
<1>13. Runner!Return(result, q) BY <1>11, <1>12
<1> QED BY <1>1, <1>10, <1>13, RunnerReturns DEF Results

LEMMA DisconnectReturns ==
  ASSUME RunnerInv, MaxRequests \in Nat, NEW done \in BOOLEAN, Runner!DisconnectRuns(done)
  PROVE  RunnerInv'
<1>1. running.cmd = "disconnect" BY DEF Runner!DisconnectRuns, Runner!Runs
<1>2. PICK q : q = [c \in 1..MaxRequests |-> [req[c] EXCEPT !.svc = IF done /\ @ \in {"starting", "up"}
                                                                      THEN "ended" ELSE @]]
  OBVIOUS
<1>3. ASSUME NEW d \in 1..MaxRequests PROVE q[d] \in Reqs /\ MayReturn(d, q[d])
  <2>1. req[d] \in Reqs /\ RequestFits(d) BY DEF RunnerInv, RunnerTypes
  <2>2. PICK s : s = IF done /\ req[d].svc \in {"starting", "up"} THEN "ended" ELSE req[d].svc OBVIOUS
  <2>3. s \in {"none", "starting", "up", "ended"} BY <2>1, <2>2 DEF Reqs
  <2>4. q[d] = [req[d] EXCEPT !.svc = s] BY <1>2, <2>2
  <2>5. q[d] \in Reqs /\ q[d].kind = req[d].kind /\ q[d].completed = req[d].completed /\ q[d].asked = req[d].asked
      /\ q[d].cancel = req[d].cancel /\ q[d].tried = req[d].tried /\ q[d].told = req[d].told /\ q[d].svc = s
      /\ q[d].target = req[d].target /\ q[d].interrupted = req[d].interrupted
    BY <2>1, <2>3, <2>4 DEF Reqs
  <2>6. req[d].kind = "none" => q[d] = req[d]
    <3>1. req[d].kind = "none" => s = req[d].svc BY <2>1, <2>2 DEF RequestFits
    <3> QED BY <2>1, <2>4, <3>1 DEF Reqs
  <2> QED BY <2>1, <2>2, <2>5, <2>6 DEF MayReturn, RequestFits
<1>4. q \in [1..MaxRequests -> Reqs] BY <1>2, <1>3
<1>5. PICK result \in {"ok", "failed"} : Runner!Return(result, q)
  BY <1>2 DEF Runner!DisconnectRuns, Runner!Requests
<1> QED BY <1>1, <1>3, <1>4, <1>5, RunnerReturns DEF Results

LEMMA OtherReturns == ASSUME RunnerInv, MaxRequests \in Nat, Runner!Other PROVE RunnerInv'
<1>1. running.cmd \in {"ask", "stage"} BY DEF Runner!Other, Runner!Runs
<1>2. PICK q : q = req OBVIOUS
<1>3. Runner!Return("ok", q) BY <1>2 DEF Runner!Other
<1> QED BY <1>1, <1>2, <1>3, SameMayReturn, RunnerReturns DEF Results

-----------------------------------------------------------------------------
\* A method call that keeps the owner: what it asks is queued, or there is no room.
LEMMA RunnerAsks ==
  ASSUME RunnerInv, MaxQueue \in Nat, window = "open", RequestsGrow,
         \A d \in 1..MaxRequests :
           Follows(d) /\ req'[d].completed = req[d].completed /\ req'[d].svc = req[d].svc,
         \/ tasks' = tasks
         \/ \E t \in Tasks :
              /\ t.cmd \notin StartCommands /\ TaskFits(t, req', last'.stops)
              /\ t.cmd = "confirm" => req[t.c].completed \/ t.c \in Starting
              /\ Len(tasks) < MaxQueue /\ tasks' = Append(tasks, t),
         count' \in Nat, owner' \in Owners, intent' \in Digests,
         last' \in [profile : Digests, stops : SUBSET Digests],
         owner'.c = owner.c, owner'.bound = owner.bound, owner'.promoted = owner.promoted,
         owner'.id = owner.id \/ owner'.id = 0, UNCHANGED <<stopped, running, ready, window>>,
         Runner!IntentIsNewest'
  PROVE  RunnerInv'
<1> USE DEF RunnerInv
<1>1. ReadyShrinks BY ReadySame
<1>2. /\ TasksFit' /\ StartsOnce' /\ Starting' = Starting
      /\ tasks' \in Seq(Tasks) /\ Len(tasks') <= MaxQueue
  <2>1. CASE tasks' = tasks
    <3>1. \A d \in 1..MaxRequests : req[d].svc = "none" => req'[d].svc = "none" \/ StartOf(running, d) OBVIOUS
    <3>2. tasks' \in Seq(Tasks) /\ Len(tasks') <= MaxQueue BY <2>1 DEF RunnerTypes
    <3> QED BY <1>1, <2>1, <3>1, <3>2, QueueStays
  <2>2. ASSUME NEW t \in Tasks, t.cmd \notin StartCommands, TaskFits(t, req', last'.stops),
               t.cmd = "confirm" => req[t.c].completed \/ t.c \in Starting,
               Len(tasks) < MaxQueue, tasks' = Append(tasks, t)
        PROVE  /\ TasksFit' /\ StartsOnce' /\ Starting' = Starting
               /\ tasks' \in Seq(Tasks) /\ Len(tasks') <= MaxQueue
    <3>1. /\ TasksFit' /\ StartsOnce' /\ tasks' \in Seq(Tasks) /\ Len(tasks') <= MaxQueue
          /\ Starting' = Starting \cup (IF t.cmd \in StartCommands THEN {t.c} ELSE {})
      BY <1>1, <2>2, QueueGrows
    <3> QED BY <2>2, <3>1
  <2> QED BY <2>1, <2>2
<1>3. RunnerTypes' BY <1>2 DEF RunnerTypes, RequestsGrow
<1>4. SettledOnes \subseteq SettledOnes'
  <2>1. \A d \in SettledOnes : d \notin Starting' /\ (req[d].svc = "none" => req'[d].svc = "none")
    BY <1>2 DEF SettledOnes
  <2> QED BY <2>1, SettledStay
<1>5. \A d \in 1..MaxRequests : d \in LiveOnes' => d \in LiveOnes BY DEF LiveOnes, Follows
<1> QED BY <1>2, <1>3, <1>4, <1>5, RunnerFollows

\* A task of this call.
LEMMA Submitted ==
  ASSUME RunnerInv, NEW cmd, NEW c, Runner!Submit(cmd, c)
  PROVE  /\ count' \in Nat
         /\ tasks' = Append(tasks, [cmd |-> cmd, c |-> c, intent |-> intent])
         /\ (cmd \in OwnerCommands \cup StartCommands \cup OtherCommands /\ c \in 0..MaxRequests
               => [cmd |-> cmd, c |-> c, intent |-> intent] \in Tasks)
BY DEF Runner!Submit, RunnerInv, RunnerTypes, Tasks

LEMMA RequestsSame ==
  ASSUME RunnerInv, req' = req, last.stops \subseteq last'.stops
  PROVE  RequestsGrow /\ \A d \in 1..MaxRequests :
           Follows(d) /\ req'[d].completed = req[d].completed /\ req'[d].svc = req[d].svc
<1>1. RequestsGrow BY DEF RequestsGrow, RunnerInv, RunnerTypes
<1> QED BY <1>1, FollowsSame DEF RunnerInv

\* The flag of a request is raised: on behalf of Dart, or it has no lease.
LEMMA FlagRaised ==
  ASSUME RunnerInv, NEW c \in 1..MaxRequests, NEW r \in Reqs, req' = [req EXCEPT ![c] = r],
         last.stops \subseteq last'.stops,
         r.kind = req[c].kind, r.kind # "none", r.completed = req[c].completed, r.cancel = TRUE,
         r.told = req[c].told, r.svc = req[c].svc, r.target = req[c].target, r.tried = req[c].tried,
         req[c].asked => r.asked, r.asked \/ "promoted" \notin r.told
  PROVE  RequestsGrow /\ \A d \in 1..MaxRequests :
           Follows(d) /\ req'[d].completed = req[d].completed /\ req'[d].svc = req[d].svc
<1>1. req' \in [1..MaxRequests -> Reqs] /\ req'[c] = r /\ \A d \in 1..MaxRequests : d # c => req'[d] = req[d]
  BY DEF RunnerInv, RunnerTypes
<1>2. RequestsGrow BY <1>1 DEF RequestsGrow
<1>3. RequestFits(c) BY DEF RunnerInv
<1>4. Follows(c) BY <1>1, <1>3 DEF Follows, RequestFits
<1> QED BY <1>1, <1>2, <1>4, FollowsSame DEF RunnerInv

LEMMA OwnerSame ==
  ASSUME RunnerInv, owner' = owner
  PROVE  /\ owner' \in Owners /\ owner'.c = owner.c /\ owner'.bound = owner.bound
         /\ owner'.promoted = owner.promoted /\ owner'.id = owner.id
BY DEF RunnerInv, RunnerTypes

\* The owner is not bound: it is an ordinary request, or none.
LEMMA OwnerLosesId ==
  ASSUME RunnerInv, owner' = Runner!WithoutId, MaxRequests \in Nat
  PROVE  /\ owner' \in Owners /\ owner'.c = owner.c /\ owner'.bound = owner.bound
         /\ owner'.promoted = owner.promoted /\ (owner'.id = owner.id \/ owner'.id = 0)
<1>1. owner \in Owners BY DEF RunnerInv, RunnerTypes
<1>2. owner' = owner \/ owner' = [owner EXCEPT !.id = 0] BY DEF Runner!WithoutId
<1>3. 0 \in 0..MaxRequests OBVIOUS
<1> QED BY <1>1, <1>2, <1>3 DEF Owners

LEMMA AskKept == ASSUME Runner!RunnerAssumption, RunnerInv, Runner!Ask PROVE RunnerInv'
<1>1. /\ window = "open" /\ Len(tasks) < MaxQueue /\ Runner!Submit("ask", 0)
      /\ UNCHANGED <<owner, stopped, intent, req, running, ready, window, last>>
  BY DEF Runner!Ask, Runner!Open, Runner!Fits
<1>2. MaxQueue \in Nat /\ MaxRequests \in Nat BY DEF Runner!RunnerAssumption
<1>3. PICK t : t = [cmd |-> "ask", c |-> 0, intent |-> intent] OBVIOUS
<1>4. t \in Tasks /\ count' \in Nat /\ tasks' = Append(tasks, t)
  BY <1>1, <1>2, <1>3, Submitted DEF OtherCommands
<1>5. t.cmd \notin StartCommands /\ TaskFits(t, req', last'.stops) /\ t.cmd # "confirm"
  BY <1>3 DEF TaskFits, StartCommands, OwnerCommands, OtherCommands
<1>6. RequestsGrow /\ \A d \in 1..MaxRequests :
        Follows(d) /\ req'[d].completed = req[d].completed /\ req'[d].svc = req[d].svc
  BY <1>1, RequestsSame
<1>7. intent' \in Digests /\ last' \in [profile : Digests, stops : SUBSET Digests] /\ Runner!IntentIsNewest'
  BY <1>1 DEF RunnerInv, RunnerTypes, Runner!IntentIsNewest
<1> QED BY <1>1, <1>2, <1>4, <1>5, <1>6, <1>7, OwnerSame, RunnerAsks

LEMMA AskOwnerKept ==
  ASSUME Runner!RunnerAssumption, RunnerInv, NEW c \in 1..MaxRequests,
         NEW cmd \in {"promote", "revoke", "control"}, Runner!AskOwner(c, cmd)
  PROVE  RunnerInv'
<1>1. /\ window = "open" /\ Len(tasks) < MaxQueue /\ Runner!Submit(cmd, c)
      /\ UNCHANGED <<owner, stopped, intent, req, running, ready, window, last>>
      /\ owner.bound /\ owner.c # 0 /\ owner.id = c /\ req[c].completed
  BY DEF Runner!AskOwner, Runner!Open, Runner!Fits, Runner!Usable, Runner!BoundOwner
<1>2. MaxQueue \in Nat /\ MaxRequests \in Nat BY DEF Runner!RunnerAssumption
<1>3. PICK t : t = [cmd |-> cmd, c |-> c, intent |-> intent] OBVIOUS
<1>4. t \in Tasks /\ count' \in Nat /\ tasks' = Append(tasks, t)
  BY <1>1, <1>2, <1>3, Submitted DEF OwnerCommands
<1>5. req[c].kind = "bound" BY <1>1 DEF RunnerInv, OwnerFits
<1>6. t.cmd \notin StartCommands /\ TaskFits(t, req', last'.stops) /\ t.cmd # "confirm"
  BY <1>1, <1>3, <1>5 DEF TaskFits, StartCommands, OwnerCommands, OtherCommands
<1>7. RequestsGrow /\ \A d \in 1..MaxRequests :
        Follows(d) /\ req'[d].completed = req[d].completed /\ req'[d].svc = req[d].svc
  BY <1>1, RequestsSame
<1>8. intent' \in Digests /\ last' \in [profile : Digests, stops : SUBSET Digests] /\ Runner!IntentIsNewest'
  BY <1>1 DEF RunnerInv, RunnerTypes, Runner!IntentIsNewest
<1> QED BY <1>1, <1>2, <1>4, <1>6, <1>7, <1>8, OwnerSame, RunnerAsks

\* A stop was asked for under the present profile.
LEMMA StopNoted ==
  ASSUME RunnerInv, last' = [last EXCEPT !.stops = @ \cup {intent}], intent' = intent
  PROVE  /\ last' \in [profile : Digests, stops : SUBSET Digests] /\ intent' \in Digests
         /\ last.stops \subseteq last'.stops /\ intent \in last'.stops /\ Runner!IntentIsNewest'
<1>1. last \in [profile : Digests, stops : SUBSET Digests] /\ intent \in Digests BY DEF RunnerInv, RunnerTypes
<1>2. last'.stops = last.stops \cup {intent} /\ last'.profile = last.profile BY <1>1
<1>3. last' \in [profile : Digests, stops : SUBSET Digests] BY <1>1
<1>4. Runner!IntentIsNewest' BY <1>2 DEF RunnerInv, Runner!IntentIsNewest
<1> QED BY <1>1, <1>2, <1>3, <1>4

LEMMA ConfirmStoppedKept ==
  ASSUME Runner!RunnerAssumption, RunnerInv, NEW c \in 1..MaxRequests, Runner!ConfirmStopped(c)
  PROVE  RunnerInv'
<1>1. /\ window = "open" /\ owner.bound /\ owner.c # 0 /\ owner.id = c
      /\ UNCHANGED <<owner, stopped, intent, running, ready, window>>
      /\ last' = [last EXCEPT !.stops = @ \cup {intent}]
      /\ IF Len(tasks) < MaxQueue THEN Runner!Submit("confirm", c) ELSE UNCHANGED <<tasks, count>>
  BY DEF Runner!ConfirmStopped, Runner!Open, Runner!Fits, Runner!BoundOwner
<1>2. MaxQueue \in Nat /\ MaxRequests \in Nat BY DEF Runner!RunnerAssumption
<1>3. owner.c = c /\ req[c].kind = "bound" /\ (req[c].completed \/ c \in Starting)
  BY <1>1 DEF RunnerInv, OwnerFits
<1>4. req[c] \in Reqs BY DEF RunnerInv, RunnerTypes
<1>5. PICK w \in Int : req' = [req EXCEPT ![c].cancel = TRUE, ![c].asked = TRUE, ![c].waits = w]
  <2>1. PICK w : w = IF Runner!Fits THEN req[c].waits + 1 ELSE req[c].waits OBVIOUS
  <2>2. w \in Int BY <1>4, <2>1 DEF Reqs
  <2>3. req' = [req EXCEPT ![c].cancel = TRUE, ![c].asked = TRUE, ![c].waits = w]
    BY <2>1 DEF Runner!ConfirmStopped, RunnerInv, RunnerTypes
  <2> QED BY <2>2, <2>3
<1>6. PICK r : r = [req[c] EXCEPT !.cancel = TRUE, !.asked = TRUE, !.waits = w] OBVIOUS
<1>7. req' = [req EXCEPT ![c] = r] BY <1>5, <1>6 DEF RunnerInv, RunnerTypes
<1>8. r \in Reqs /\ r.kind = req[c].kind /\ r.completed = req[c].completed /\ r.cancel = TRUE /\ r.asked = TRUE
      /\ r.told = req[c].told /\ r.svc = req[c].svc /\ r.target = req[c].target /\ r.tried = req[c].tried
  BY <1>4, <1>6 DEF Reqs
<1>9. /\ last' \in [profile : Digests, stops : SUBSET Digests] /\ intent' \in Digests
      /\ last.stops \subseteq last'.stops /\ intent \in last'.stops /\ Runner!IntentIsNewest'
  BY <1>1, StopNoted
<1>10. RequestsGrow /\ \A d \in 1..MaxRequests :
         Follows(d) /\ req'[d].completed = req[d].completed /\ req'[d].svc = req[d].svc
  BY <1>3, <1>7, <1>8, <1>9, FlagRaised
<1>11. req'[c].kind = "bound" /\ req'[c].asked BY <1>3, <1>7, <1>8 DEF RunnerInv, RunnerTypes
<1>12. CASE Len(tasks) < MaxQueue
  <2>1. PICK t : t = [cmd |-> "confirm", c |-> c, intent |-> intent] OBVIOUS
  <2>2. t \in Tasks /\ count' \in Nat /\ tasks' = Append(tasks, t)
    BY <1>1, <1>2, <1>12, <2>1, Submitted DEF OwnerCommands
  <2>3. t.cmd \notin StartCommands /\ TaskFits(t, req', last'.stops)
    BY <1>9, <1>11, <2>1 DEF TaskFits, StartCommands, OwnerCommands, OtherCommands
  <2>4. req[t.c].completed \/ t.c \in Starting BY <1>3, <2>1
  <2> QED BY <1>1, <1>2, <1>9, <1>10, <1>12, <2>2, <2>3, <2>4, OwnerSame, RunnerAsks
<1>13. CASE ~(Len(tasks) < MaxQueue)
  <2>1. tasks' = tasks /\ count' \in Nat BY <1>1, <1>13 DEF RunnerInv, RunnerTypes
  <2> QED BY <1>1, <1>2, <1>9, <1>10, <2>1, OwnerSame, RunnerAsks
<1> QED BY <1>12, <1>13

LEMMA CancelRequestKept ==
  ASSUME Runner!RunnerAssumption, RunnerInv, NEW c \in 1..MaxRequests, Runner!CancelRequest(c)
  PROVE  RunnerInv'
<1>1. /\ window = "open" /\ owner.c # 0 /\ owner.id = c
      /\ UNCHANGED <<owner, stopped, intent, running, ready, window, last>>
      /\ req' = [req EXCEPT ![c].cancel = TRUE, ![c].asked = TRUE]
      /\ IF owner.bound /\ Len(tasks) < MaxQueue THEN Runner!Submit("cancel", c) ELSE UNCHANGED <<tasks, count>>
  BY DEF Runner!CancelRequest, Runner!Open, Runner!Fits
<1>2. MaxQueue \in Nat /\ MaxRequests \in Nat BY DEF Runner!RunnerAssumption
<1>3. owner.c = c /\ req[c].kind # "none" /\ (owner.bound => req[c].kind = "bound")
  BY <1>1 DEF RunnerInv, OwnerFits
<1>4. req[c] \in Reqs BY DEF RunnerInv, RunnerTypes
<1>6. PICK r : r = [req[c] EXCEPT !.cancel = TRUE, !.asked = TRUE] OBVIOUS
<1>7. req' = [req EXCEPT ![c] = r] BY <1>1, <1>6 DEF RunnerInv, RunnerTypes
<1>8. r \in Reqs /\ r.kind = req[c].kind /\ r.completed = req[c].completed /\ r.cancel = TRUE /\ r.asked = TRUE
      /\ r.told = req[c].told /\ r.svc = req[c].svc /\ r.target = req[c].target /\ r.tried = req[c].tried
  BY <1>4, <1>6 DEF Reqs
<1>9. intent' \in Digests /\ last' \in [profile : Digests, stops : SUBSET Digests] /\ Runner!IntentIsNewest'
  BY <1>1 DEF RunnerInv, RunnerTypes, Runner!IntentIsNewest
<1>10. RequestsGrow /\ \A d \in 1..MaxRequests :
         Follows(d) /\ req'[d].completed = req[d].completed /\ req'[d].svc = req[d].svc
  BY <1>1, <1>3, <1>7, <1>8, FlagRaised
<1>11. req'[c].kind = req[c].kind /\ req'[c].asked BY <1>7, <1>8 DEF RunnerInv, RunnerTypes
<1>12. CASE owner.bound /\ Len(tasks) < MaxQueue
  <2>1. PICK t : t = [cmd |-> "cancel", c |-> c, intent |-> intent] OBVIOUS
  <2>2. t \in Tasks /\ count' \in Nat /\ tasks' = Append(tasks, t)
    BY <1>1, <1>2, <1>12, <2>1, Submitted DEF OwnerCommands
  <2>3. t.cmd \notin StartCommands /\ TaskFits(t, req', last'.stops) /\ t.cmd # "confirm"
    BY <1>3, <1>11, <1>12, <2>1 DEF TaskFits, StartCommands, OwnerCommands, OtherCommands
  <2> QED BY <1>1, <1>2, <1>9, <1>10, <1>12, <2>2, <2>3, OwnerSame, RunnerAsks
<1>13. CASE ~(owner.bound /\ Len(tasks) < MaxQueue)
  <2>1. tasks' = tasks /\ count' \in Nat BY <1>1, <1>13 DEF RunnerInv, RunnerTypes
  <2> QED BY <1>1, <1>2, <1>9, <1>10, <2>1, OwnerSame, RunnerAsks
<1> QED BY <1>12, <1>13

\* What a start, a stop or a profile change does to the request before it.
LEMMA OwnerFlagged ==
  ASSUME RunnerInv, MaxRequests \in Nat, owner.c # 0 => ~owner.bound, req' = Runner!Superseded(req),
         last.stops \subseteq last'.stops
  PROVE  RequestsGrow /\ \A d \in 1..MaxRequests :
           Follows(d) /\ req'[d].completed = req[d].completed /\ req'[d].svc = req[d].svc
<1>1. CASE owner.c = 0 BY <1>1, RequestsSame DEF Runner!Superseded
<1>2. CASE owner.c # 0
  <2>1. PICK c : c = owner.c OBVIOUS
  <2>2. c \in 1..MaxRequests BY <1>2, <2>1 DEF RunnerInv, RunnerTypes, Owners
  <2>3. req[c] \in Reqs /\ req[c].kind = "plain" /\ RequestFits(c)
    BY <1>2, <2>1, <2>2 DEF RunnerInv, RunnerTypes, OwnerFits
  <2>4. PICK r : r = [req[c] EXCEPT !.cancel = TRUE] OBVIOUS
  <2>5. req' = [req EXCEPT ![c] = r] BY <1>2, <2>1, <2>2, <2>4 DEF Runner!Superseded, RunnerInv, RunnerTypes
  <2>6. r \in Reqs /\ r.kind = req[c].kind /\ r.completed = req[c].completed /\ r.cancel = TRUE /\ r.asked = req[c].asked
        /\ r.told = req[c].told /\ r.svc = req[c].svc /\ r.target = req[c].target /\ r.tried = req[c].tried
    BY <2>3, <2>4 DEF Reqs
  <2>7. "promoted" \notin r.told BY <2>3, <2>6 DEF RequestFits
  <2> QED BY <2>2, <2>3, <2>5, <2>6, <2>7, FlagRaised
<1> QED BY <1>1, <1>2

LEMMA StageProfileKept ==
  ASSUME Runner!RunnerAssumption, RunnerInv, NEW p \in Digests, Runner!StageProfile(p) PROVE RunnerInv'
<1>1. /\ window = "open" /\ ~(owner.bound /\ owner.c # 0) /\ Len(tasks) < MaxQueue /\ Runner!Submit("stage", 0)
      /\ req' = Runner!Superseded(req) /\ owner' = Runner!WithoutId
      /\ intent' = p /\ last' = [last EXCEPT !.profile = p]
      /\ UNCHANGED <<stopped, running, ready, window>>
  BY DEF Runner!StageProfile, Runner!Open, Runner!FreeToStart, Runner!BoundOwner, Runner!Fits
<1>2. MaxQueue \in Nat /\ MaxRequests \in Nat BY DEF Runner!RunnerAssumption
<1>3. PICK t : t = [cmd |-> "stage", c |-> 0, intent |-> intent] OBVIOUS
<1>4. t \in Tasks /\ count' \in Nat /\ tasks' = Append(tasks, t)
  BY <1>1, <1>2, <1>3, Submitted DEF OtherCommands
<1>5. t.cmd \notin StartCommands /\ TaskFits(t, req', last'.stops) /\ t.cmd # "confirm"
  BY <1>3 DEF TaskFits, StartCommands, OwnerCommands, OtherCommands
<1>6. last' \in [profile : Digests, stops : SUBSET Digests] /\ last'.profile = p /\ last'.stops = last.stops
  BY <1>1 DEF RunnerInv, RunnerTypes
<1>7. RequestsGrow /\ \A d \in 1..MaxRequests :
        Follows(d) /\ req'[d].completed = req[d].completed /\ req'[d].svc = req[d].svc
  BY <1>1, <1>2, <1>6, OwnerFlagged
<1>8. intent' \in Digests /\ Runner!IntentIsNewest' BY <1>1, <1>6 DEF Runner!IntentIsNewest
<1>9. /\ owner' \in Owners /\ owner'.c = owner.c /\ owner'.bound = owner.bound
      /\ owner'.promoted = owner.promoted /\ (owner'.id = owner.id \/ owner'.id = 0)
  BY <1>1, <1>2, OwnerLosesId
<1> QED BY <1>1, <1>2, <1>4, <1>5, <1>6, <1>7, <1>8, <1>9, RunnerAsks

LEMMA DisconnectKept ==
  ASSUME Runner!RunnerAssumption, RunnerInv, Runner!Disconnect PROVE RunnerInv'
<1>1. /\ window = "open" /\ Len(tasks) < MaxQueue /\ Runner!Submit("disconnect", 0)
      /\ owner' = Runner!WithoutId /\ last' = [last EXCEPT !.stops = @ \cup {intent}]
      /\ UNCHANGED <<stopped, intent, running, ready, window>>
      /\ req' = Runner!Superseded([c \in 1..MaxRequests |-> [req[c] EXCEPT !.asked = @ \/ c = owner.c]])
  BY DEF Runner!Disconnect, Runner!Open, Runner!Fits, Runner!Requests
<1>2. MaxQueue \in Nat /\ MaxRequests \in Nat BY DEF Runner!RunnerAssumption
<1>3. PICK t : t = [cmd |-> "disconnect", c |-> 0, intent |-> intent] OBVIOUS
<1>4. t \in Tasks /\ count' \in Nat /\ tasks' = Append(tasks, t)
  BY <1>1, <1>2, <1>3, Submitted DEF OtherCommands
<1>5. /\ last' \in [profile : Digests, stops : SUBSET Digests] /\ intent' \in Digests
      /\ last.stops \subseteq last'.stops /\ intent \in last'.stops /\ Runner!IntentIsNewest'
  BY <1>1, StopNoted
<1>6. t.cmd \notin StartCommands /\ TaskFits(t, req', last'.stops) /\ t.cmd # "confirm"
  BY <1>3, <1>5 DEF TaskFits, StartCommands, OwnerCommands, OtherCommands
<1>7. RequestsGrow /\ \A d \in 1..MaxRequests :
        Follows(d) /\ req'[d].completed = req[d].completed /\ req'[d].svc = req[d].svc
  <2>1. PICK q : q = [c \in 1..MaxRequests |-> [req[c] EXCEPT !.asked = @ \/ c = owner.c]] OBVIOUS
  <2>2. \A c \in 1..MaxRequests : req[c] \in Reqs BY DEF RunnerInv, RunnerTypes
  <2>3. \A c \in 1..MaxRequests : c # owner.c => q[c] = req[c]
    <3>1. SUFFICES ASSUME NEW c \in 1..MaxRequests, c # owner.c PROVE q[c] = req[c] OBVIOUS
    <3>2. q[c] = [req[c] EXCEPT !.asked = req[c].asked \/ c = owner.c] BY <2>1
    <3>3. req[c].asked \in BOOLEAN BY <2>2 DEF Reqs
    <3>4. (req[c].asked \/ c = owner.c) = req[c].asked BY <3>1, <3>3
    <3> QED BY <2>2, <3>2, <3>4 DEF Reqs
  <2>4. CASE owner.c = 0
    <3>1. \A c \in 1..MaxRequests : q[c] = req[c] BY <2>3, <2>4
    <3>2. q = req BY <2>1, <3>1 DEF RunnerInv, RunnerTypes
    <3>3. req' = req BY <1>1, <2>1, <2>4, <3>2 DEF Runner!Superseded
    <3> QED BY <1>5, <3>3, RequestsSame
  <2>5. CASE owner.c # 0
    <3>1. PICK c : c = owner.c OBVIOUS
    <3>2. c \in 1..MaxRequests BY <2>5, <3>1 DEF RunnerInv, RunnerTypes, Owners
    <3>3. req[c] \in Reqs /\ req[c].kind # "none" BY <2>2, <2>5, <3>1, <3>2 DEF RunnerInv, OwnerFits
    <3>4. PICK r : r = [req[c] EXCEPT !.asked = TRUE, !.cancel = TRUE] OBVIOUS
    <3>5. r \in Reqs /\ r.kind = req[c].kind /\ r.completed = req[c].completed /\ r.cancel = TRUE /\ r.asked = TRUE
          /\ r.told = req[c].told /\ r.svc = req[c].svc /\ r.target = req[c].target /\ r.tried = req[c].tried
      BY <3>3, <3>4 DEF Reqs
    <3>6. q[c] = [req[c] EXCEPT !.asked = TRUE]
      <4>1. q[c] = [req[c] EXCEPT !.asked = req[c].asked \/ c = owner.c] BY <2>1, <3>2
      <4>2. (req[c].asked \/ c = owner.c) = TRUE BY <3>1
      <4> QED BY <4>1, <4>2
    <3>7. req' = [q EXCEPT ![c].cancel = TRUE] BY <1>1, <2>1, <2>5, <3>1 DEF Runner!Superseded
    <3>8. req' = [q EXCEPT ![c] = r] BY <2>1, <3>2, <3>4, <3>6, <3>7
    <3>9. req' = [req EXCEPT ![c] = r]
      <4>1. DOMAIN q = 1..MaxRequests /\ q = [d \in 1..MaxRequests |-> q[d]] BY <2>1
      <4>2. req = [d \in 1..MaxRequests |-> req[d]] BY DEF RunnerInv, RunnerTypes
      <4> QED BY <2>3, <3>1, <3>8, <4>1, <4>2
    <3> QED BY <1>5, <3>2, <3>3, <3>5, <3>9, FlagRaised
  <2> QED BY <2>4, <2>5
<1>8. /\ owner' \in Owners /\ owner'.c = owner.c /\ owner'.bound = owner.bound
      /\ owner'.promoted = owner.promoted /\ (owner'.id = owner.id \/ owner'.id = 0)
  BY <1>1, <1>2, OwnerLosesId
<1> QED BY <1>1, <1>2, <1>4, <1>5, <1>6, <1>7, <1>8, RunnerAsks

\* A new request replaces an ordinary one, which is cancelled.
LEMMA NewOwnerKept ==
  ASSUME Runner!RunnerAssumption, RunnerInv, NEW c \in 1..MaxRequests, NEW kind \in StartCommands,
         window = "open", ~(owner.bound /\ owner.c # 0), Len(tasks) < MaxQueue, req[c].kind = "none",
         Runner!Submit(kind, c), Runner!NewOwner(c, kind), UNCHANGED <<stopped, running, ready, window>>,
         intent' \in Digests, last' \in [profile : Digests, stops : SUBSET Digests], last'.stops = last.stops,
         Runner!IntentIsNewest'
  PROVE  RunnerInv'
<1> USE DEF RunnerInv
<1>1. MaxQueue \in Nat /\ MaxRequests \in Nat BY DEF Runner!RunnerAssumption
<1>2. /\ owner' = [c |-> c, id |-> c, bound |-> (kind = "bound"), promoted |-> FALSE]
      /\ req' = [Runner!Superseded(req) EXCEPT ![c].kind = kind]
  BY DEF Runner!NewOwner
<1>3. owner.c # c /\ (owner.c # 0 => owner.c \in 1..MaxRequests /\ req[owner.c].kind = "plain")
  BY DEF OwnerFits, RunnerTypes, Owners
<1>4. \A d \in 1..MaxRequests : req[d] \in Reqs /\ RequestFits(d) BY DEF RunnerTypes
<1>5. PICK p : p = Runner!Superseded(req) OBVIOUS
<1>6. /\ p \in [1..MaxRequests -> Reqs] /\ p[c] = req[c]
      /\ \A d \in 1..MaxRequests : p[d] = req[d] \/ (d = owner.c /\ p[d] = [req[d] EXCEPT !.cancel = TRUE])
      /\ (owner.c # 0 => p[owner.c] = [req[owner.c] EXCEPT !.cancel = TRUE])
  <2>1. CASE owner.c = 0 BY <1>5, <2>1 DEF Runner!Superseded, RunnerTypes
  <2>2. CASE owner.c # 0
    <3>1. PICK o : o = owner.c OBVIOUS
    <3>2. p = [req EXCEPT ![o] = [req[o] EXCEPT !.cancel = TRUE]] BY <1>3, <1>5, <2>2, <3>1 DEF Runner!Superseded, RunnerTypes
    <3>3. o \in 1..MaxRequests /\ req[o] \in Reqs BY <1>3, <1>4, <2>2, <3>1
    <3>4. [req[o] EXCEPT !.cancel = TRUE] \in Reqs BY <3>3 DEF Reqs
    <3> QED BY <1>3, <2>2, <3>1, <3>2, <3>3, <3>4 DEF RunnerTypes
  <2> QED BY <2>1, <2>2
<1>7. PICK r : r = [req[c] EXCEPT !.kind = kind] OBVIOUS
<1>8. r \in Reqs /\ r.kind = kind /\ r.completed = req[c].completed /\ r.cancel = req[c].cancel /\ r.asked = req[c].asked
      /\ r.told = req[c].told /\ r.svc = req[c].svc /\ r.target = req[c].target /\ r.tried = req[c].tried
      /\ r.interrupted = req[c].interrupted
  BY <1>4, <1>7 DEF Reqs, StartCommands
<1>9. req' = [p EXCEPT ![c] = r] BY <1>2, <1>5, <1>6, <1>7
<1>10. req' \in [1..MaxRequests -> Reqs] /\ req'[c] = r /\ \A d \in 1..MaxRequests : d # c => req'[d] = p[d]
  BY <1>6, <1>8, <1>9
<1>11. ASSUME NEW d \in 1..MaxRequests, d # c
       PROVE  /\ req'[d].kind = req[d].kind /\ req'[d].completed = req[d].completed /\ req'[d].asked = req[d].asked
              /\ req'[d].told = req[d].told /\ req'[d].svc = req[d].svc /\ req'[d].target = req[d].target
              /\ req'[d].tried = req[d].tried /\ req'[d].interrupted = req[d].interrupted
              /\ (req[d].cancel => req'[d].cancel) /\ (req'[d].cancel => req[d].cancel \/ d = owner.c)
              /\ (d = owner.c => req'[d].cancel)
  <2>1. (req'[d] = req[d] /\ d # owner.c) \/ (d = owner.c /\ req'[d] = [req[d] EXCEPT !.cancel = TRUE])
    BY <1>6, <1>10, <1>11
  <2> QED BY <1>4, <2>1 DEF Reqs
<1>12. RequestsGrow BY <1>8, <1>10, <1>11 DEF RequestsGrow
<1>13. req[c].svc = "none" /\ req[c].told = {} /\ ~req[c].completed /\ ~req[c].interrupted /\ ~req[c].target
  BY <1>4 DEF RequestFits
<1>14. PICK t : t = [cmd |-> kind, c |-> c, intent |-> intent] OBVIOUS
<1>15. t \in Tasks /\ count' \in Nat /\ tasks' = Append(tasks, t)
  BY <1>1, <1>14, Submitted
<1>16. TaskFits(t, req', last'.stops)
  BY <1>8, <1>10, <1>14 DEF TaskFits, StartCommands, OwnerCommands, OtherCommands
<1>17. ReadyShrinks BY ReadySame
<1>18. /\ TasksFit' /\ StartsOnce' /\ tasks' \in Seq(Tasks) /\ Len(tasks') <= MaxQueue /\ Starting' = Starting \cup {c}
  <2>1. t.cmd = kind /\ t.c = c /\ t.cmd # "confirm" BY <1>14 DEF StartCommands
  <2>2. \A d \in 1..MaxRequests : req'[d].completed = req[d].completed /\ req'[d].svc = req[d].svc
    BY <1>8, <1>10, <1>11
  <2> QED BY <1>1, <1>12, <1>13, <1>15, <1>16, <1>17, <2>1, <2>2, QueueGrows
<1>19. owner' \in Owners /\ owner'.c = c /\ owner'.id = c /\ owner'.promoted = FALSE /\ (owner'.bound <=> kind = "bound")
  <2>1. (kind = "bound") \in BOOLEAN /\ c \in 0..MaxRequests BY <1>1
  <2> QED BY <1>2, <2>1 DEF Owners
<1>20. RunnerTypes' BY <1>10, <1>15, <1>18, <1>19 DEF RunnerTypes
<1>21. SettledOnes \subseteq SettledOnes'
  <2>1. \A d \in SettledOnes : d \in 1..MaxRequests /\ d # c BY DEF SettledOnes
  <2>2. \A d \in SettledOnes : d \notin Starting' /\ (req[d].svc = "none" => req'[d].svc = "none")
    BY <1>11, <1>18, <2>1 DEF SettledOnes
  <2> QED BY <1>12, <2>2, SettledStay
<1>22. (\A d \in 1..MaxRequests : RequestFits(d))'
  <2>1. RequestFits(c)' BY <1>8, <1>10, <1>13 DEF RequestFits, StartCommands
  <2>2. ASSUME NEW d \in 1..MaxRequests, d # c PROVE RequestFits(d)'
    <3>1. RequestFits(d) BY <1>4
    <3>2. "promoted" \in req[d].told => d # owner.c BY <1>3, <3>1 DEF RequestFits
    <3> QED BY <1>11, <1>21, <2>2, <3>1, <3>2 DEF RequestFits
  <2> QED BY <2>1, <2>2
<1>23. OwnerFits'
  <2>1. req'[c].kind = (IF kind = "bound" THEN "bound" ELSE "plain") BY <1>8, <1>10 DEF StartCommands
  <2>2. "promoted" \notin req'[c].told BY <1>8, <1>10, <1>13
  <2> QED BY <1>18, <1>19, <2>1, <2>2 DEF OwnerFits
<1>24. MustOwn'
  <2>1. ASSUME NEW d \in 1..MaxRequests, d # c
        PROVE  /\ ~(req'[d].kind = "bound" /\ d \in Starting' \cup LiveOnes')
               /\ ~(req'[d].kind = "plain" /\ d \in Starting' /\ req'[d].svc = "none" /\ ~req'[d].cancel)
    <3>1. d \in Starting' => d \in Starting BY <1>18, <2>1
    <3>2. d \in LiveOnes' => d \in LiveOnes BY <1>11, <2>1 DEF LiveOnes
    <3>3. ~(req[d].kind = "bound" /\ d \in Starting \cup LiveOnes) BY <1>3, <2>1 DEF MustOwn
    <3> QED BY <1>11, <2>1, <3>1, <3>2, <3>3 DEF MustOwn
  <2> QED BY <1>19, <2>1 DEF MustOwn
<1>25. StopsFit' BY <1>21 DEF StopsFit
<1>26. CloseFits' BY DEF CloseFits
<1> QED BY <1>18, <1>20, <1>22, <1>23, <1>24, <1>25, <1>26

LEMMA ConnectKept ==
  ASSUME Runner!RunnerAssumption, RunnerInv, NEW c \in 1..MaxRequests, NEW kind \in StartCommands,
         Runner!Connect(c, kind)
  PROVE  RunnerInv'
<1>1. /\ window = "open" /\ ~(owner.bound /\ owner.c # 0) /\ Len(tasks) < MaxQueue /\ req[c].kind = "none"
      /\ Runner!Submit(kind, c) /\ Runner!NewOwner(c, kind)
      /\ UNCHANGED <<stopped, intent, running, ready, window, last>>
  BY DEF Runner!Connect, Runner!Open, Runner!FreeToStart, Runner!BoundOwner, Runner!Fits, Runner!Fresh
<1>2. intent' \in Digests /\ last' \in [profile : Digests, stops : SUBSET Digests] /\ Runner!IntentIsNewest'
      /\ last'.stops = last.stops
  BY <1>1 DEF RunnerInv, RunnerTypes, Runner!IntentIsNewest
<1> QED BY <1>1, <1>2, NewOwnerKept

LEMMA ReplaceKept ==
  ASSUME Runner!RunnerAssumption, RunnerInv, NEW c \in 1..MaxRequests, NEW p \in Profiles, Runner!Replace(c, p)
  PROVE  RunnerInv'
<1>1. /\ window = "open" /\ ~(owner.bound /\ owner.c # 0) /\ Len(tasks) < MaxQueue /\ req[c].kind = "none"
      /\ Runner!Submit("plain", c) /\ Runner!NewOwner(c, "plain")
      /\ UNCHANGED <<stopped, running, ready, window>> /\ intent' = p /\ last' = [last EXCEPT !.profile = p]
  BY DEF Runner!Replace, Runner!Open, Runner!FreeToStart, Runner!BoundOwner, Runner!Fits, Runner!Fresh
<1>2. last' \in [profile : Digests, stops : SUBSET Digests] /\ last'.profile = p /\ last'.stops = last.stops
  BY <1>1 DEF RunnerInv, RunnerTypes, Digests
<1>3. intent' \in Digests /\ Runner!IntentIsNewest' BY <1>1, <1>2 DEF Runner!IntentIsNewest, Digests
<1> QED BY <1>1, <1>2, <1>3, NewOwnerKept DEF StartCommands


\* A bound request that is not queued: nothing of it runs, or will.
LEMMA NotDispatchedKept ==
  ASSUME RunnerInv, NEW c \in 1..MaxRequests, Runner!NotDispatched(c) PROVE RunnerInv'
<1> USE DEF RunnerInv
<1>1. /\ window = "open" /\ req[c].kind = "none"
      /\ req' = [req EXCEPT ![c].kind = "bound", ![c].told = {"settled"}]
      /\ UNCHANGED <<owner, stopped, intent, tasks, running, ready, window, count, last>>
  BY DEF Runner!NotDispatched, Runner!Open, Runner!Fresh
<1>2. \A d \in 1..MaxRequests : req[d] \in Reqs /\ RequestFits(d) BY DEF RunnerTypes
<1>3. req[c].svc = "none" /\ req[c].told = {} /\ ~req[c].completed /\ ~req[c].interrupted /\ ~req[c].target
  BY <1>1, <1>2 DEF RequestFits
<1>4. PICK r : r = [req[c] EXCEPT !.kind = "bound", !.told = {"settled"}] OBVIOUS
<1>5. {"settled"} \in SUBSET Facts BY DEF Facts
<1>6. r \in Reqs /\ r.kind = "bound" /\ r.completed = req[c].completed /\ r.cancel = req[c].cancel
      /\ r.asked = req[c].asked /\ r.told = {"settled"} /\ r.svc = req[c].svc /\ r.target = req[c].target
      /\ r.tried = req[c].tried /\ r.interrupted = req[c].interrupted
  BY <1>2, <1>4, <1>5 DEF Reqs
<1>7. req' = [req EXCEPT ![c] = r] BY <1>1, <1>4 DEF RunnerTypes
<1>8. req' \in [1..MaxRequests -> Reqs] /\ req'[c] = r /\ \A d \in 1..MaxRequests : d # c => req'[d] = req[d]
  BY <1>6, <1>7 DEF RunnerTypes
<1>9. RequestsGrow BY <1>1, <1>3, <1>6, <1>8 DEF RequestsGrow
<1>10. ReadyShrinks BY <1>1, ReadySame
<1>11. \A d \in 1..MaxRequests : req'[d].completed = req[d].completed /\ req'[d].svc = req[d].svc
  BY <1>6, <1>8
<1>12. TasksFit' /\ StartsOnce' /\ Starting' = Starting BY <1>1, <1>9, <1>10, <1>11, QueueStays
<1>13. RunnerTypes' BY <1>1, <1>8 DEF RunnerTypes
<1>14. c \notin Starting
  <2>1. \A t \in Tasks : TaskFits(t, req, last.stops) => ~StartOf(t, c)
    BY <1>1 DEF TaskFits, StartOf, StartCommands
  <2>2. \A i \in 1..Len(tasks) : tasks[i] \in Tasks BY ElementOfSeq DEF RunnerTypes
  <2> QED BY <2>1, <2>2 DEF Starting, TasksFit, RunnerTypes
<1>15. SettledOnes \subseteq SettledOnes' BY <1>9, <1>11, <1>12, SettledStay DEF SettledOnes
<1>16. c \in SettledOnes' BY <1>3, <1>6, <1>8, <1>12, <1>14 DEF SettledOnes
<1>17. (\A d \in 1..MaxRequests : RequestFits(d))'
  <2>1. RequestFits(c)'
    <3>1. "promoted" \notin req'[c].told BY <1>6, <1>8
    <3> QED BY <1>3, <1>6, <1>8, <1>16, <3>1 DEF RequestFits
  <2>2. ASSUME NEW d \in 1..MaxRequests, d # c PROVE RequestFits(d)'
    BY <1>2, <1>8, <1>15, <2>2 DEF RequestFits
  <2> QED BY <2>1, <2>2
<1>18. owner.c # c BY <1>1 DEF OwnerFits
<1>19. owner.c # 0 => owner.c \in 1..MaxRequests /\ req'[owner.c] = req[owner.c]
  BY <1>8, <1>18 DEF RunnerTypes, Owners
<1>20. OwnerFits' BY <1>1, <1>12, <1>19 DEF OwnerFits
<1>21. \A d \in 1..MaxRequests : d \in LiveOnes' => d \in LiveOnes /\ d # c BY <1>3, <1>6, <1>8 DEF LiveOnes
<1>22. MustOwn' BY <1>1, <1>8, <1>12, <1>14, <1>21 DEF MustOwn
<1>23. StopsFit' BY <1>1, <1>15 DEF StopsFit
<1>24. CloseFits' BY <1>1 DEF CloseFits
<1>25. Runner!IntentIsNewest' BY <1>1 DEF Runner!IntentIsNewest
<1> QED BY <1>12, <1>13, <1>17, <1>20, <1>22, <1>23, <1>24, <1>25

\* The lease of the owner is confirmed.
LEMMA DrainPromoteKept == ASSUME RunnerInv, Runner!DrainPromote PROVE RunnerInv'
<1> USE DEF RunnerInv
<1>1. /\ Runner!Drains("promote") /\ UNCHANGED <<stopped, intent, tasks, running, window, count, last>>
      /\ IF Runner!BoundOwner /\ owner.id = Runner!C /\ ~req[Runner!C].cancel /\ Runner!Completion.result = "ok"
         THEN owner' = [owner EXCEPT !.promoted = TRUE] /\ Runner!Tell(Runner!C, "promoted")
         ELSE UNCHANGED <<owner, req>>
  BY DEF Runner!DrainPromote
<1>2. PICK c : c = Runner!C OBVIOUS
<1>3. /\ window = "open" /\ ReadyShrinks /\ c \in 1..MaxRequests
      /\ TaskFits(Runner!Completion.task, req, last.stops) /\ Runner!Completion.task.cmd = "promote"
  BY <1>1, <1>2, FirstCompletion DEF OtherCommands
<1>4. req[c].kind = "bound" /\ req[c].completed
  BY <1>2, <1>3 DEF TaskFits, OwnerCommands, Runner!C
<1>5. Runner!IntentIsNewest' /\ intent' \in Digests BY <1>1 DEF Runner!IntentIsNewest, RunnerTypes
<1>6. CASE UNCHANGED <<owner, req>> BY <1>1, <1>3, <1>5, <1>6, RunnerSame
<1>7. CASE /\ owner.bound /\ owner.id = c /\ ~req[c].cancel
           /\ owner' = [owner EXCEPT !.promoted = TRUE] /\ req' = [req EXCEPT ![c].told = @ \cup {"promoted"}]
  <2>1. \A d \in 1..MaxRequests : req[d] \in Reqs /\ RequestFits(d) BY DEF RunnerTypes
  <2>2. PICK r : r = [req[c] EXCEPT !.told = @ \cup {"promoted"}] OBVIOUS
  <2>3. "promoted" \in Facts BY DEF Facts
  <2>4. r \in Reqs /\ r.kind = req[c].kind /\ r.completed = req[c].completed /\ r.cancel = req[c].cancel
        /\ r.asked = req[c].asked /\ r.told = req[c].told \cup {"promoted"} /\ r.svc = req[c].svc
        /\ r.target = req[c].target /\ r.tried = req[c].tried /\ r.interrupted = req[c].interrupted
    BY <1>3, <2>1, <2>2, <2>3 DEF Reqs
  <2>5. req' = [req EXCEPT ![c] = r] BY <1>3, <1>7, <2>2 DEF RunnerTypes
  <2>6. req' \in [1..MaxRequests -> Reqs] /\ req'[c] = r /\ \A d \in 1..MaxRequests : d # c => req'[d] = req[d]
    BY <1>3, <2>4, <2>5 DEF RunnerTypes
  <2>7. RequestsGrow BY <1>1, <2>4, <2>6 DEF RequestsGrow
  <2>8. \A d \in 1..MaxRequests : req'[d].completed = req[d].completed /\ req'[d].svc = req[d].svc
    BY <2>4, <2>6
  <2>9. TasksFit' /\ StartsOnce' /\ Starting' = Starting BY <1>1, <1>3, <2>7, <2>8, QueueStays
  <2>10. SettledOnes \subseteq SettledOnes' BY <2>7, <2>8, <2>9, SettledStay DEF SettledOnes
  <2>11. owner' \in Owners /\ owner'.c = owner.c /\ owner'.id = owner.id /\ owner'.bound = owner.bound
         /\ owner'.promoted = TRUE
    BY <1>7 DEF RunnerTypes, Owners
  <2>12. RunnerTypes' BY <1>1, <1>3, <2>6, <2>11 DEF RunnerTypes, ReadyShrinks
  <2>13. (\A d \in 1..MaxRequests : RequestFits(d))'
    <3>1. RequestFits(c)'
      <4>1. RequestFits(c) /\ ("settled" \in req'[c].told => "settled" \in req[c].told) BY <1>3, <2>1, <2>4, <2>6
      <4> QED BY <1>4, <1>7, <2>4, <2>6, <2>10, <4>1 DEF RequestFits
    <3>2. ASSUME NEW d \in 1..MaxRequests, d # c PROVE RequestFits(d)'
      BY <2>1, <2>6, <2>10, <3>2 DEF RequestFits
    <3> QED BY <3>1, <3>2
  <2>14. owner.c = c BY <1>3, <1>7 DEF OwnerFits
  <2>15. OwnerFits' BY <1>1, <1>3, <1>7, <2>4, <2>6, <2>8, <2>9, <2>11, <2>14 DEF OwnerFits
  <2>16. \A d \in 1..MaxRequests : /\ (d \in LiveOnes' => d \in LiveOnes) /\ req'[d].kind = req[d].kind
                                   /\ req'[d].cancel = req[d].cancel
    BY <2>4, <2>6 DEF LiveOnes
  <2>17. MustOwn' BY <1>1, <2>8, <2>9, <2>11, <2>16 DEF MustOwn
  <2>18. StopsFit' BY <1>1, <1>3, <2>10 DEF StopsFit, ReadyShrinks
  <2>19. CloseFits' BY <1>1, <1>3 DEF CloseFits
  <2> QED BY <1>5, <2>9, <2>12, <2>13, <2>15, <2>17, <2>18, <2>19
<1> QED BY <1>1, <1>2, <1>6, <1>7 DEF Runner!BoundOwner, Runner!Tell

\* The caller is answered; a settlement gives the owner up.
LEMMA DrainConfirmKept ==
  ASSUME RunnerInv, MaxRequests \in Nat, NEW clean \in BOOLEAN, Runner!DrainConfirm(clean) PROVE RunnerInv'
<1> USE DEF RunnerInv
<1>1. /\ Runner!Drains("confirm") /\ UNCHANGED <<tasks, running, window, count, last>>
      /\ Runner!Reply(Runner!C, IF Runner!Completion.result = "stopped" THEN {"settled"} ELSE {})
      /\ \/ UNCHANGED <<stopped, owner, intent>>
         \/ /\ Runner!Completion.result = "stopped" /\ owner.c = Runner!C
            /\ stopped' = Runner!C /\ owner' = Runner!NoOwner
            /\ (intent' = intent \/ (intent' = 0 /\ intent = Runner!Completion.task.intent))
  BY DEF Runner!DrainConfirm
<1>2. PICK c : c = Runner!C OBVIOUS
<1>3. PICK t : t = Runner!Completion.task OBVIOUS
<1>4. PICK what : what = IF Runner!Completion.result = "stopped" THEN {"settled"} ELSE {} OBVIOUS
<1>5. /\ window = "open" /\ ReadyShrinks /\ c \in 1..MaxRequests /\ req[c].kind # "none"
      /\ t \in Tasks /\ TaskFits(t, req, last.stops) /\ t.cmd = "confirm"
      /\ (Runner!Completion.result = "stopped" => c \in SettledOnes)
  BY <1>1, <1>2, <1>3, FirstCompletion DEF OtherCommands
<1>6. what \in SUBSET Facts /\ "promoted" \notin what /\ ("settled" \in what => c \in SettledOnes)
  BY <1>4, <1>5 DEF Facts
<1>7. \A d \in 1..MaxRequests : req[d] \in Reqs /\ RequestFits(d) BY DEF RunnerTypes
<1>8. PICK r : r = [req[c] EXCEPT !.told = @ \cup what, !.waits = @ - 1] OBVIOUS
<1>9. r \in Reqs /\ r.kind = req[c].kind /\ r.completed = req[c].completed /\ r.cancel = req[c].cancel
      /\ r.asked = req[c].asked /\ r.told = req[c].told \cup what /\ r.svc = req[c].svc
      /\ r.target = req[c].target /\ r.tried = req[c].tried /\ r.interrupted = req[c].interrupted
  <2>1. req[c] \in Reqs /\ req[c].told \cup what \in SUBSET Facts /\ req[c].waits - 1 \in Int
    BY <1>5, <1>6, <1>7 DEF Reqs
  <2> QED BY <1>8, <2>1 DEF Reqs
<1>10. req' = [req EXCEPT ![c] = r]
  <2>1. req' = [req EXCEPT ![c].told = @ \cup what, ![c].waits = @ - 1]
    BY <1>1, <1>2, <1>4 DEF Runner!Reply
  <2> QED BY <1>5, <1>8, <2>1 DEF RunnerTypes
<1>11. CASE UNCHANGED <<stopped, owner, intent>>
  <2>1. MayBecome(c, r) BY <1>5, <1>6, <1>7, <1>9 DEF MayBecome, RequestFits
  <2> QED BY <1>1, <1>5, <1>10, <1>11, <2>1, RunnerOneQuiet
<1>12. CASE /\ c \in SettledOnes /\ owner.c = c /\ stopped' = c /\ owner' = Runner!NoOwner
            /\ (intent' = intent \/ (intent' = 0 /\ intent = t.intent))
  <2>1. req' \in [1..MaxRequests -> Reqs] /\ req'[c] = r /\ \A d \in 1..MaxRequests : d # c => req'[d] = req[d]
    BY <1>5, <1>9, <1>10 DEF RunnerTypes
  <2>2. RequestsGrow BY <1>1, <1>9, <2>1 DEF RequestsGrow
  <2>3. \A d \in 1..MaxRequests : /\ req'[d].completed = req[d].completed /\ req'[d].svc = req[d].svc
                                  /\ req'[d].kind = req[d].kind /\ req'[d].cancel = req[d].cancel
    BY <1>9, <2>1
  <2>4. TasksFit' /\ StartsOnce' /\ Starting' = Starting BY <1>1, <1>5, <2>2, <2>3, QueueStays
  <2>5. SettledOnes \subseteq SettledOnes' BY <2>2, <2>3, <2>4, SettledStay DEF SettledOnes
  <2>6. owner' \in Owners /\ owner'.c = 0 /\ owner'.id = 0 /\ owner'.bound = FALSE /\ owner'.promoted = FALSE
    BY <1>12 DEF Runner!NoOwner, Owners
  <2>7. intent' \in Digests /\ Runner!IntentIsNewest' BY <1>1, <1>5, <1>12, IntentForgotten
  <2>8. RunnerTypes' BY <1>1, <1>5, <1>12, <2>1, <2>6, <2>7 DEF RunnerTypes, ReadyShrinks
  <2>9. (\A d \in 1..MaxRequests : RequestFits(d))'
    <3>1. RequestFits(c)' BY <1>5, <1>6, <1>7, <1>9, <1>12, <2>1, <2>5 DEF RequestFits
    <3>2. ASSUME NEW d \in 1..MaxRequests, d # c PROVE RequestFits(d)'
      BY <1>7, <2>1, <2>5, <3>2 DEF RequestFits
    <3> QED BY <3>1, <3>2
  <2>10. OwnerFits' BY <2>6 DEF OwnerFits
  <2>11. \A d \in 1..MaxRequests : d \in LiveOnes' => d \in LiveOnes BY <2>3 DEF LiveOnes
  <2>12. c \notin Starting /\ c \notin LiveOnes BY <1>12 DEF SettledOnes, LiveOnes
  <2>13. MustOwn' BY <1>1, <1>12, <2>3, <2>4, <2>11, <2>12 DEF MustOwn
  <2>14. StopsFit' BY <1>5, <1>12, <2>5 DEF StopsFit, ReadyShrinks
  <2>15. CloseFits' BY <1>1, <1>5 DEF CloseFits
  <2> QED BY <2>4, <2>7, <2>8, <2>9, <2>10, <2>13, <2>14, <2>15
<1> QED BY <1>1, <1>2, <1>3, <1>5, <1>11, <1>12

-----------------------------------------------------------------------------
\* The window closes: who is flagged was asked to stop, or never had a lease.
LEMMA FlagKept ==
  ASSUME RunnerInv, MaxQueue \in Nat, NEW flagged,
         \A d \in flagged : \/ d = owner.c /\ owner.c # 0 /\ ~owner.promoted
                            \/ d = running.c /\ running.cmd \in {"bound", "plain", "confirm", "cancel"},
         window # "closed", window' \in {"ending", "closing"},
         (tasks' = tasks /\ window' = "ending") \/ tasks' = <<>>,
         req' = [c \in 1..MaxRequests |-> [req[c] EXCEPT !.cancel = @ \/ c \in flagged]],
         UNCHANGED <<owner, stopped, intent, running, ready, count, last>>
  PROVE  RunnerInv'
<1> USE DEF RunnerInv
<1>1. UNCHANGED <<owner, stopped, intent, running, ready, count, last>> OBVIOUS
<1>2. \A d \in 1..MaxRequests : req[d] \in Reqs /\ RequestFits(d) BY DEF RunnerTypes
<1>3. ASSUME NEW d \in 1..MaxRequests
      PROVE  /\ req'[d] \in Reqs /\ req'[d].kind = req[d].kind /\ req'[d].completed = req[d].completed
             /\ req'[d].asked = req[d].asked /\ req'[d].told = req[d].told /\ req'[d].svc = req[d].svc
             /\ req'[d].target = req[d].target /\ req'[d].tried = req[d].tried
             /\ req'[d].interrupted = req[d].interrupted
             /\ (req'[d].cancel <=> req[d].cancel \/ d \in flagged)
  <2>1. PICK b : b = (req[d].cancel \/ d \in flagged) OBVIOUS
  <2>2. b \in BOOLEAN BY <2>1
  <2>3. req'[d] = [req[d] EXCEPT !.cancel = b] BY <2>1
  <2>4. (b <=> req[d].cancel \/ d \in flagged) BY <2>1
  <2> QED BY <1>2, <2>2, <2>3, <2>4 DEF Reqs
<1>4. req' \in [1..MaxRequests -> Reqs] BY <1>3
<1>5. RequestsGrow BY <1>1, <1>3, <1>4 DEF RequestsGrow
<1>6. tasks' \in Seq(Tasks) /\ Len(tasks') <= MaxQueue /\ (tasks' = tasks \/ \A i \in 1..Len(tasks') : FALSE)
  <2>1. CASE tasks' = tasks BY <2>1 DEF RunnerTypes
  <2>2. CASE tasks' = <<>> BY <2>2, EmptySeq
  <2> QED BY <2>1, <2>2
<1>7. RunnerTypes'
  <2>1. window' \in {"open", "ending", "closing", "closed"} OBVIOUS
  <2> QED BY <1>1, <1>4, <1>6, <2>1 DEF RunnerTypes
<1>8. ReadyShrinks BY <1>1, ReadySame
<1>10. TasksFit'
  <2>1. \A i \in 1..Len(ready') : TaskFits(ready'[i].task, req', last'.stops) BY <1>5, <1>8, ReadyTasks
  <2>2. TaskFits(running, req', last'.stops) BY <1>5, TaskKept DEF TasksFit, RunnerTypes
  <2>3. ASSUME NEW i \in 1..Len(tasks), tasks' = tasks PROVE TaskFits(tasks[i], req', last'.stops)
    <3>1. tasks[i] \in Tasks BY DEF RunnerTypes
    <3> QED BY <1>5, <3>1, TaskKept DEF TasksFit
  <2> QED BY <1>1, <1>6, <2>1, <2>2, <2>3 DEF TasksFit
<1>11. Starting' \subseteq Starting BY <1>1, <1>6 DEF Starting
<1>12. StartsOnce'
  <2>1. \A c \in 1..MaxRequests : req'[c].completed => c \notin Starting' BY <1>3, <1>11 DEF StartsOnce
  <2>2. running.cmd = "confirm" => running.c \in 1..MaxRequests
    BY DEF TasksFit, TaskFits, OtherCommands, Tasks, RunnerTypes
  <2>3. running'.cmd = "confirm" => req'[running'.c].completed BY <1>1, <1>3, <2>2 DEF StartsOnce
  <2>4. CASE \A i \in 1..Len(tasks') : FALSE BY <2>1, <2>3, <2>4 DEF StartsOnce
  <2>5. CASE tasks' = tasks
    <3>1. ASSUME NEW i \in 1..Len(tasks), tasks[i].cmd = "confirm"
          PROVE  tasks[i].c \in 1..MaxRequests
      <4>1. tasks[i] \in Tasks /\ TaskFits(tasks[i], req, last.stops) BY DEF RunnerTypes, TasksFit
      <4> QED BY <3>1, <4>1 DEF TaskFits, OtherCommands, Tasks
    <3>2. \A i \in 1..Len(tasks) : tasks[i].cmd = "confirm" => req'[tasks[i].c].completed = req[tasks[i].c].completed
      BY <1>3, <3>1
    <3> QED BY <1>1, <1>3, <2>1, <2>3, <2>5, <3>2 DEF StartsOnce
  <2> QED BY <1>6, <2>4, <2>5
<1>13. SettledOnes \subseteq SettledOnes' BY <1>3, <1>11 DEF SettledOnes
<1>14. ASSUME NEW d \in 1..MaxRequests, "promoted" \in req[d].told, d \in flagged PROVE req[d].asked
  <2>1. CASE d = owner.c /\ owner.c # 0 /\ ~owner.promoted BY <1>14, <2>1 DEF OwnerFits
  <2>2. CASE d = running.c /\ running.cmd \in {"bound", "plain"}
    <3>1. d \in Starting BY <2>2 DEF Starting, StartOf, StartCommands
    <3> QED BY <1>2, <1>14, <3>1 DEF StartsOnce, RequestFits
  <2>3. CASE d = running.c /\ running.cmd \in {"confirm", "cancel"} BY <2>3 DEF TasksFit, TaskFits
  <2> QED BY <1>14, <2>1, <2>2, <2>3
<1>15. (\A d \in 1..MaxRequests : RequestFits(d))'
  <2>1. SUFFICES ASSUME NEW d \in 1..MaxRequests PROVE RequestFits(d)' OBVIOUS
  <2> QED BY <1>2, <1>3, <1>13, <1>14 DEF RequestFits
<1>16. owner.c # 0 => owner.c \in 1..MaxRequests BY DEF RunnerTypes, Owners
<1>17. OwnerFits'
  <2>1. CASE owner.c = 0 BY <1>1, <2>1 DEF OwnerFits
  <2>2. CASE owner.c # 0 BY <1>1, <1>3, <1>16, <2>2 DEF OwnerFits
  <2> QED BY <2>1, <2>2
<1>18. \A d \in 1..MaxRequests : d \in LiveOnes' => d \in LiveOnes BY <1>3 DEF LiveOnes
<1>19. MustOwn' BY <1>1, <1>3, <1>11, <1>18 DEF MustOwn
<1>20. StopsFit' BY <1>1, <1>13 DEF StopsFit
<1>21. CloseFits' BY <1>1, <1>18 DEF CloseFits
<1>22. Runner!IntentIsNewest' BY <1>1 DEF Runner!IntentIsNewest
<1> QED BY <1>7, <1>10, <1>12, <1>15, <1>17, <1>19, <1>20, <1>21, <1>22

LEMMA DestroyKept ==
  ASSUME RunnerInv, MaxQueue \in Nat, Runner!Destroy \/ Runner!Shutdown PROVE RunnerInv'
<1>1. PICK flagged :
        \/ /\ Runner!Destroy
           /\ flagged = (IF Runner!BoundOwner /\ ~owner.promoted THEN {owner.c} ELSE {})
        \/ /\ Runner!Shutdown
           /\ flagged = IF running.cmd \in {"bound", "plain", "confirm", "cancel"} THEN {running.c} ELSE {}
  OBVIOUS
<1>2. /\ window # "closed" /\ window' \in {"ending", "closing"}
      /\ (tasks' = tasks /\ window' = "ending") \/ tasks' = <<>>
      /\ UNCHANGED <<owner, stopped, intent, running, ready, count, last>>
  BY <1>1 DEF Runner!Destroy, Runner!Shutdown, Runner!Open
<1>3. req' = [c \in 1..MaxRequests |-> [req[c] EXCEPT !.cancel = @ \/ c \in flagged]]
  BY <1>1 DEF Runner!Destroy, Runner!Shutdown, Runner!Flagged, Runner!Requests
<1>4. \A d \in flagged : \/ d = owner.c /\ owner.c # 0 /\ ~owner.promoted
                         \/ d = running.c /\ running.cmd \in {"bound", "plain", "confirm", "cancel"}
  BY <1>1 DEF Runner!BoundOwner
<1> QED BY <1>2, <1>3, <1>4, FlagKept

\* The window is gone: the request it leaves behind was asked to stop, or has its lease.
LEMMA DestroyedKept ==
  ASSUME RunnerInv, MaxRequests \in Nat, NEW heard \in BOOLEAN, Runner!Destroyed(heard) PROVE RunnerInv'
<1> USE DEF RunnerInv
<1>1. /\ window = "closing" /\ running = Runner!NoTask /\ window' = "closed" /\ ready' = <<>>
      /\ owner' = Runner!NoOwner /\ req' = Runner!LastCancel(heard)
      /\ UNCHANGED <<stopped, intent, tasks, running, count, last>>
  BY DEF Runner!Destroyed
<1>2. owner.c # 0 => owner.c \in 1..MaxRequests BY DEF RunnerTypes, Owners
<1>3. PICK p : p = req' OBVIOUS
<1>4. /\ p \in [1..MaxRequests -> Reqs] /\ \A d \in 1..MaxRequests : MayReturn(d, p[d])
      /\ owner.c # 0 /\ owner.bound /\ ~owner.promoted /\ req[owner.c].target => p[owner.c].tried
  <2>1. CASE /\ owner.bound /\ owner.c # 0 /\ (~owner.promoted \/ req[owner.c].cancel) /\ req[owner.c].target
             /\ p = Runner!Cancelled(owner.c, heard)
    <3>1. PICK o : o = owner.c OBVIOUS
    <3>2. o \in 1..MaxRequests /\ req[o].kind # "none" /\ (req[o].cancel \/ "promoted" \notin req[o].told)
      BY <1>2, <2>1, <3>1 DEF OwnerFits
    <3>3. p = Runner!Cancelled(o, heard) BY <2>1, <3>1
    <3>4. p \in [1..MaxRequests -> Reqs] /\ (\A d \in 1..MaxRequests : MayReturn(d, p[d])) /\ p[o].tried
      BY <3>2, <3>3, CancelledMayReturn
    <3> QED BY <3>1, <3>4
  <2>2. CASE ~(owner.bound /\ owner.c # 0 /\ (~owner.promoted \/ req[owner.c].cancel) /\ req[owner.c].target) /\ p = req
    BY <2>2, SameMayReturn
  <2> QED BY <1>1, <1>3, <2>1, <2>2 DEF Runner!LastCancel, Runner!BoundOwner
<1>5. RequestsGrow BY <1>1, <1>3, <1>4 DEF RequestsGrow, MayReturn
<1>6. ready' \in Seq([task : Tasks, result : Results]) /\ Len(ready') = 0 BY <1>1, EmptySeq
<1>7. ReadyShrinks BY <1>6 DEF ReadyShrinks
<1>8. \A d \in 1..MaxRequests : req'[d].completed = req[d].completed /\ (req[d].svc = "none" => req'[d].svc = "none")
  BY <1>3, <1>4 DEF MayReturn
<1>9. TasksFit' /\ StartsOnce' /\ Starting' = Starting BY <1>1, <1>5, <1>7, <1>8, QueueStays
<1>10. Starting = {}
  <2>1. tasks = <<>> BY <1>1 DEF CloseFits
  <2>2. Len(tasks) = 0 BY <2>1, EmptySeq
  <2>3. \A c : ~StartOf(running, c) BY <1>1 DEF Runner!NoTask, StartOf, StartCommands
  <2> QED BY <2>2, <2>3 DEF Starting
<1>11. owner' \in Owners /\ owner'.c = 0 /\ owner'.id = 0 /\ owner'.bound = FALSE /\ owner'.promoted = FALSE
  BY <1>1 DEF Runner!NoOwner, Owners
<1>12. RunnerTypes' BY <1>1, <1>3, <1>4, <1>6, <1>11 DEF RunnerTypes
<1>13. SettledOnes \subseteq SettledOnes' BY <1>5, <1>8, <1>9, SettledStay DEF SettledOnes
<1>14. ASSUME NEW d \in 1..MaxRequests PROVE Follows(d)
  <2>1. RequestFits(d) /\ MayReturn(d, req'[d]) BY <1>3, <1>4
  <2> QED BY <2>1 DEF Follows, MayReturn, RequestFits
<1>15. (\A d \in 1..MaxRequests : RequestFits(d))' BY <1>5, <1>13, <1>14, RequestsFollow
<1>16. OwnerFits' BY <1>11 DEF OwnerFits
<1>17. MustOwn' BY <1>1, <1>9, <1>10 DEF MustOwn
<1>18. StopsFit'
  <2>1. \A i \in 1..Len(ready') : FALSE BY <1>6
  <2> QED BY <1>1, <1>13, <2>1 DEF StopsFit
<1>19. CloseFits'
  <2>1. tasks' = <<>> /\ running' = Runner!NoTask BY <1>1 DEF CloseFits
  <2>2. ASSUME NEW c \in LiveOnes' PROVE req'[c].tried \/ "promoted" \in req'[c].told
    <3>1. c \in 1..MaxRequests /\ req'[c].kind = "bound" /\ req'[c].svc \in {"starting", "up"} BY DEF LiveOnes
    <3>2. MayReturn(c, req'[c]) BY <1>3, <1>4, <3>1
    <3>3. req[c].kind = "bound" /\ req[c].svc \in {"starting", "up"} /\ req[c].told = req'[c].told
      BY <3>1, <3>2 DEF MayReturn
    <3>4. owner.c = c /\ c # 0 /\ owner.bound /\ req[c].target
      BY <1>1, <3>1, <3>3 DEF MustOwn, LiveOnes, OwnerFits, RequestFits
    <3> QED BY <1>3, <1>4, <3>3, <3>4 DEF OwnerFits
  <2> QED BY <2>1, <2>2 DEF CloseFits
<1>20. Runner!IntentIsNewest' BY <1>1 DEF Runner!IntentIsNewest
<1> QED BY <1>9, <1>12, <1>15, <1>16, <1>17, <1>18, <1>19, <1>20

LEMMA RunnerStep ==
  ASSUME Runner!RunnerAssumption, RunnerInv, [Runner!Next]_Runner!vars PROVE RunnerInv'
<1>1. MaxQueue \in Nat /\ MaxRequests \in Nat BY DEF Runner!RunnerAssumption
<1>2. CASE Runner!MethodCall
  <2>1. ASSUME NEW p \in Profiles \cup {0}, Runner!StageProfile(p) PROVE RunnerInv'
    BY <2>1, StageProfileKept DEF Digests
  <2>2. ASSUME NEW c \in 1..MaxRequests, NEW kind \in {"bound", "plain"}, Runner!Connect(c, kind) PROVE RunnerInv'
    BY <2>2, ConnectKept DEF StartCommands
  <2>3. ASSUME NEW c \in 1..MaxRequests, NEW p \in Profiles, Runner!Replace(c, p) PROVE RunnerInv'
    BY <2>3, ReplaceKept
  <2>4. ASSUME NEW c \in 1..MaxRequests, NEW cmd \in {"promote", "revoke", "control"}, Runner!AskOwner(c, cmd)
        PROVE  RunnerInv'
    BY <2>4, AskOwnerKept
  <2>5. ASSUME NEW c \in 1..MaxRequests,
               Runner!NotDispatched(c) \/ Runner!ConfirmStopped(c) \/ Runner!ConfirmKnown(c) \/ Runner!CancelRequest(c)
        PROVE  RunnerInv'
    BY <2>5, NotDispatchedKept, ConfirmStoppedKept, ConfirmKnownKept, CancelRequestKept
  <2>6. CASE Runner!Disconnect \/ Runner!Ask BY <2>6, DisconnectKept, AskKept
  <2> QED BY <1>2, <2>1, <2>2, <2>3, <2>4, <2>5, <2>6 DEF Runner!MethodCall, Runner!Requests
<1>3. CASE Runner!WorkerStep
  <2>1. CASE Runner!Pick BY <1>1, <2>1, PickKept
  <2>2. CASE Runner!Write BY <2>2, WriteKept
  <2>3. CASE Runner!NotWritten \/ Runner!Answered \/ \E b \in BOOLEAN : Runner!Lost(b) BY <1>1, <2>3, StartReturns
  <2>4. CASE Runner!Other BY <1>1, <2>4, OtherReturns
  <2>5. ASSUME NEW b \in BOOLEAN, Runner!ExactCancel(b) PROVE RunnerInv' BY <1>1, <2>5, ExactCancelReturns
  <2>6. ASSUME NEW b \in BOOLEAN, Runner!DisconnectRuns(b) PROVE RunnerInv' BY <1>1, <2>6, DisconnectReturns
  <2>7. ASSUME NEW b \in BOOLEAN, NEW r \in {"stopped", "unsettled", "failed"}, Runner!Confirm(r, b) PROVE RunnerInv'
    BY <1>1, <2>7, ConfirmReturns
  <2>8. ASSUME NEW b \in BOOLEAN, NEW a \in BOOLEAN, Runner!Lease(b, a) PROVE RunnerInv' BY <1>1, <2>8, LeaseReturns
  <2> QED BY <1>3, <2>1, <2>2, <2>3, <2>4, <2>5, <2>6, <2>7, <2>8 DEF Runner!WorkerStep
<1>4. CASE Runner!ServiceStep
  <2>1. PICK c \in 1..MaxRequests : Runner!ServiceStops(c) \/ \E b \in BOOLEAN : Runner!ServiceEnds(c, b)
    BY <1>4 DEF Runner!ServiceStep, Runner!Requests
  <2>2. PICK b \in BOOLEAN : Runner!ServiceEnds(c, b) \/ Runner!ServiceStops(c) BY <2>1
  <2> QED BY <2>2, ServiceKept
<1>5. CASE Runner!DrainStep
  <2>1. CASE Runner!DrainBound \/ Runner!DrainPromote \/ Runner!DrainOther
    BY <2>1, DrainBoundKept, DrainPromoteKept, DrainOtherKept
  <2>2. ASSUME NEW b \in BOOLEAN, Runner!DrainConfirm(b) PROVE RunnerInv' BY <1>1, <2>2, DrainConfirmKept
  <2>3. ASSUME NEW b \in BOOLEAN, Runner!DrainDisconnect(b) PROVE RunnerInv' BY <2>3, DrainDisconnectKept
  <2>4. ASSUME NEW b \in BOOLEAN, Runner!Destroyed(b) PROVE RunnerInv' BY <1>1, <2>4, DestroyedKept
  <2>5. CASE Runner!Shutdown BY <1>1, <2>5, DestroyKept
  <2> QED BY <1>5, <2>1, <2>2, <2>3, <2>4, <2>5 DEF Runner!DrainStep
<1>6. CASE Runner!Destroy BY <1>1, <1>6, DestroyKept
<1>7. CASE Runner!Rests \/ UNCHANGED Runner!vars BY <1>7, RunnerUnchanged DEF Runner!Rests
<1> QED BY <1>2, <1>3, <1>4, <1>5, <1>6, <1>7 DEF Runner!Next

\* In whatever order answers, stops, leases and the end of the window come, the
\* window, the worker's queue and the service agree on every request: one that is
\* reported as settled is stopped, one that may run belongs to the window, and a
\* confirmed lease outlives it (flutter_window.cpp, for any number of requests).
THEOREM RequestsOwned == ASSUME Runner!RunnerAssumption PROVE Runner!Spec => []RequestsAreOwned
<1>1. Runner!Init => RunnerInv BY RunnerInit
<1>2. RunnerInv /\ [Runner!Next]_Runner!vars => RunnerInv' BY RunnerStep
<1>3. RunnerInv => RequestsAreOwned BY RunnerReports
<1> QED BY <1>1, <1>2, <1>3, PTL DEF Runner!Spec
=============================================================================

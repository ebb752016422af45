---------------------------- MODULE WindowsShell ----------------------------
(***************************************************************************)
(* The processes of the desktop shell side by side: the window's           *)
(* connection requests, the launches and links that reach it, and the      *)
(* crash filter.  They share no state; each keeps its own specification.   *)
(***************************************************************************)
EXTENDS Naturals, Sequences

CONSTANTS
  MaxRequests, Profiles, MaxQueue, MaxTasks,             \* WindowsRunner
  Procs, Links, Attempts, MaxPayload, Foreign,           \* WindowsActivation
  Threads, MaxFrames, MaxUnwind, Records, Faults, Reads  \* WindowsCrashProfile

VARIABLES
  owner, stopped, intent, req, tasks, running, ready, window, count, last,
                                                         \* WindowsRunner
  pc, link, hidden, tries, mutex, windows, sent, frames, acted, ui,
                                                         \* WindowsActivation
  up, modules, active, at, stack, disk, serial, cur, prev, rpc, handle, size, found,
  reads, faults, whole, spoilt                           \* WindowsCrashProfile

runnerVars == <<owner, stopped, intent, req, tasks, running, ready, window, count, last>>
activationVars == <<pc, link, hidden, tries, mutex, windows, sent, frames, acted, ui>>
crashVars == <<up, modules, active, at, stack, disk, serial, cur, prev, rpc, handle, size, found,
               reads, faults, whole, spoilt>>

Runner == INSTANCE WindowsRunner
Activation == INSTANCE WindowsActivation
Crash == INSTANCE WindowsCrashProfile WITH pc <- at, frames <- stack, last <- serial

\* What the window believes of its requests, the worker's queue and the service
\* agree (flutter_window.cpp; see RequestsAreOwned in WindowsRunner).
RequestsAreOwned == Runner!RequestsAreOwned

\* Launches that race for the session end in one UI, which has what they were for
\* (main.cpp; see ActivationIsExact in WindowsActivation).
ActivationIsExact == Activation!ActivationIsExact

\* Crashing threads and the reader of the diagnostics agree on what is a complete
\* record (windows_crash_profile.cpp; see CrashesAreReported in WindowsCrashProfile).
CrashesAreReported == Crash!CrashesAreReported
=============================================================================

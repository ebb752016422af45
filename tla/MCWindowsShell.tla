--------------------------- MODULE MCWindowsShell ---------------------------
(* The desktop shell for TLC. Its processes share no state, so a behaviour   *)
(* runs one of them and leaves the others in their initial state. Runner and  *)
(* activation have a wide form for safety and a narrow one for liveness.      *)
EXTENDS WindowsShell

VARIABLE runs                                            \* the one that runs

\* Two requests under one profile, or one request under two, with three tasks.
OneProfile == INSTANCE WindowsRunner WITH Profiles <- {1}, MaxTasks <- 3
Few == INSTANCE WindowsRunner WITH MaxTasks <- 3
OneRequest == \A c \in 2..MaxRequests : req'[c].kind = "none"

\* Two bound requests, one owner after the other, with enough tasks for what
\* settles, stops or leases either: the profile is staged first, nothing plain is
\* connected and the tasks that touch no request are left out.
Owners == INSTANCE WindowsRunner WITH Profiles <- {1}
TwoOwners ==
  /\ \A c \in 1..MaxRequests : req'[c].kind # "plain"
  /\ last'.profile # 0 \/ count' = 0
  /\ Len(tasks') > Len(tasks) =>
       LET new == tasks'[Len(tasks')].cmd
       IN new \notin {"ask", "control"} /\ (new = "stage" => count = 0)

\* No frames of other programs.
Undisturbed == INSTANCE WindowsActivation WITH Foreign <- 0

ASSUME Runner!RunnerAssumption /\ Crash!CrashAssumption

Init ==
  /\ runs \in {"runner", "owners", "oneRequest", "activation", "undisturbed", "crash"}
  /\ Runner!Init /\ Activation!Init /\ Crash!Init

Next ==
  \/ /\ \/ runs = "runner" /\ OneProfile!Next
        \/ runs = "owners" /\ Owners!Next /\ TwoOwners
        \/ runs = "oneRequest" /\ Few!Next /\ OneRequest
     /\ UNCHANGED <<runs, activationVars, crashVars>>
  \/ /\ \/ runs = "activation" /\ Activation!Next
        \/ runs = "undisturbed" /\ Undisturbed!Next
     /\ UNCHANGED <<runs, runnerVars, crashVars>>
  \/ runs = "crash" /\ Crash!Next /\ UNCHANGED <<runs, runnerVars, activationVars>>

\* The fairness of each module, while its narrow form runs.
Fairness ==
  /\ WF_runnerVars(runs = "oneRequest" /\ Few!WorkerStep)
  /\ WF_runnerVars(runs = "oneRequest" /\ Few!DrainStep)
  /\ WF_activationVars(runs = "undisturbed" /\ Undisturbed!Dart)
  /\ \A p \in Procs :
       WF_activationVars(runs = "undisturbed" /\ Undisturbed!GetInitialUri(p) /\ Undisturbed!Shell)

Spec == Init /\ [][Next]_<<runs, runnerVars, activationVars, crashVars>> /\ Fairness

\* Whoever asks for a settlement is answered or the window closes, a window that
\* closes gets past its worker, and the last link a window was given is consumed
\* (the liveness properties of WindowsRunner and WindowsActivation).
ShellAnswers ==
  /\ runs = "oneRequest" => Few!SettlementIsAnswered /\ Few!CloseEnds
  /\ runs = "undisturbed" => Undisturbed!LastLinkIsConsumed
=============================================================================

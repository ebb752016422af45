# POKROV client: TLA+ models, TLC runs and TLAPS proofs

POKROV is a VPN client: a Flutter application that obtains a managed profile
and asks a privileged native host to run a sing-box based Core over a TUN
device. The repository holds the Dart application and one native host per
platform. This directory models the parts where an unlucky order of steps, a
crash between two of them or a lost answer could leave a user without network,
without protection, or with a session nobody owns.

## The system and its parts

| Part | Source | State | Operations | Hard part |
|---|---|---|---|---|
| Linux network transaction | `apps/linux_shell/daemon/internal/networktxn` | transaction state, four participants (NetworkManager, resolved, nftables, routes), durable recovery record | `Execute`, `Restore`, `RecoverSystem` | a command may take effect and still fail; daemon crash, reboot, Core death between any two steps |
| Linux service | `.../internal/service` | phase, transaction, core, bound owner, lease, flags | the socket actions, three kinds of watcher goroutine | cancellation, peer death, network change and lease promotion race one start |
| Linux network context | `.../internal/service/network_*_linux.go` | reference, sample, revision | `Read`, `Matches`, netlink and D-Bus events | an event during a slow sample |
| Linux Core child | `.../internal/coreprocess` | child process, pipe, lease | prepare, start, stop, promote, revoke | lost acknowledgements, crashed child |
| Linux profile store | `.../internal/profile` | profile file, bound marker | `Stage`, `StageBound`, `Invalidate` | power loss between two renames |
| Linux socket server | `.../internal/server`, `auth`, `protocol`, `host`, `journal`, `bootclock` | slots, peer identity | accept, authorize, decode | limits, peer identity |
| Windows runtime host | `apps/windows_shell/windows/service/service_runtime.cpp` | phase, staged profile, Core, DPI child, readiness | initialize, stage, connect, replace, disconnect, recheck, maintain, recover, shut down | every caller of the rollback sets the phase itself; each step of a rollback may fail with the others done |
| Windows recovery journal | `.../service_recovery.cpp` | stage and network snapshot, in memory and on disk | `Begin`, `Record`, `BeginRollback`, `RestoreNetworkState`, `CompleteRollback`, `Load` | crash between a stage and the change it announces; unreadable journal |
| Windows transition guard | `.../service_transition_guard.cpp` | persistent WFP filters and what the host believes of them | `Start`, `Finish`, `ExplicitOff`, adoption at startup | a change that was made and not confirmed |
| Windows dispatcher | `.../service_dispatcher.cpp` | two locks, active and stopped connect, snapshot, watcher thread, active probes | dispatch, cancel, confirm, promote, revoke, watch | cancellation and owner death while a handler runs; two locks in two orders |
| Windows network observer | `.../service_network_observer.cpp` | revision, retained reference, salt of selection keys | notifications, `ReadContext`, `ReadCandidateContext` | a notification during a sample |
| Windows network state | `.../service_network_state.cpp` | the adapter's settings and their snapshot | `Capture`, `Restore` | a restore that stops half way; adapters that vanish |
| Windows probes and DPI | `.../service_egress_probe.cpp`, `service_local_dpi*.cpp` | deadlines, child, published holders, permits | verify, prepare, prove, publish, withdraw | shared deadlines; a child that dies with traffic on it |
| Windows pipe | `.../service_client.cpp`, `service_server.cpp`, `service_main.cpp`, `service_protocol.*` | sessions, nonces, stop event; one call and its companion | exchange, cancel, settle, accept, serve, stop | lost answers, a cancellation that races the answer, stopping with sessions open |
| Windows journals | `.../service_events.cpp`, `windows_crash_profile.cpp` | bounded queue, two files each | record, rotate, write, read | several threads; the process ends in the middle |
| Windows runner | `apps/windows_shell/windows/runner` | owner of the connection request, task queue, pending probes, launches and links | method calls, completions, activation, close | completions that come after the state they were asked in |
| Android shell | `apps/android_shell/.../pokrov_android_shell` | runtime state, VPN service, network monitor, journal | start, stop, revoke, network events | callbacks of several threads |
| iOS and macOS shells | `apps/ios_shell`, `apps/macos_shell` | packet tunnel provider | start, stop | scaffold |
| Dart application | `packages/app_shell`, `packages/runtime_engine` | connection manager, bootstrap, sessions, caches | connect, refresh, poll | async gaps |
| Observability | `packages/observability_*`, `diagnostics_collectors`, `support_*` | bounded queue, store, crash marker | enqueue, dispatch, settle | limits, crash between persist and send |

The Dart application stages a profile at the host of its platform and asks it
to connect; the host owns everything privileged. On Linux the service
(`internal/service`) holds one network transaction, which owns one Core child;
the profile store is used by the service's staging handlers and read by the
Core. On Windows the runner's window sends each call over a named pipe; the
pipe server hands it to the dispatcher, which lets one thread at a time into
the runtime host; the host owns the Core, the journal, the guard, the adapter's
snapshot and the DPI child, and asks the network observer whether the network
is still the one a session was made for. In both the crucial
question is the same: the host changes things that outlive its process (files,
filters, routes, DNS), and a crash, a failed call or a lost answer may come
between any two changes.

What makes each part correct:

- transaction and journal: what the process has changed on the host is on disk
  before it is changed, and "idle" means nothing is left;
- leak block and guard: nothing that steers traffic exists outside the block,
  and the block is released only behind a verified session or a completed
  restore;
- bound connect: at most one owner, always reachable by whoever may have to end
  it; an answer that says settled is final; nobody waits for somebody who waits
  for them;
- dispatcher and runner: what a client is told has stopped has stopped, a
  session is watched as long as it runs, and no two threads wait for each other;
- pipe: an operation the caller takes for ended does not go on unseen, whatever
  message is lost;
- observer: a reference that became invalid never becomes valid again;
- probes and DPI: success is a proof of this network and this child, traffic is
  sent to a child only while it runs, and every check returns;
- profile store: a profile that may only be started by naming its digest stays
  recognisable as one, on every disk a power loss can leave.

`PROJECT.json` lists the hazards behind these at their lines, with the
property that covers each.

## Modules

| Module | Models | Checked by | Proofs |
|---|---|---|---|
| `LinuxProfileStore` | profile file, bound marker, staging and the admission half of connect | `MCLinuxProfileStore` | `LinuxProfileStore_proofs` |
| `LinuxNetworkTransaction` | `Execute`, `Restore`, `RecoverSystem`, participants, durable record, Core child | `MCLinuxNetworkTransaction` | `LinuxNetworkTransaction_proofs` |
| `LinuxBoundConnect` | the service's requests, goroutines and locks around one transaction | `MCLinuxBoundConnect` | `LinuxBoundConnect_proofs` |
| `WindowsRuntimeHost` | runtime host, recovery journal, transition guard as one variable | `MCWindowsRuntimeHost` | `WindowsRuntimeHost_proofs` |
| `WindowsDispatcher` | locks, handlers, watcher and leases around the host | `MCWindowsDispatcher` | `WindowsDispatcher_proofs` |
| `WindowsServiceClient` | one cancellable call with its companion and its settlement | `MCWindowsIpc` | `WindowsService_proofs` |
| `WindowsPipeServer`, `WindowsCapabilities` | accept loop, sessions, `ServiceMain`; the two capability tables | `MCWindowsIpc` | `WindowsService_proofs` |
| `WindowsEvents` | the service's event journal | `MCWindowsIpc` | `WindowsService_proofs` |
| `WindowsPipe` | client, pipe server and event journal side by side | `MCWindowsIpc` | `WindowsService_proofs` |
| `WindowsCandidateProbe` | candidate probes from the window to the Core | `MCWindowsProbes` | `WindowsService_proofs` |
| `WindowsEgressProbe` | the authenticated egress check | `MCWindowsProbes` | `WindowsService_proofs` |
| `WindowsLocalDpi` | the DPI child, its proof, publication and withdrawal | `MCWindowsProbes` | `WindowsService_proofs` |
| `WindowsControlProof` | the exchange with each control host | `MCWindowsProbes` | `WindowsService_proofs` |
| `WindowsProbes` | the four above side by side | `MCWindowsProbes` | `WindowsService_proofs` |
| `NetworkReference` | what an observer promises of references (abstract) | refined by `WindowsNetworkObserver` | `WindowsNetwork_proofs` |
| `WindowsNetworkObserver` | revision, samples, reference, salt | `MCWindowsNetwork` | `WindowsNetwork_proofs` |
| `WindowsNetworkState` | snapshot and restoration of the adapter | `MCWindowsNetwork` | `WindowsNetwork_proofs` |
| `WindowsTransitionGuard` | the guard's filters inside the filtering engine | `MCWindowsNetwork` | `WindowsNetwork_proofs` |
| `WindowsNetwork` | observer, adapter and guard side by side | `MCWindowsNetwork` | `WindowsNetwork_proofs` |
| `WindowsRunner` | the window's connection requests and its worker | `MCWindowsShell` | `WindowsShell_proofs` |
| `WindowsActivation` | launches, forwarded links and their consumption | `MCWindowsShell` | `WindowsShell_proofs` |
| `WindowsCrashProfile` | crash filter, record files, reader | `MCWindowsShell` | `WindowsShell_proofs` |
| `WindowsShell` | the three above side by side | `MCWindowsShell` | `WindowsShell_proofs` |

Definitions marked *Faulty* in a module are mutated forms of the definition
that follows: the same code with a plausible mistake. They are no part of any
specification; each property is known to fail when one of them replaces the
original.

A module that interacts with another one sees it as the set of outcomes its
calls can have, and says so in its head comment: `WindowsDispatcher` sees the
host as what `WindowsRuntimeHost` may leave behind, `WindowsRuntimeHost` sees
the guard and the adapter as one variable each, `WindowsTransitionGuard` and
`WindowsNetworkState` have their calls. `WindowsNetworkObserver` is the one
with an abstract specification of its own, which it is shown to implement.

`WindowsPipe`, `WindowsProbes`, `WindowsNetwork` and `WindowsShell` put
components that share no state side by side: they declare the variables of all,
instantiate each component (the client and the observer are extended) and name
the invariants. The proofs modules and the MC modules extend them, so that an
invariant a run names is the very definition a theorem states.

In `MCWindowsIpc`, `MCWindowsProbes`, `MCWindowsNetwork` and `MCWindowsShell` the
variable `runs` says which component a behaviour is of; the others stay in an
initial state, so the states add up and do not multiply. Where one instance
would be too large, or safety and liveness need different bounds, the same module
is instantiated again on the same variables with other constants, and a behaviour
takes the steps of one of the instances; fairness is stated for the narrow ones.
`MCLinuxBoundConnect`, `MCLinuxNetworkTransaction` and
`MCWindowsDispatcher` do the same with one module, which they extend, and several
sets of callers or faults. The dispatcher's liveness is checked in
`MCWindowsRuntimeHost`, with two clients and without symmetry, which is not sound
for it.

The properties that a run names are conjunctions where one question has several
parts: `SessionIsOwned` of the dispatcher is its type invariant,
`ConfirmedIsStoppedOrGuarded`, `BoundSessionIsWatched` and `CleanupHitsItsOwner`. Each
part is a definition of its own with its own comment.

### LinuxProfileStore

A directory entry is modelled by what the running system sees (`profile`,
`marker`) and by the set of values it may have after a power loss
(`profileDisk`, `markerDisk`); a rename adds a value, `syncDirectory` collapses
the set. A staged payload carries, for the properties only, how it was staged.
`Stage` and `Invalidate` begin a request under `service.mu`; each rename, remove
and sync of `store.go` is one action that succeeds or takes the handler's error
branch. `DaemonCrash` resets the fields of `Service`, `PowerLoss` picks any
possible disk.

### LinuxNetworkTransaction

`service.mu` is held for a whole operation, so the daemon is one process with a
program counter; beside it run the host (Core, NetworkManager, another
administrator). One step is one external command or one file write. A command
may fail before its effect (`"command"`), after it (`"lost"`), the record's
file system may fail (`"disk"`), the Core may die (`"core"`), a NetworkManager
checkpoint may expire (`"expire"`), somebody may install a table or a route of
our name (`"foreign"`), the daemon may die (`"crash"`, which leaves an orphan
Core until its parent-death signal takes effect) and the host may reboot
(`"reboot"`, which clears the kernel and brings back one of the files the disk
may hold). `FaultKinds` and `MaxFaults` choose which and how many. The nft
table is named by its owner: ours, foreign, ours added to a foreign one, or a
previous transaction's. Addresses, device indices and rule text are data the
properties do not tell apart and are left out; the order of the route objects
in both loops is kept.

### LinuxBoundConnect

One state machine per request (`handler`), its watcher goroutine (`watcher`),
its cancel request (`canceller`), and the shared fields of `Service`. Sections
under `connectMu`, and handlers that hold `mu` without waiting for anyone, are
single steps; a handler that waits for the Core or for another goroutine while
it holds `mu` is cut there. The transaction is seen from outside: `Execute`
installs everything, nothing, or leaves something to recover; `Restore` removes
it or leaves it to a retry. Request IDs are unique, as the client generates
them. A failed network sample clears the reference, so it counts as a change of
network. The deadline, the end of the socket and a trailer on it all cancel the
call and are one action, `CallerGone`.

### WindowsRuntimeHost

`execution_lock_` admits one handler at a time, so `pc` is the next step of the
handler inside, cut at every call that changes something the process does not
own: journal file, adapter settings, filters, Core, DPI child. `journal` is
what memory says, `disk` what the file says; `guard` is what the host believes
of the filters, `wfp` the filters. `after` is what the caller of
`RollbackRuntime` does with its result (`Settled`): abort a connect, end a
disconnect, go on with a replacement, exit. Adapter settings are the user's or
the VPN's; a restore that fails may leave either. A journal write that reports
failure has left the old file: `MoveFileExW` within a directory gives no such
answer after the rename.
Left out: the Telegram WebSocket admissions and the DPI strategy hints, which
no step of connect or rollback depends on; Smart Access files; event recording.
`RetireStagedProfile` stands for every catalog command that makes the staged
bytes unusable while a session runs.

### WindowsDispatcher

Every session thread is a handler with a program counter, the watcher is one
more. `execution` is the holder of `execution_lock_`, which is kept over a call
of the host; blocks under `state_lock_` are single steps, except in
`CheckRunningEgress`, which holds it (`stateHeld`) while it tries the other lock.
`op` is the `ActiveConnect` of an invocation, `active` and `stopped` the two
owner fields, `snapshot` what status answers from. `host` is what
`WindowsRuntimeHost` leaves between calls: phase, session, lease, DPI, and
whether the guard counts as armed. A call's outcomes include that of a guard
which cannot be started or released: a connect whose profile needs no lease
releases an armed guard and, where that fails, answers with a failure although
it runs (`Connected`); the undo of a protected connect that cannot start the
guard stops nothing (`ProtectedHandoffCancelled`). Either way the dispatcher
takes the invocation for ended, `RetireConnect` records it as stopped, and its
client is told `settled=1`. That is the violation run `dispatcher_guard`. What
does hold is that every other confirmed session has stopped, and that the one
which runs on is still behind a guard that counts as armed
(`ConfirmedIsStoppedOrGuarded`; `host.dropped` marks such a session, for the
properties only). All of these speak of bound invocations: an unbound connect
with a helper whose client process cannot be opened is recorded as stopped and
goes on (`service_dispatcher.cpp:577-592`). Payload checks, the wording of frames
and the renewal of Smart Access leases are left out.

### WindowsServiceClient, WindowsPipeServer, WindowsCapabilities, WindowsEvents

`WindowsServiceClient` is one call (`call`), its companion thread (`companion`),
the control it shares with the owner (`control`), and the service as the outcomes
of one operation; the request, the answer, the cancellation and the answer to it
may each be lost. `WindowsPipeServer` has `ServiceMain`, the control handler and
one state machine per connection: hello, capabilities, nonce, command, answer.
Its commands start and return; what they do is the dispatcher's.
`HandlerFindsJournal` is stated for a service without failures. A service that
ends because of a failure is still running to the service manager while
`ServiceMain` takes the journal away (`service_main.cpp:182-183`), so a control
may arrive between the handler's check of the pointer and its use (`:86-88`):
there the property excepts the code, it does not vouch for it. The capability
tables of the two ends are two tables in `WindowsCapabilities`, each with the
rows of its own function (`ProcessClient`, `Exchange`); that the client asks no
less than the service is an `ASSUME` of `MCWindowsIpc`. `WindowsEvents` has
producers that form and queue records, the writer with its rotation, failing
writes, and kills; a record has a length, up to one more than the 512 bytes
`AppendLine` takes (`MaxLine`), and carries the name of its command as
`CommandName` gives it.

### WindowsCandidateProbe, WindowsEgressProbe, WindowsLocalDpi, WindowsControlProof

`WindowsCandidateProbe` follows one probe through the window's table (`pending`),
its worker, the service's table and the Core, with the latch (`lost`) that
refuses new probes after a lost answer. `WindowsEgressProbe` keeps time: `deadline`,
`slice` and `io` are what is left, `Tick` lets it pass, and every wait ends by
its answer, its timeout, the target's slice or the owner. `WindowsLocalDpi` has
one operation at a time (`pc`, `call`), the child, the Core's holders with their
generations, and the owner whose catalog may expire; a failing call while
something is being stopped is a fault. `WindowsControlProof` is the exchange with
each host inside one budget, with the permit and the port it is for. TLS, HTTP
and DNS bytes are their outcomes; a response is its length and its status. Of the
egress check the setup of the HTTP request (`kHttpSetup`), an interruption
together with a DNS reply and the variant for Smart Access are left out: they end
an attempt the way another of its failures does. Time passes only in `Tick`; the
50 ms polls and the admissions take none, so `EveryHostGetsItsShare` is exact in
that time and in the code short by a poll or two. `DisabledIsOnVpn` and
`DeadChildIsWithdrawn` except a session that met two failing calls (see
*Observations*).

### NetworkReference, WindowsNetworkObserver

`NetworkReference` is the promise: at most one valid reference, invalid for
ever once invalidated. `WindowsNetworkObserver` has the notifications that raise
`revision` without a lock, readers that sample in several calls, and the
retained reference. The mapping (`Promise`) takes the reference as valid while
its revision is the current one, and `issued` from the number of references
minted. The network is `lan`, `wifi` and `dns`, which differ in whether Windows
notifies of a change.

### WindowsNetworkState, WindowsTransitionGuard

`WindowsNetworkState` cuts `Capture` and `Restore` at every call; an adapter's
setting is the user's, the Core's or cleared, addresses and routes are sets, and
an address brings its on-link route with it. The adapter may vanish, the user may
have or make one of the same name, the service may die. `FindOwnedAdapter`
refuses two adapters; one that only has the name it takes for the service's own,
and so does the model (`Found`): a session that begins with it captures and gives
it back, one that began without it empties it. `WindowsTransitionGuard` has the sublayer and
the filter of each layer, the read and write transactions with every failing
call, a commit that fails and may have happened, the filters of other software
and their weight and sublayer, and the two processes that own a guard, the service and the
repair command. `IsPotentialGuardOverride` does not look at filters in the
guard's own sublayer (`service_transition_guard.cpp:207`), so that the permit of
the control proof does not count as one; a permit that other software put there
would be met before the block while the readback says armed. `ReadbackIsTrue`
therefore promises that nobody but the service passes unless through such a
filter. The control permit itself matches one socket that the service holds
(`WindowsControlProof`). A foreign filter in the sublayer also keeps it from being
deleted, so `Install` and `Remove` fail until it goes (`Deletes`). `owed` records, for the property only, that the Core was stopped
behind the guard and nobody has released it since.

### WindowsRunner, WindowsActivation, WindowsCrashProfile

`WindowsRunner` has the method calls of Dart, the worker's queue, completions on
the window's thread, and the owner of the connection request; the service is the
outcomes of `WindowsServiceClient`. `WindowsActivation` has one program counter
per launch, the mutex, the window, the copied frame and the two paths of a link
to Dart; whether the window is shown is presentation and left out. `WindowsCrashProfile` gives files identities, so that a handle follows a
file that is moved under the reader.

## Runs

| Run | Instance | Distinct states | Shows |
|---|---|---|---|
| `profile_store` | two profiles, symmetric | 1,923 | every disk a power loss can leave keeps the marker with a bound profile; what is started is what was staged |
| `network` | 3 faults of all 8 kinds, IPv4; or 3 recoverable ones, both families, fair | 38,426 | write-ahead record, block around steering, clean when idle, faithful record; recovery ends |
| `bound_connect` | 2 requests, 1 fault; or 1 request, 2 faults, 1 network change, fair | 265,039 | ownership, receipts, leases; invocations finish, dead owners and changed networks end sessions |
| `windows_host` | 3 faults; or the dispatcher with 2 handlers, one bound and one unbound target, 2 requests, fair | 96,137 | journal suffices for recovery, idle is restored, hand-over and release of the guard, readiness, unreadable journal; recovery ends; requests are answered, sessions whose owner, network or time is gone end |
| `dispatcher` | 2 handlers, symmetric; 3 requests of competing clients, 3 of leasing ones, 2 of older ones | 1,628,783 | sessions are owned, watched and ended by their own cleanup, with a guard that may fail; status is true |
| `windows_ipc` | every kind of call; 2 clients of 3 connections, 2 nonces; 2 producers, 3 records of 3 lengths | 553,460 | nothing runs unseen; the server stops in order; the journal is sound; calls, stop and destructor end |
| `windows_probes` | 2 probes; periodic and startup checks; 2 services, 2 networks or 2 faults; 3 hosts | 712,631 | probes are tracked, verdicts founded, published is served, proofs exact; all of them end |
| `windows_network` | 2 readers, 2 changes or 2 restarts; 3 faults on the adapter; 2 layers with others' filters, or faults and a repair | 1,157,213 | the observer keeps its promise; the adapter is the user's again; the block is known and kept; rollback and repair end |
| `windows_shell` | 2 requests with 3 tasks, or 2 bound ones with 5; 2 launches, 1 frame of another program or 2 links; 2 crashing threads, 3 records | 1,278,521 | requests are owned, activation exact, crashes reported; settlements answered, links consumed |

Every run is complete for its instance.

Three runs end in a violation, each a disagreement between the code and a
statement in the repository (quoted in `PROJECT.json`):

- `network_lost_reply`: a NetworkManager checkpoint that was already released is
  rolled back again on every retry; the owner stays failed as long as the Core
  lives. Contradicts "A failed owner remains pending for retry".
- `windows_dpi_proof`: a guard whose removal was not confirmed counts as armed,
  so the next connect proves the DPI child with no filter in place.
- `dispatcher_guard`: a guard that cannot be released after a connect, or not be
  started for its undo, leaves a session running which `RetireConnect` records as
  ended; the client that confirms its cancellation is told `settled=1`.
  Contradicts "True requires successful restoration or a retained record that this
  invocation already ended without an owned runtime".

### Bounds

Three faults are one to break a step, one to break its undoing and one to break
the recovery from that (a crash counts as one), which is the depth of the
error handling in the code: every retry starts again from the same steps. Two
requests, handlers, readers, producers, launches or crashing threads are one
that owns something and one that competes with it; a third goes through the same
fields. Limits of the code (4096 records, 16 tasks, 4 probes, 256 nonces, 256
hints, 40 looks for the window, 512 bytes) become 1 to 3, so that they are reached;
two nonces leave room for a repeated one. Five tasks of the runner let two owners
follow each other with a settlement, a stop and a lease between them: staging and
a bound connect take two of them. In that instance (`TwoOwners`) the profile is
staged first and the tasks that touch no request are left out.
Times become small numbers that keep their order: in the egress check
`Gap < LongGap <= IoTime < HeadTime` in both instances, once with waits that end
before the deadline does (`IoTime` 3) and once with a deadline that ends them
(`IoTime` 10), with budgets of 1, 3 and 6 around `Gap` 2, so that the time is used
up before, at and after the first retry. The DPI engine has two services
with one failing call, one service on two networks, and one service with two
failing calls. One network change distinguishes "admitted for this network" from "for
another"; two let a reference be compared with one that was retained before.
For the invariants, the theorems below cover any number of each.

Deadlock is checked except in `bound_connect`, where `Close` ends the daemon.
Modules whose process really ends have an explicit last step instead.

### Fairness

- `LinuxNetworkTransaction`: an operation that has begun runs to its end (every
  wait has a deadline) and what failed is retried by a disconnect, a status
  request, the next connect or a restart; the kernel delivers the orphan's
  parent-death signal. Weak fairness for each.
- `LinuxBoundConnect`: goroutines run (weak fairness for handler, watcher,
  settling canceller and the promotion's wait, all bounded by timeouts); the
  watcher's look at the network comes round every second whatever the other
  ticks find, hence strong fairness for `WatchNetwork`. New requests, deaths
  and changes are not fair.
- `WindowsRuntimeHost`: a handler that holds the lock goes on, the service
  manager restarts the service (weak fairness). A client that is shown
  `recovery_required` asks to disconnect again, and some client initializes the
  host; others may get in between, so these need strong fairness.
- `WindowsDispatcher`: threads run, and a thread that waits for a lock which is
  released again and again gets it (strong fairness for each handler, for the
  watcher and for its lock).
- `WindowsServiceClient`: call, companion and service go on; the window confirms
  an operation that was not accepted again until it is answered (strong).
- `WindowsPipeServer`, `WindowsEvents`, `WindowsRunner`, `WindowsCandidateProbe`,
  `WindowsLocalDpi`: their threads run and the watcher's tick comes (weak).
- `WindowsEgressProbe`, `WindowsControlProof`: time passes, and a wait that is
  over ends; no answer is assumed ever to come.
- `WindowsNetworkState`: a rollback that failed is tried again, as the journal
  asks (`WindowsRuntimeHost`). `WindowsTransitionGuard`: a process goes on after a call.
- `WindowsActivation`: Dart handles its messages.

`MaxFaults` bounds faults, so the liveness properties speak of the time after
the last fault. `RollbackEnds` of `WindowsNetworkState` excepts an adapter that
is gone and a namesake, for which the code has no way out.

## Proofs

TLAPS proves, for all values of the constants:

- `LinuxProfileStore_proofs`: `StoreSafety` (types, `BoundNeverUnmarked` and the
  two parts of `StagedIsKept`) and `StagedKept`, for any set of profiles. The
  strengthening says, per step of a request, what is already durable.
- `LinuxNetworkTransaction_proofs`: `TypeCorrect`, `WriteAhead`,
  `SteeringIsBlocked`, `IdleIsClean` and `RecordFaithful`, for any
  fault set and any number of faults. The properties are not inductive: the record in memory, the
  dirty flags and the file can differ while a step is under way. `IInv` has 19
  conjuncts; the central ones say that the file covers the host (`FileCovers`),
  that each step finds its intent recorded (`Intent`, `RecordLoaded`), how far
  the rollback has come (`RollbackOrder`, `TableReleased`) and that the table
  brackets `Execute` (`ExecuteBlocked`). `RecordFaithful` needs the other
  direction as well, that the record is not *ahead* of the host: `FInv` adds that
  whatever is, or will be, written names the table as long as it names what the
  table brackets (`TableIsKept`), the order in which a recovery clears the record
  (`RecoveryOrder`), whose transaction a step works on (`Owner`), what `Execute`
  has made dirty by then (`Stage`) and that nothing it added goes away while its
  Core lives (`CoreOfTransaction`, `Steered`).
- `LinuxBoundConnect_proofs`: all seven safety properties, the type invariant
  and `LeaseAgreed` (`LeaseIsAgreed`, from two of them), for any number of
  requests, faults and network changes. `IInv` conjoins them with what links a
  handler's position to the locks, the flags and the owner (`DoneIsFinished`,
  `WorkingHoldsMu`, `WaitingIsOpen`, `IdleIsUntouched`, `NoTransactionNoLease`,
  `ReplyIsRemembered`, `PromoterOwns`, `ActingIsExplained`).
- `WindowsRuntimeHost_proofs`: for any number of faults and
  crashes, `Invariance` and from it `TypeCorrect`, `Recoverable`, `Restored`,
  `Guarded`, `Ready`, and the two action properties `Released` and `Preserved`.
  `IInv` says what stage each step finds on disk (`StepStage`), what has stopped
  by then (`StepStopped`), the phases a handler can be in (`StepPhase`), that
  memory follows the disk (`MemoryIsDisk`), that the snapshot was taken of the
  user's network (`SnapshotIsUsers`) and that a guard believed off is off
  (`GuardIsTrue`). The two ways a rollback returns are lemmas of their own
  (`RollbackFails`, `RollbackEnds`).
- `WindowsNetwork_proofs`, the observer: `RevisionHolds` (`RevisionIsTrue`) and
  `KeepsPromise`, the refinement of `NetworkReference`, for any readers, changes,
  reads and restarts. The notifications raise `revision` without the lock, so
  nothing a reader has sampled is known to be current: `IInv` says which reader
  holds which lock (`LocksAreHeld`), that no revision in use is in the future
  (`RevisionsArePast`, `ReadersAreBehind`), that
  nothing is told before changes of the Wi-Fi are notified (`WlanIsWatched`), and
  that what was sampled at the revision that is still current, with no
  notification under way, is still there (`SamplesAreFresh`, `RoutesAreFresh`,
  `PreviousIsLast`); contexts given out before the retained one are older in both
  numbers (`GivenIsOlder`), so none becomes valid again.
  The step simulation goes action by action through the mapping.
- `WindowsDispatcher_proofs`: `SessionsAreOwned` and `ShownTruly` from
  `Invariance`, for any targets, handlers and numbers of requests, with a guard
  any of whose calls may fail. `DInv` says who holds the execution lock
  (`LockIsHeld`), what handlers and the watcher work on between two locks
  (`RequestIsKept`, `PickIsKept`), that an invocation connects at most
  once (`ConnectsOnce`), that the running session and the two owner
  fields name each other (`SessionHasOwner`, `OwnerHasSession`, `ConnectOwns`,
  `ConfirmOwns`, `ResultIsSession`), that a retired invocation is gone
  (`RetiredIsGone`), that status lags only during a call of the host
  (`SnapshotIsStale`) and that a leased session keeps its lease
  (`LeasedKeepsLease`). The owner fields need so much because `active_connect_`
  is read under one lock and used under the other.
- `WindowsNetwork_proofs`, the guard: `BlockKept` (`BlockIsKept`), for any layers,
  any filters of other software and any number of faults, crashes and outside
  changes. `GInv` says which method a call of the engine belongs to
  (`CallFits`), that the repair only removes, and without a service unless one
  has raced it (`RepairRemoves`, `RepairIsAlone`), that a service which started
  the guard is behind intact filters (`StartedIsBlocked`) and that a removal by
  the service was asked for (`ReleaseIsAsked`).
- `WindowsNetwork_proofs`, the adapter: `AdapterRestored` (`AdapterIsTheUsers`), for
  any addresses, routes and limits and any number of failing calls. `Capture` and
  `Restore` stop half way and are repeated, so `AdapterInv` says, per step, what a
  capture has read of the user's settings (`CaptureFits`), what a restore has
  deleted and made (`RestoreFits`), that the snapshot a session goes on with is
  the whole of them (`SessionFits`), and that the user's routes include those
  his addresses bring (`UserFits`), so that making the addresses again adds no
  other.
- `WindowsShell_proofs` holds three components that share no state:
  - `CrashesReported` (`CrashesAreReported`), for any threads, frames, records,
    faults and reads. `FilterInv` says that one thread is in the filter
    (`OneFilters`), that the two names are of two files (`NamesFit`), where the
    complete record is before and after one failure (`RecordIsKept`,
    `CurrentIsWhole`, `WholeStays`) and that the reader, whose handles follow files
    that are moved, met complete files if nothing was spoilt (`ReadsWhole`);
  - `ActivationExact` (`ActivationIsExact`), for any processes, links and foreign
    frames: `LaunchInv` has the owner of the mutex (`MutexFits`) and where each link
    is between launch, frame, window and Dart (`LinksFit`);
  - `RequestsOwned` (`RequestsAreOwned`), for any requests, profiles and queue.
    A completion comes after the state it was asked in, so `RunnerInv` says what
    each queued task may still do (`TasksFit`), that a request starts once and is
    settled behind its start (`StartsOnce`), what a request and the window's record
    of it know of each other (`RequestFits`, `OwnerFits`, `MustOwn`), that what is
    reported as stopped is (`StopsFit`) and what a closing window leaves behind
    (`CloseFits`).
- `WindowsService_proofs` holds seven components that share no state:
  - `ServerInOrder` (`ServesInOrder`): `SInv` has the session records
    (`SessionsWhole`), the count of threads against the limit (`ThreadsFit`), and
    the order of the shutdown between `ServiceMain`, the control handler and the
    threads (`SessionsEnd`, `ProcessFits`, `StopIsOrdered`);
  - `ClientSeesAll` (`NothingRunsUnseen`): `CInv` says that only
    what was written can be read and run (`SentIsKnown`), that a bound call publishes its target before it
    writes (`TargetIsPublished`), that a return is marked (`ReturnIsMarked`) and
    that a companion which ended beside a lost call has tried the cancellation
    (`CompanionKnows`);
  - `ProofExact` (`ProofIsExact`): `PInv` has the position in the exchange
    (`ExchangeFits`) and that the hosts that are left have their share
    (`SharesAreKept`);
  - `EgressFounded` (`VerdictIsFounded`): `EInv` ties the verdict to the evidence
    that was read (`EvidenceFits`, `VerdictFits`), the time of the primary
    to its slice (`TimeIsShared`) and the failure to its cause (`CauseIsKept`);
  - `ProbesTracked` (`ProbesAreTracked`): `KInv` follows a probe through the
    window, its worker, the service's table and the Core (`CallsFit`,
    `WorkersFit`, `TableFits`, `WindowFits`); its core is that a worker has one
    call or nothing and that the table names the worker while the call is open;
  - `JournalSound` (`EventsJournalIsSound`): `JInv` has the writer with its record
    and the room it made (`WriterFits`), that what was accepted was taken or waits
    (`GivenFits`), and that the records of a thread pass from its hands through the
    queue and the writer into the file in order (`NumbersFit`, `OrderFits`);
    `NewestAreKept` is stated as a fact about positions of `written`, so that
    appending and rotating keep it without induction over sequences;
  - `DpiServed` (`DpiPublishedIsServed`): `DpiInv` says that a published holder is
    the captured one, admitted and proved through the present child (`ReadyFits`),
    what an operation has made by each step (`StepFits`, `PhaseFits`), that there
    is one child before the retry and one after it (`ChildFits`), that what was
    proved was proved with the child's strategy (`ActiveFits`) and what is left of
    a disabled engine (`DisabledFits`). The hints of all services are recorded by a
    recursive function; that the table keeps its bound (`HintTable`) at every
    index is proved from a least counterexample.

Each inductive invariant was checked by TLC on the runs' instances before it was
proved. The attempts also corrected two statements: every host gets its share
of the time only from the moment its exchange begins (`pc = "next"` is excepted),
and `"ok"` stands for the code's empty failure text because the SMT translation
does not take the empty string.

The assumptions are the named `ASSUME`s of the component modules and, as
hypotheses of the theorems about the other Windows components, the named
conditions on their constants: `ObserverAssumption`, `TargetsAssumption` and
`BoundsAssumption`, `ServerAssumption`, `KindsAssumption`, `Sizes`, `Times`,
`ProbeAssumption`, `StateAssumption`, `RunnerAssumption`, `CrashAssumption`,
`EventsAssumption`, `DpiAssumption`. The MC modules `ASSUME` each of them, so TLC
evaluates them on the values of the runs. None of them excludes a fault of the
models.

Only model-checked: the liveness properties (fairness and `ENABLED` are out of
the prover's reach). The three refuted properties are false. Every invariant and
every action property of a passing run, and the refinement, is stated by a
theorem.

tlapm 1.4.5's SMT translation was seen to accept two kinds of false goals:
`{a} \cap {b} = {}` for arbitrary `a` and `b`, and equations between two `CHOOSE`
terms one inside the other, which the unfolding of a recursive function
gives. No step of these proofs rests on an intersection of two enumerated sets,
the one lemma that unfolds a recursive function (`RecordEachIs`) is left to Zenon,
and the steps that expand another `CHOOSE` were tried with a false goal in
place of theirs, which was refused.

## Observations made while modelling

Places where the code and the text about it part, besides the three that runs
show. They were met as counterexamples; the properties that are checked were
then stated so as to say what does hold.

- `internal/service/service_linux.go:355`: when a Core exits unacknowledged and
  no record was written, `RecoverSystem` finds nothing and the transaction is
  never dropped (`apps/linux_shell/README.md:124-125`, "Startup and unexpected
  Core exit resume cleanup").
- `internal/networktxn/participants.go:335`: the nft table's owner is checked,
  then the table is deleted by name; one installed in between is deleted.
- `internal/service/transport_lease_linux.go:70`: the error of the stop after a
  lost acknowledgement is ignored; a later promotion can use what is left of the
  runtime, although the comment above says "before any later request can reuse
  the runtime".
- `service_dispatcher.cpp:613`: an unbound connect replaces `active_connect_`;
  when it fails the running DPI session has no owner left, against
  `service_runtime.cpp:2265` "Keep the expiry owner".
- `service_network_state.cpp:812`: a snapshot of an adapter that has vanished can
  not be restored until one of that name is back
  (`platform-privilege-runtime-contract.md:548`, "resumes the same idempotent
  rollback").
- `service_network_state.cpp:270-289`: an adapter is the service's by its GUID or by
  its name. Where the service's own is gone and the user has one of that name, a
  rollback to "no adapter" deletes that one's addresses, routes and name servers.
- `service_transition_guard.cpp:207`: filters in the guard's own sublayer are not
  inspected by the readback.
- `service_runtime.cpp:2317`: with two faults in the retry a disabled engine
  leaves a holder published, whether or not its child still runs, until the
  catalog expires; `DisabledIsOnVpn` and `DeadChildIsWithdrawn` are therefore
  stated for at most one.
- `service_local_dpi_probe.cpp:312`: a socket that could not be set up counts as
  a failed connection, which is retried with another strategy although
  `service_local_dpi.cpp:306-307` says interface setup cannot benefit.
- `service_main.cpp:46`: the repair command looks once for a stopped service and
  removes the filters later; a service started in between is set free of them.
- `service_events.cpp:358`, `:392`, `:210`: sequence numbers are drawn before the
  queue's lock, so the file may hold falling ones; a short write leaves half a
  line that the next record continues; four served commands are journalled as
  "invalid".
- `flutter_window.cpp:639`: the probe latch is cleared by the window's own table,
  from which the completion of a lost answer has just removed the entry, while
  the service may still have the probe.
- `windows_crash_profile.cpp:378`: a record that is moved between the two reads is
  reported twice.
- `lib/main.dart:46`: a window that an ordinary launch has brought up during the
  start of a login launch is hidden again by that start (seen with an earlier form
  of the model, which had the window's visibility).

## Not modelled

Protocol decoding, journals for people, probes' bytes and screens: no state that
outlives a call, or I/O. The Core (`libcore`) and byedpi are third-party and
appear as external processes. iOS and macOS are scaffolds. Of the Windows
service, the Telegram WebSocket admissions and the files of Smart Access leases
are left out. Of the rest, what is in reach and not yet done is the plan.

## Plan

Done, in this order: profile store, network transaction, bound connect, Windows
runtime host, each with its proofs; dispatcher, observer with its abstract
specification, network state, guard, pipe, probes, DPI and shell on Windows,
model-checked; then the proofs of all of these. Next:

1. `LinuxNetworkContext`, the Linux observer, as another implementation of
   `NetworkReference`; `LinuxBoundConnect` over it. The Android monitor has the
   same shape.
2. An abstract transaction (none, installed, to be recovered) that
   `LinuxNetworkTransaction` implements, and `LinuxBoundConnect` over it.
3. The Linux server's accept semaphore and deadlines.
4. Android: `AndroidConnectRequestOwner`, runtime state and VPN service across
   their threads.
5. The observability queue and dispatcher (bounded, durable, crash between
   persist and send) and the Dart connection manager.

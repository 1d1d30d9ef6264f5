# A formal model of ColabNomad

ColabNomad runs OpenCode and a web terminal inside a Colab VM and publishes
them through tunnels. A short-lived CLI talks over a Unix socket to one daemon;
the daemon composes a set of services, starts them in dependency order, watches
their processes, restarts them, and publishes the URLs of the tunnels.

This directory holds TLA+ modules translated from that code, TLC
configurations that check them on small instances, and proofs that TLAPS
checks for every instance. `PROJECT.json` lists components, runs, mutants (a
plausible fault for each property, which the property must notice), the source
lines behind each definition, the findings, the hazards and the theorems.

    tlc -workers 2 -config Pair.cfg MCSupervisor
    tlapm SupervisorSafety.tla

## 1. The system

| Component | State it keeps | Operations | Hard behaviour |
|---|---|---|---|
| Supervisor (`internal/supervisor`) | state, process handle and generation of each service; start order; `lifecycleMu` | `StartAll`, `Restart`, `StopAll`; one monitor goroutine per start by a command | monitors against commands, stale generations, bounded restarts, a lock held across readiness |
| Process handles (`internal/execx/process_linux.go`) | a child process, its done channel | `Start`, `Done`, `Stop` | exits at any time; `Stop` may fail |
| Runtime (`internal/app/runtime.go`) | published manager, `running`, configuration, credentials, endpoint map, `endpointSyncErr`, `downOnce` | `Up`, `Status`, `Doctor`, `Logs`, `Restart`, `Down`, `handleHealthyService` | an `Up` has a dozen steps that may fail or be cut by a kill; memory, disk, processes and the tmux session outlive each other; the callback runs on monitor goroutines while commands run |
| State store (`internal/state`) | `state.json`, `credentials.json` | load, save by rename | `Save` may fail after the rename |
| Workspace manager (`internal/workspace`) | the directories of the target repositories | `Prepare`: clone, or verify and check out | a clone cut by a deadline or going on without its daemon; a user who edits meanwhile |
| Artifact installation (`internal/artifact`) | `bin/<tool>` | `Ensure`: download, digest, extract, rename | what is executed must be what was digested |
| Terminal and OpenCode services (`internal/services/{terminal,opencode}`) | a tmux session; none | `Prepare`, `Command`, `Destroy` | the session survives the daemon |
| Tunnel service (`internal/services/tunnel/service.go`) | `publicURL`, two output files | `Prepare`, `Probe`, `PublicURL` | probes of `waitReady`, probes it abandoned and probes of `Doctor` overlap with `Prepare` |
| Control client (`internal/control/client.go`) | `daemon.lock` | `EnsureDaemon`, `Do` | deadlines, polls, replacement of a daemon of another binary |
| Control server (`internal/control/server.go`, `identity.go`, `cmd/colabnomad/main.go`) | `control.sock`, `daemon.owner`, the handler's mutex | `NewServer`, `Serve`, `Close`, the handler | several daemons in different phases, kills between two system calls |
| Providers, gateway, protocol, CLI, config, deps, health, secure, bootstrap | files and subprocesses | sequential procedures | little state and concurrency of their own |

How they interact: the CLI locks `daemon.lock`, finds or starts a daemon, and
sends it one command. The daemon's handler serializes commands and calls the
Runtime. `Up` loads or makes the credentials, prepares the workspace, installs
the pinned tools, builds a Manager and calls `StartAllWithLifetime`; the Manager
calls the services (`Prepare`, `Probe`, `Cleanup`) and the process runner, and
spawns monitors. When a tunnel becomes Healthy, on whatever goroutine, the
Manager calls back `handleHealthyService`, which reads the tunnel's URL, updates
the endpoint map and saves `state.json`. `Down` stops everything, saves, and
cancels the context of the monitors and of the server.

What makes each part correct:

* Supervisor: one process and one supervising thread per service; nothing that
  was stopped comes back by itself; no process is leaked; restarts are bounded;
  dependents stop first; every command returns and every death is noticed.
* Runtime: nothing runs that no command reaches; the password, the artifact and
  the directory of every process are those of the `up` that was answered; an
  `up` fails only for a reason of its own; the user's shell and uncommitted
  changes survive everything but the user and `down`; `down` leaves nothing.
* Endpoints: memory and disk agree or the difference is reported; no recovery
  is missed; nothing is saved after `Down`; the published URL is current, which
  two findings limit.
* Tunnel: a Healthy tunnel has a URL, and it is the one of the running process.
* Control plane: one server, which owns socket and owner file; every invocation
  returns; whatever is left on disk can be replaced once no daemon is left.

## 2. The modules

| Module | What it is |
|---|---|
| `Supervisor` | the Manager with its goroutines and processes |
| `ServiceLifecycle` | the abstract promise of the Manager about each service |
| `SupervisorInv` | the inductive invariants of `Supervisor` |
| `SupervisorProofs`, `SupervisorSafety`, `SupervisorRefinement`, `SupervisorBudget` | the proofs: types; invariant and safety; that it implements `ServiceLifecycle`; that recovery is bounded |
| `MCSupervisor` | a composition for TLC |
| `Runtime` | the daemon's commands from their first check to their answer, across kills of the daemon |
| `Workspace`, `Installer` | the workspace directories and git; `bin/` and downloads; `Runtime` instantiates both |
| `RuntimeInv`, `RuntimeProofs`, `MCRuntime` | the inductive invariant of `Runtime`; its proofs; a composition for TLC |
| `Endpoints` | `Up`, the healthy callback, `Restart`, `Down`, the endpoint map and `state.json` |
| `EndpointsInv`, `EndpointsProofs` | the inductive invariant of `Endpoints` and its proofs |
| `Tunnel`, `TunnelProofs` | `Prepare` and overlapping probes of one tunnel, and its proofs |
| `ControlPlane`, `MCControlPlane` | CLI invocations, daemons and the three files they share; model values for TLC |
| `ControlPlaneInv`, `ControlPlaneProofs` | the inductive invariants of `ControlPlane`, with and without patience, and their proofs |

**Supervisor.** Thread 0 runs the command (there is one: the daemon's handler is
serialized); thread `p` is the goroutine `m.monitor(..., h)` spawned for process
`p`. `pc` says where a thread stands, `svc`, `h`, `gen`, `restarts` and
`unchecked` are its local variables, and `state`, `handles`, `generation`,
`order` and `lifecycleMu` are the fields of the Manager. An action is one critical
section of `m.mu`, or one call that leaves the Manager, with the local code
around it. A wait for a channel is a guard (`h[t] \notin alive`). The backoff
time and the readiness deadline are abstracted: either may end at any moment.
`phase` records what the Runtime has done with the Manager, because it decides
which commands can come: `StartAll` once, then `Restart`s, then `StopAll` once
(`downOnce`), and `Restart`s that were queued behind it. `Stop` may fail wherever
it is called; the handle is forgotten by then, so nothing can reach the process any
more. Two history variables: `born`, the generation a process was launched in, and
`unstopped`, the processes whose `Stop` has failed.

**ServiceLifecycle.** Five states and the set of services with a process. A
start begins only where nothing runs, a process is launched only during a start,
a service leaves Healthy only when its process is gone or when it is stopped.
`ImplementsLifecycle`, in `SupervisorInv`, maps `running` to the services that
have a live process other than those in `unstopped`: one whose `Stop` failed counts
as gone.

**Runtime.** The handler is serialized, so there is one command and one `pc`. Its
control points are the calls `Up` and `Down` make that something can come
between: a failure, a kill of the daemon, a death of a service, the user. `rt`
holds the fields of the Runtime, `disk` and `saved` are `state.json` (its service
table) and `credentials.json`, `session` is the tmux session and `alive` says
what each process was started with: directory, version, password. A daemon that
dies takes its memory and, by Pdeathsig, its services with it; files, the tmux
session and a git that clones stay. `fault`, `died` and `answer` are history
variables: something failed outside during this command, a daemon has ended, and
what the last command answered. The start of a service, its recovery and
`StopAll` are one step each, because `Supervisor` has their inside; services
start in any order, which includes the one the dependencies give. A process that
exits and the monitor that notices are two steps, so a Healthy service may have
no process for a while, and anything may happen meanwhile. A service stands for the tool it needs, and a password is
a number handed out in order. Every modelled manifest names the OpenCode version
the code requires; another one would be refused like an unreadable one
(`UpIsRefused`).

**Workspace.** A step is what one git command of `Prepare` does to a directory or
finds there. A clone passes through `cloning` (a `.git` without a commit),
`checkout` (a HEAD, files still being written) and `whole`; git removes what a
failed fetch created, but not when it is killed or cannot check the files out. A
repository is its identity after `repositoryIdentity`, and `Root` its directory,
which two repositories of the same name share. Of the refs of a clone only the
local branch `git clone` creates is kept, because `checkout --detach` resolves
that one, tags and commits, and nothing under `origin/`. The user edits any clone
that has files, one that is still being checked out or was cut short as well.

**Installer.** A content is the version whose pinned artifact it is, or
`Corrupt`. Formats of archives and of digests are left out; an extraction or a
rename that fails is one of the Runtime's `UpFails`.

**Endpoints.** Begins where `StartAllWithLifetime` has returned. It keeps of the
supervisor what a callback can observe: who holds `lifecycleMu`, which tunnels
are Healthy, and whether the monitor of the current generation lives. The
callback is five actions, because it reads the URL, locks, loads, saves and
records the error separately. A URL is a number, handed out in increasing order.
`url` is `PublicURL()`, `address` the URL the running process has printed. Between
them stand the probes, which anybody runs at any time (`waitReady`, those it has
abandoned, `Doctor`): `FindURL` tests that `s.publicURL` is empty and finds a URL in
whatever output was read, `StoreURL` stores it later without another test, and as
`found` never forgets, that may be after any number of Prepares. Where such a probe
stores the URL of another process the tunnel is in the history variable `crossed`
until its next `Prepare`; what the Runtime then reads is finding 5, and
`NoMissedRecovery` and `RecoveryIsPublished` except it. The constant `LateURLs`
bounds which URLs are stored that late: some, to keep a run small, or none, to show
that a violation does not depend on them. A callback's local variables are cleared
when it returns. The exit of a process shows here only when the monitor notices it
(`TunnelLost`).

**Tunnel.** A probe is four actions (read the files, read or discover the URL,
store it, dial). A process's number is its URL. `NotReady` merges the steps
from `waitReady`'s error to the end of the process; nothing between them touches
the tunnel. `crossed` is a history variable: a probe was under way during a
`Prepare`.

**ControlPlane.** A daemon's number is its process identity, its socket and what
it writes to `daemon.owner`. Every system call on a shared file is an action.
`Impatient` says whether a 5 s wait may expire while the process it waits for is
merely slow, and whether an invocation may be interrupted; the 500 ms of the
identity request and the deadlines of the commands may always expire while the
handler is busy.

## 3. The runs

| Run | Shows | Bounds |
|---|---|---|
| `pair` | safety of the supervisor and refinement | two services, one depending on the other, 1 restart per monitor, 5 processes, 1 Restart, a `Stop` that may fail |
| `liveness` | commands return, deaths are noticed, recoveries end | the same with 3 processes |
| `endpoints` | disk and memory of the endpoint map, every recovery read and published but where a probe crossed it, nothing saved after `Down`, commands return | 2 tunnels, 1 restart, 3 URLs, 2 of them stored late, 1 Restart, failing store |
| `runtime` | nothing unmanaged, passwords, artifacts and directories of what runs, backed answers, causes of failures, the user's shell and edits, what `down` leaves | 2 services, 3 repositories in 2 directories, 4 requests with 2 manifests, 3 commands, 1 kill, 1 act of the user |
| `endpoints_stale` | finding 1 | 3 URLs, none stored late, no Restart, no store failures |
| `control_patient` | one server that owns its files | 2 invocations, 1 upgrade, 1 kill, no expired waits |
| `control_live` | invocations end, `down` ends the daemon, leftovers are replaceable | 2 invocations, 1 kill, waits may expire |
| `control_reuse`, `control_race`, `control_crash` | findings 2, 3, 4 | 2 invocations |
| `tunnel` | the URL of a tunnel | 2 processes, 3 probes |
| `tunnel_stale` | finding 5 | the same |

Why these bounds show something. Five processes for two services let both be
started, both recover, and a Restart and a further recovery follow, so that a
monitor of an earlier generation, one of the current generation and a command
meet on one service. Three processes are enough for the liveness run, where a
lost wake-up or a kept lock shows with one recovery. Three URLs are the two first
ones and that of a later start: its callback overlaps that of `Up` and that of the
other tunnel, whose start fails or is served a URL stored late. `LateURLs` holds the
first URL of one tunnel, which a probe may store over the new one before or after
the callback has read it, and the new one, which may itself come too late. With a
fourth URL and no late stores, that is with two recoveries that both get new URLs,
the properties hold as well; the proofs assume no bound. Two
invocations suffice for every pairing of an old daemon, a new one and two clients
(three patient ones, without upgrade and kill, were also explored). Three probes
are one of `waitReady` for each process and one that crosses. Three commands are
a failed, killed or successful `up`, a second one that meets what it left, and a
`down`, `restart` or third `up` after that; the requests share a directory
between two repositories, name a branch no clone creates locally, leave the ref
out, and change the manifest. One act of the user is an edit, the commit or end
of what an unfinished clone left, or the end of the shell; a second one, which may
undo the first, was explored as well. `MaxProcs`,
`MaxCommands`, `MaxURLs`, `MaxProbes`, `MaxUpgrades`, `MaxCrashes` and
`MaxUserActs` only bound the environment: how often something is started, asked for
or broken.
`CHECK_DEADLOCK FALSE` everywhere, because the system may come to rest: all
services stopped, every invocation done, or a bound reached. The symmetry of
`control_patient` permutes invocations, which the module never compares or
orders; the runs with liveness use none.

Fairness. `Runtime` assumes none; it has no liveness property. `Supervisor` assumes weak fairness of the command goroutine and of each
monitor goroutine, `Endpoints` the same, `ControlPlane` of each invocation and
each daemon: the Go scheduler and the kernel run what is runnable. Waits for
`lifecycleMu`, `daemon.lock` and the handler's mutex need no strong fairness in
the runs, because the finite bounds end the competition for them. No fairness is
assumed for the environment: processes need not exit, users need not type, the
VM need not kill. `Prepare`, `Start` and a probe's request are assumed to return,
as their timeouts make them.

## 4. Findings

Each is a run that TLC ends with a counterexample.

1. `endpoints_stale`: the callback reads the URL before it takes
   `endpointSyncMu`, so `Up`'s own callback may put back the URL of a process
   that a recovery has replaced meanwhile.
2. `control_reuse`: the identity request waits behind the command the daemon
   runs, at most 500 ms; a `status` during a long `up` sends `down` to a daemon of
   the same binary.
3. `control_race`: `NewServer` removes the path it found dead although another
   daemon may have bound it since; the lock that would prevent it belongs to an
   invocation that may have given up.
4. `control_crash`: a daemon killed between `net.Listen` and `writeOwner` leaves a
   socket without owner, which every later start refuses to replace.
5. `tunnel_stale`: a probe that read the output of the last process stores its
   URL after `Prepare` has reset it, and the DNS fallback may accept it.

Beside these, reading the code for the model brought up behaviour that no text of
the repository contradicts clearly enough to call a finding. A reviewer of the
code would want to know of it. The first item is a disagreement with the design, of
which no run keeps a counterexample:

* A failed `Up`. When a service does not start, or the state cannot be saved, `Up`
  stops the local services that run already (`manager.go:153`, `runtime.go:349`),
  whatever the error. Section 6 of the design (`2026-09-20-colabnomad-core-design.md:253`)
  says: "If a later step fails, already-running local services should remain
  available for diagnostics unless continuing would create a security risk." The
  code makes no such difference. `NothingRunsUnmanaged` holds the code to its own
  choice and is not what the design asks for: the Manager of a failed `Up` is not
  published, so what it left running no `restart` or `down` could reach, and its
  ports would refuse the next `up`. Whoever follows the design here has to
  publish the Manager first; the property then still holds.
* Workspace. `up --ref dev` on a clone made for another branch fails for ever:
  `checkout --detach dev` does not look under `origin/`. After a fetch, the
  checkout of a branch stays on the local, older one. A clone killed before it has
  a HEAD makes every later `up` fail until the directory is deleted; one cut
  while it checks files out counts as dirty, so the ref is ignored and `up`
  works on half a tree. A `git clone` goes on when its daemon dies. Commits made on
  the detached HEAD are reachable only from the reflog once another ref is
  checked out. `EditsAreKept` and `UpFailsForCause` say precisely how far this goes:
  apart from a failure outside, an `up` may fail at its first check because it asks
  for another repository or ref than what runs, at `verifyOrigin` because the
  directory is another repository's, at the checkout because the ref is not found
  or would overwrite uncommitted changes, and at `rev-parse` because there is no
  commit.
* Idempotent `up`. It ignores a new manifest or token, and it answers URLs from
  memory also after a `Down` that failed, or that the daemon has executed while
  the `up` was queued: hence `rt.down = "never"` in `SummaryIsBacked`.
* tmux. `has-session` does not look where the session was created: the terminal of
  a second workspace may be a shell in the first (`services/terminal/service.go:48`).
  A queued `restart terminal` creates a session after `Down`.
* `Down`. It answers success without saving when `state.json` does not load; a
  session is left when the daemon that created it died before its first save
  (`DownLeavesNothing` names these exceptions); after a failed `Down` the daemon
  remembers the error and can only be killed.
* `Status` panics on a nil map when `state.json` does not load while a Manager is
  published (`StatusPanics`); a fresh daemon's `Status` shows dead endpoints. What
  `Status` says of services is what the Manager holds, marked `stale` if it comes
  from `state.json` alone. It may call a service Healthy whose process has just
  exited; that the monitor corrects this is `ExitIsNoticed` of `Supervisor`.
* `Restart` stops a working service before `startReadyMode` checks its
  dependencies (`manager.go:339`), though the implementation plan says "after
  dependency checks"; `Supervisor` has that order.
* Temporary files of a killed save or download stay behind.

## 5. The proofs

**Supervisor** (`SupervisorInv`, `SupervisorProofs`, `SupervisorSafety`). For
every finite set of services, every dependency relation with at least one
topological order, every budget and every bound:

* `TypeCorrect`: types.
* `InvCorrect`: the inductive invariant `Inv`, and from it `OneSupervisor`,
  `ActiveIsSupervised`, `NoOrphan`, `OneLiveProcess`, `DownStopsEverything`,
  `StopsDependentsFirst` and the action property `StoppedStaysStopped`.

`OneSupervisor` is not inductive by itself: that nobody else starts a service
while a recovery does follows from who holds `lifecycleMu` (`LockInv`), and
that a recovery which gets the lock is still the right one follows from the
generation it was started in (`MonitorInv`) and from what a current generation
says about the entries of the maps (`FrameInv`, `RecoveryInv`, `QuietInv`).
`StartAll` does not hold the lock; it is alone because services it has not
reached are untouched (`FreshInv`). `ProcessInv` adds the processes: each one
alive is in the map or in the hands of the thread about to record or stop it.
The proof that a step preserves `Inv` has one lemma per group of actions, and
within it a step per conjunct. None of the theorems assumes that `Stop` succeeds.
The code forgets a handle before it stops the process, so a `Stop` that fails does
leave a process behind, beside which a later start launches another; `NoOrphan`,
`OneLiveProcess`, `StopsDependentsFirst` and `DownStopsEverything` speak of all
processes but those (`Managed`), and so say that a failure does no further harm: no
other process is lost, and every service says Stopped in the end all the same.

**Refinement** (`SupervisorRefinement`). `ImplementsLifecycle`: every step of
`Supervisor` is a step of `ServiceLifecycle` or a stutter; a failing `Stop` is an
`Exit`, because the process is given up.
The steps that need `Inv`: a launch finds no process of the service
(`OneLiveProcess` with the thread that owns the start), a monitor reports a loss
only behind a dead process, and a start begins where nothing runs.

**Bounded recovery** (`BudgetInv`, `SupervisorBudget`). `LaunchesWithinBudget`:
in one generation of a service at most `1 + MaxRestarts` processes are launched.
The loop counter is local to a monitor and there may be many monitors, so the
count has no owner; what bounds it is that one thread is in charge of a service
(`OneSupervisor`) and has launched no more than its own loop has counted
(`SpentInv`): the command at most one process before it spawns the monitor, the
monitor one more for each turn. A command begins with an empty generation,
because no process has a generation its service has not reached (`BornInv`), or
because `StartAll` has not reached the service (`FreshInv`). The proof counts
sets with the library's theorems on cardinality; a launch adds one element to
one of them (`LaunchAddsOne`) and no other step changes any (`StepIsQuiet`).

Assumptions: `SupervisorAssumption` (the kinds of the constants) and
`AcyclicAssumption` (some order exists; `topologicalOrder` returns an error
otherwise and nothing starts). TLC evaluates both on every run.

**Tunnel** (`TunnelProofs`). For any number of processes and probes, with and
without the DNS fallback: types, `OutputIsCurrent`, `HealthyHasURL` and
`CurrentUnlessCrossed`. `PhaseInv` says when a process runs and what the files
may hold, `AnswerInv` that a probe which may succeed has left a URL behind, and
`CurrentInv` that without a crossing probe only the last process's URL is in any
hand.

**Runtime** (`RuntimeInv`, `RuntimeProofs`). For all services, repositories,
directories, requests, versions and bounds: the types and the other nine properties
of the `runtime` run. None of the invariants is inductive by itself, since what a
process was started with goes back to steps an `Up` took before. The parts of
`Inv`:

* `FlowInv`: an `Up` that prepares finds nothing running or published, and a
  published Manager belongs to an `Up` that answered.
* `ServiceInv`: only what is Healthy has a process; what is active belongs to the
  composition under way or published; so a failed `Up` leaves nothing running.
* `ProcessInv`: a process was started with the composition's directory, version
  and password, and the password on disk is that of the memory from
  `credentials` on.
* `ToolInv`: each tool installed so far, and at the end every one, is the
  manifest's; it carries `LaunchedIsPinned` and that `Prepare`'s version check never fails
  without a fault.
* `PlaceInv`: origin and HEAD of the directory survive the user, the orphaned
  clones and later checkouts; without it a running service could lose its
  repository.
* `SessionInv`, `DiskInv`: `Down` knows of a session unless the daemon that created
  it died; only a `state.json` that exists names services.
* `CountInv`, `DirtyInv`: at most one new password for each command; only clones
  that have files are dirty.

**Endpoints** (`EndpointsInv`, `EndpointsProofs`). For any number of tunnels,
recoveries, Restarts and URLs, whichever of them probes store late, with and without
a failing store: the types, `DivergenceIsReported`, `NoMissedRecovery`, and the action
properties `RecoveryIsPublished` and `DownIsLastToSave`. The parts of `Inv`:

* `LockInv`: every start, its callback included, holds `lifecycleMu`, except the
  calls `Up` makes itself; whoever is between load and record holds
  `endpointSyncMu`.
* `MonitorInv`, `CommandInv`, `CallbackInv`: where the goroutines are, and that
  nobody is in the callback before `Up` has installed it.
* `UrlInv`: unless a probe crossed the last `Prepare`, `PublicURL` is empty or the URL
  of the running process, however many probes store it; a start that got past its
  probe has one.
* `SeenInv`: from the installation on, a URL of a process that nobody has read is of a
  tunnel that `Up` is still going to call back for. This is why no recovery falls
  into the gap between `Up`'s collection and the installation.
* `FreshInv`: a callback that ends a start, of a tunnel no probe has crossed, carries
  the URL of its process: the start holds `lifecycleMu`, so nothing prepares the
  tunnel again meanwhile, and probes only store that URL again (`UrlInv`). `Up`'s own
  callbacks do not hold it, which is finding 1.
* `SyncInv`: the copy a thread saves is the map as it is, so saves cannot overtake
  refreshes; `DivergenceIsReported` follows.

`DownIsLastToSave` needs that no callback is alive once `StopAll` has had
`lifecycleMu` (`MonitorInv`); `RecoveryIsPublished` follows from `FreshInv`. It speaks of
starts that end after `Up` has returned: one that ends earlier may be overwritten
by `Up`'s callback. `NoMissedRecovery` says what was read, not what is in the map,
for the same reason.

**Control plane** (`ControlPlaneInv`, `ControlPlaneProofs`). For any number of
invocations, upgrades and kills there are two results.

* Without any assumption, `Inv`: types; `RecoverableUnlessKilled`. `SpawnInv` shows
  that an invocation spawns at most one daemon, so that the numbers of the
  daemons suffice; `SocketInv` that without a kill who closes a listener also
  removes the path.
* For `~Impatient`, that is while no 5 s wait expires on a process that is merely
  slow and no invocation is interrupted, `PatientInv`: a daemon that starts is
  alone, with its invocation still holding `daemon.lock` (`StartingInv`); the
  server is the one both files name, from its bind to its last unlink
  (`ServerInv`); an invocation that removes the files of a dead daemon has them to
  itself (`TakeoverInv`). From it `OneServer`, `ServingOwnsBoth` and
  `LiveSocketIsKeptByPatience`.

`~Impatient` is a hypothesis of those theorems and not of the module; it is what
`control_patient` sets. The last theorem is the other half of finding 3: `control_race`
refutes `NewServerPreservesLiveSocket` where waits may expire, and the theorem
shows that nothing else is needed to make it true. A kill of a daemon is in both.

The named assumptions of the modules about their constants (finite sets, numbers,
Booleans, and `AcyclicAssumption`) are the only facts taken for granted; TLC
evaluates them on every run. The proofs of `Runtime`, `Endpoints` and
`ControlPlane` have one lemma for each action or group of actions, or for each
part of the invariant.

**How the invariants were found.** `Inv`, `PatientInv` and `BudgetInv` were first
checked by TLC as invariants of the instances of section 3; a reader repeats that by
adding them to `Pair.cfg` (`Inv`, `BudgetInv`), `ControlPatient.cfg` (`PatientInv`),
`Runtime.cfg` or `Endpoints.cfg` (the last with module `EndpointsInv`).

**Model-checked only.** The liveness properties (`CommandsReturn`,
`ExitIsNoticed`, `RecoverySettles`, `ClientsFinish`, `DownEndsDaemon`): fairness
and ENABLED are out of the prover's reach. Every other property of a passing run is
a theorem.

## 6. Not modelled

`PROJECT.json` gives the reason for each component. In short: the browser-auth
gateway (an HTTP proxy whose credentials and session token are fixed when it
starts), the tunnel providers' command lines and patterns, the control protocol's
framing, CLI parsing, and the pure or single-call procedures of configuration,
health, secrets and bootstrap. Of the Runtime, the validation of ports and providers is one
refusal, `Logs` and most of `Doctor` only read. Of OpenCode's service, the
configuration file and the readiness probe are outcomes of the start. A failing
`Stop` is in `Supervisor` and not in `Runtime`. PIDs, their reuse after a process
group is gone (`process_linux.go:135`), durations and I/O errors of the
socket's directory are abstracted away.

## 7. Plan

In order of weight:

1. `TopologicalOrder`: the depth-first search of `topologicalOrder` as a state
   machine with an explicit stack, and the proof that what it returns is in
   `Supervisor!Orders` and that it reports an error only for a cycle or an unknown
   name.
2. `Runtime` over `Supervisor` itself in place of one-step starts, to include a
   `Stop` that fails and the retries of a monitor.

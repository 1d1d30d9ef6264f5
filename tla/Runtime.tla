-------------------------------- MODULE Runtime --------------------------------
(***************************************************************************)
(* The daemon's commands, internal/app/runtime.go, from their first check   *)
(* to their answer: Up prepares the workspace (module Workspace), installs  *)
(* the tools (module Installer), composes and starts the services and       *)
(* publishes them; Restart, Down and Status work on what Up left.           *)
(*                                                                          *)
(* The handler is serialized, so there is one command at a time and one pc. *)
(* Beside it run the monitors of the Manager, a git that clones, the user,  *)
(* and whatever ends the daemon.  The start of one service, its recovery,   *)
(* and StopAll are one step each: module Supervisor has their inside.       *)
(*                                                                          *)
(* A daemon that died and the one the next invocation starts (module        *)
(* ControlPlane) are told apart by nothing here but their fresh memory.     *)
(***************************************************************************)
EXTENDS Integers, FiniteSets

CONSTANTS
  Services,      (* the services of a composition                           *)
  PortServices,  (* those that listen on a local port                       *)
  Repos, Roots, Branches, Tags, Main, Versions,
  Root,          (* resolveWorkspacePath: the directory of each repository  *)
  Requests,      (* the requests of `up`: repository, ref and manifest      *)
  MaxCommands,   (* bound: commands                                         *)
  MaxCrashes,    (* bound: daemons killed                                   *)
  MaxUserActs    (* bound: what the user does in the workspace              *)

Terminal   == "terminal"
OpenCode   == "opencode"
NoRef      == ""        (* no --ref                                        *)
NoRoot     == "none"
NoPassword == 0

ASSUME RuntimeAssumption ==
  /\ Terminal \in Services /\ PortServices \subseteq Services
  /\ Versions \subseteq Nat \ {0} /\ NoRoot \notin Roots
  /\ Main \in Branches
  /\ Root \in [Repos -> Roots]
  /\ Requests \subseteq [repo : Repos, ref : Branches \cup Tags \cup {NoRef}, version : Versions]
  /\ MaxCommands \in Nat /\ MaxCrashes \in Nat /\ MaxUserActs \in Nat

VARIABLES
  tree, clones,  (* module Workspace                                        *)
  bin, body,     (* module Installer                                        *)
  session,       (* the directory the tmux session was created in, or NoRoot *)
  disk,          (* state.json: its service table                           *)
  saved,         (* credentials.json                                        *)
  rt,            (* the fields of the Runtime                               *)
  ending,        (* Down has cancelled the context of server and monitors   *)
  mgr,           (* what the services of the last Manager were composed with *)
  state,         (* Manager.state                                           *)
  alive,         (* the process of each service: what it was started with   *)
  pc,            (* control point of the handler                            *)
  req,           (* the request of `up`                                     *)
  todo,          (* Up: tools still to install, or services still to start  *)
  prior,         (* Down: state.json existed                                *)
  commands, crashes, userActs, passwords,  (* counters of the bounds         *)
  answer,        (* history: the answer of the last command, or "lost"       *)
  fault,         (* history: something failed outside during this command   *)
  died           (* history: a daemon has ended                            *)

Tree == INSTANCE Workspace
Tool == INSTANCE Installer WITH Tools <- Services

treeVars   == <<tree, clones>>
toolVars   == <<bin, body>>
files      == <<disk, saved>>
mgrVars    == <<mgr, state, alive>>
countVars  == <<commands, crashes, userActs, died>>
localVars  == <<req, todo, prior>>
vars == <<treeVars, toolVars, session, files, rt, ending, mgrVars, pc, req, todo, prior,
          countVars, passwords, answer, fault>>

NoRequest == [repo |-> NoRoot, ref |-> NoRef, version |-> 0]
NoProcess == [root |-> NoRoot, version |-> 0, password |-> NoPassword]

NewRuntime ==
  [running |-> FALSE, repo |-> NoRoot, ref |-> NoRef, version |-> 0, password |-> NoPassword,
   terminal |-> FALSE, managed |-> FALSE, down |-> "never"]

NoManager  == [root |-> NoRoot, password |-> NoPassword]
NewManager == [s \in Services |-> "absent"]
NoneAlive  == [s \in Services |-> NoProcess]
Live       == {s \in Services : alive[s] # NoProcess}

Init ==
  /\ Tree!Init /\ Tool!Init
  /\ session = NoRoot
  /\ disk = [exists |-> FALSE, healthy |-> {}] /\ saved = NoPassword
  /\ rt = NewRuntime /\ ending = FALSE
  /\ mgr = NoManager
  /\ state = NewManager /\ alive = NoneAlive
  /\ pc = "idle" /\ req = NoRequest /\ todo = {} /\ prior = FALSE
  /\ commands = 0 /\ crashes = 0 /\ userActs = 0 /\ passwords = 0
  /\ answer = "none" /\ fault = FALSE /\ died = FALSE

Dir == Root[req.repo]

Goto(from, to) == pc = from /\ pc' = to

(* The command returns: what was local to it is gone.                      *)
Answer(a) ==
  /\ pc' = "idle" /\ answer' = a
  /\ req' = NoRequest /\ todo' = {} /\ prior' = FALSE

(* Fault of the next operator: the processes are forgotten.                *)
StopForgets == state' = [s \in Services |-> "stopped"] /\ UNCHANGED alive

(* StopAll: no service is left running, and none will be recovered.        *)
StopAll ==
  /\ state' = [s \in Services |-> "stopped"]
  /\ alive' = NoneAlive

-----------------------------------------------------------------------------
(* Up: before anything is touched.                                         *)

(* Fault of the next operator: the request is not merged into the          *)
(* configuration.                                                          *)
UpIgnoresRequest(r) ==
  /\ commands < MaxCommands /\ Goto("idle", "up")
  /\ commands' = commands + 1
  /\ req' = [repo |-> rt.repo, ref |-> rt.ref, version |-> rt.version]
  /\ answer' = "none" /\ fault' = FALSE
  /\ UNCHANGED <<treeVars, toolVars, session, files, rt, ending, mgrVars, todo, prior, crashes,
                 died, userActs, passwords>>

UpBegins(r) ==
  /\ commands < MaxCommands /\ Goto("idle", "up")
  /\ commands' = commands + 1 /\ req' = r
  /\ answer' = "none" /\ fault' = FALSE
  /\ UNCHANGED <<treeVars, toolVars, session, files, rt, ending, mgrVars, todo, prior, crashes,
                 died, userActs, passwords>>

(* The request asks for what is running; what it leaves out is taken from  *)
(* there.                                                                  *)
Compatible == req.repo = rt.repo /\ req.ref \in {NoRef, rt.ref}

(* connectionSummary                                                       *)
UpWhileRunning ==
  /\ pc = "up" /\ rt.running
  /\ Answer(IF Compatible THEN "up" ELSE "error")
  /\ UNCHANGED <<treeVars, toolVars, session, files, rt, mgrVars, passwords, fault>>

(* preflightPortFree: no service of ours listens on the ports.             *)
PortsFree == Live \cap PortServices = {}

(* A port is taken, by our own services or by a foreign program, or the    *)
(* manifest cannot be read.                                                *)
UpIsRefused ==
  /\ pc = "up" /\ ~rt.running
  /\ Answer("error")
  /\ fault' = (fault \/ PortsFree)
  /\ UNCHANGED <<treeVars, toolVars, session, files, rt, mgrVars, passwords>>

(* LoadVersions reads the manifest.                                        *)
UpLoadsVersions ==
  /\ ~rt.running /\ PortsFree /\ Goto("up", "credentials")
  /\ rt' = [rt EXCEPT !.version = req.version]
  /\ UNCHANGED <<treeVars, toolVars, session, files, mgrVars, localVars, passwords, answer, fault>>

(* Fault of the next operator: the memory, or a new password, wins.        *)
UpIgnoresFile ==
  /\ saved # NoPassword /\ Goto("credentials", "inspect")
  /\ passwords' = IF rt.password = NoPassword THEN passwords + 1 ELSE passwords
  /\ rt' = [rt EXCEPT !.password = IF @ = NoPassword THEN passwords' ELSE @]
  /\ UNCHANGED <<treeVars, toolVars, session, files, mgrVars, localVars, answer, fault>>

(* LoadCredentials: the file wins over the memory.                         *)
UpLoadsCredentials ==
  /\ saved # NoPassword /\ Goto("credentials", "inspect")
  /\ rt' = [rt EXCEPT !.password = saved]
  /\ UNCHANGED <<treeVars, toolVars, session, files, mgrVars, localVars, passwords, answer, fault>>

(* There is none, or it cannot be read: those of the memory, or new ones,  *)
(* are saved over it.  The save may fail before or after its rename.       *)
UpSavesCredentials ==
  LET new == IF rt.password = NoPassword THEN passwords + 1 ELSE rt.password IN
  /\ pc = "credentials"
  /\ passwords' = IF rt.password = NoPassword THEN passwords + 1 ELSE passwords
  /\ \/ /\ saved' = new /\ rt' = [rt EXCEPT !.password = new]
        /\ fault' = (fault \/ saved # NoPassword)
        /\ pc' = "inspect" /\ UNCHANGED <<localVars, answer>>
     \/ /\ saved' \in {saved, new} /\ fault' = TRUE
        /\ Answer("error") /\ UNCHANGED rt
  /\ UNCHANGED <<treeVars, toolVars, session, disk, mgrVars>>

-----------------------------------------------------------------------------
(* Up: workspace.Manager.Prepare.                                          *)

UpClones ==
  /\ Goto("inspect", "clone")
  /\ Tree!CloneBegins(Dir, req.repo, req.ref)
  /\ UNCHANGED <<toolVars, session, files, rt, mgrVars, localVars, passwords, answer, fault>>

UpFindsTree ==
  /\ Goto("inspect", "verify") /\ Tree!Exists(Dir)
  /\ UNCHANGED <<treeVars, toolVars, session, files, rt, mgrVars, localVars, passwords, answer,
                 fault>>

(* The clone is over, or it is given up: git fails, or the deadline of the *)
(* startup has it killed.                                                  *)
UpAwaitsClone ==
  /\ pc = "clone"
  /\ \/ /\ Dir \notin clones /\ pc' = "verify"
        /\ UNCHANGED <<treeVars, localVars, answer, fault>>
     \/ /\ Tree!CloneFails(Dir) \/ Tree!CloneKilled(Dir)
        /\ Answer("error") /\ fault' = TRUE
  /\ UNCHANGED <<toolVars, session, files, rt, mgrVars, passwords>>

(* verifyOrigin, then status: only a clean worktree is touched.            *)
UpInspectsTree ==
  /\ pc = "verify"
  /\ \/ ~Tree!SameOrigin(Dir, req.repo) /\ Answer("error")
     \/ /\ Tree!SameOrigin(Dir, req.repo)
        /\ pc' = IF Tree!Clean(Dir) /\ req.ref # NoRef THEN "checkout" ELSE "head"
        /\ UNCHANGED <<localVars, answer>>
  /\ UNCHANGED <<treeVars, toolVars, session, files, rt, mgrVars, passwords, fault>>

(* fetch --prune, checkout --detach.                                       *)
UpChecksOut ==
  /\ pc = "checkout"
  /\ \/ Tree!Checkout(Dir, req.ref) /\ pc' = "head" /\ UNCHANGED <<localVars, answer>>
     \/ Tree!CheckoutRefused(Dir) /\ Answer("error")
     \/ ~Tree!Resolves(Dir, req.ref) /\ Answer("error") /\ UNCHANGED treeVars
  /\ UNCHANGED <<toolVars, session, files, rt, mgrVars, passwords, fault>>

(* rev-parse HEAD                                                          *)
UpReadsHead ==
  /\ pc = "head"
  /\ \/ ~Tree!HasHead(Dir) /\ Answer("error")
     \/ /\ Tree!HasHead(Dir) /\ pc' = "download" /\ todo' = Services
        /\ UNCHANGED <<req, prior, answer>>
  /\ UNCHANGED <<treeVars, toolVars, session, files, rt, mgrVars, passwords, fault>>

-----------------------------------------------------------------------------
(* Up: artifact.Installer.Ensure for every tool, and the composition.      *)

UpDownloads ==
  /\ todo # {} /\ Goto("download", "install")
  /\ \E good \in BOOLEAN :
       /\ Tool!Download(rt.version, good)
       /\ fault' = (fault \/ ~good)
  /\ UNCHANGED <<treeVars, session, files, rt, mgrVars, localVars, passwords, answer>>

UpInstalls ==
  /\ pc = "install"
  /\ \/ /\ ~Tool!DigestMatches(rt.version)
        /\ Tool!Discard /\ Answer("error")
     \/ \E s \in todo :
          /\ Tool!DigestMatches(rt.version)
          /\ Tool!Place(s) /\ todo' = todo \ {s}
          /\ pc' = "download" /\ UNCHANGED <<req, prior, answer>>
  /\ UNCHANGED <<treeVars, session, files, rt, mgrVars, passwords, fault>>

(* Fault of the next operator: the Runtime is running from here on.        *)
UpComposesRunning ==
  /\ todo = {} /\ Goto("download", "start")
  /\ rt' = [rt EXCEPT !.terminal = TRUE, !.running = TRUE, !.repo = req.repo, !.ref = req.ref]
  /\ mgr' = [root |-> Dir, password |-> rt.password]
  /\ state' = NewManager /\ todo' = Services
  /\ UNCHANGED <<req, prior, treeVars, toolVars, session, files, alive, passwords, answer, fault>>

(* deps.System.Ensure, the identity of the tunnel, the services and a new  *)
(* Manager of them; the terminal is remembered for Down.                   *)
UpComposes ==
  /\ todo = {} /\ Goto("download", "start")
  /\ rt' = [rt EXCEPT !.terminal = TRUE]
  /\ mgr' = [root |-> Dir, password |-> rt.password]
  /\ state' = NewManager
  /\ todo' = Services
  /\ UNCHANGED <<req, prior, treeVars, toolVars, session, files, alive, passwords, answer, fault>>

(* An error on the way: a fetch, an HTTP status, apt-get, a full disk, the *)
(* deadline.                                                               *)
UpFails ==
  /\ pc \in {"inspect", "verify", "checkout", "head", "download", "install"}
  /\ Tool!Discard
  /\ Answer("error") /\ fault' = TRUE
  /\ UNCHANGED <<treeVars, session, files, rt, mgrVars, passwords>>

-----------------------------------------------------------------------------
(* Up: StartAllWithLifetime, Save, and what the Runtime publishes.         *)

(* terminal.Service.Prepare: has-session, or new-session in the workspace. *)
SessionFor(s) ==
  IF s = Terminal /\ session = NoRoot THEN mgr.root ELSE session

(* startReadyMode makes s Healthy,                                         *)
Starts(s) ==
  /\ session' = SessionFor(s)
  /\ alive' = [alive EXCEPT ![s] = [root |-> mgr.root, version |-> bin[s],
                                    password |-> mgr.password]]
  /\ state' = [state EXCEPT ![s] = "healthy"]

(* opencode.Service.Prepare asks the binary for its version.               *)
VersionAgrees(s) == s = OpenCode => bin[s] = rt.version

UpStarts(s) ==
  /\ pc = "start" /\ s \in todo /\ VersionAgrees(s)
  /\ Starts(s)
  /\ todo' = todo \ {s}
  /\ UNCHANGED <<req, prior, treeVars, toolVars, files, rt, mgr, pc, passwords, answer, fault>>

(* or it fails, before or after it has seen to the session: StopAll.       *)
UpStartFails(s) ==
  /\ pc = "start" /\ s \in todo
  /\ session' \in IF VersionAgrees(s) THEN {session, SessionFor(s)} ELSE {session}
  /\ fault' = (fault \/ VersionAgrees(s))
  /\ StopAll
  /\ Answer("error")
  /\ UNCHANGED <<treeVars, toolVars, files, rt, mgr, passwords>>

(* Every service is Healthy or was once: Save the table and publish.       *)
UpPublishes ==
  /\ pc = "start" /\ todo = {}
  /\ disk' = [exists |-> TRUE, healthy |-> {s \in Services : state[s] = "healthy"}]
  /\ rt' = [rt EXCEPT !.running = TRUE, !.managed = TRUE, !.repo = req.repo, !.ref = req.ref]
  /\ Answer("up")
  /\ UNCHANGED <<treeVars, toolVars, session, saved, mgrVars, passwords, fault>>

(* Fault of the next operator: what was started keeps running.             *)
UpSaveFailsRunning ==
  /\ pc = "start" /\ todo = {}
  /\ Answer("error") /\ fault' = TRUE
  /\ UNCHANGED <<treeVars, toolVars, session, files, rt, mgrVars, passwords>>

(* Save fails, before or after its rename: StopAll.                        *)
UpSaveFails ==
  /\ pc = "start" /\ todo = {}
  /\ disk' \in {disk, [exists |-> TRUE, healthy |-> {s \in Services : state[s] = "healthy"}]}
  /\ StopAll
  /\ Answer("error") /\ fault' = TRUE
  /\ UNCHANGED <<treeVars, toolVars, session, saved, rt, mgr, passwords>>

-----------------------------------------------------------------------------
(* Restart, Status and Down.                                               *)

(* Fault of the next operator: a failed restart ends the session.          *)
RestartsAfresh(s) ==
  /\ rt.managed
  /\ session' = IF s = Terminal THEN NoRoot ELSE session
  /\ alive' = [alive EXCEPT ![s] = NoProcess]
  /\ state' = [state EXCEPT ![s] = "unhealthy"]
  /\ answer' = "error"

(* Manager.Restart of the published Manager: the service is stopped and    *)
(* started again.  Cleanup does nothing.                                   *)
Restarts(s) ==
  /\ rt.managed
  /\ \/ VersionAgrees(s) /\ Starts(s) /\ answer' = "restart"
     \/ /\ session' \in {session, SessionFor(s)}
        /\ alive' = [alive EXCEPT ![s] = NoProcess]
        /\ state' = [state EXCEPT ![s] = "unhealthy"]
        /\ answer' = "error"

Restart(s) ==
  /\ commands < MaxCommands /\ pc = "idle"
  /\ commands' = commands + 1
  /\ \/ Restarts(s)
     \/ ~rt.managed /\ answer' = "error" /\ UNCHANGED <<session, alive, state>>
  /\ UNCHANGED <<treeVars, toolVars, files, rt, ending, mgr, pc, localVars, crashes, died,
                 userActs, passwords, fault>>

(* The daemon is gone: its memory, and with it (Pdeathsig) the processes   *)
(* of its services.  tmux, a git that clones and the files stay.           *)
DaemonGone ==
  /\ rt' = NewRuntime /\ ending' = FALSE
  /\ mgr' = NoManager /\ state' = NewManager /\ alive' = NoneAlive
  /\ body' = 0 /\ died' = TRUE
  /\ Answer("lost") /\ fault' = FALSE

(* Status cannot load state.json while a Manager is published: it assigns  *)
(* to an entry of a nil map, which ends the daemon.                        *)
StatusPanics ==
  /\ commands < MaxCommands /\ pc = "idle" /\ rt.managed
  /\ commands' = commands + 1
  /\ DaemonGone
  /\ UNCHANGED <<treeVars, bin, session, files, crashes, userActs, passwords>>

(* Down: once; was there a state.json?  StopAll of the published Manager.  *)
DownStops ==
  /\ commands < MaxCommands /\ pc = "idle" /\ rt.down = "never"
  /\ commands' = commands + 1
  /\ \/ prior' = disk.exists /\ fault' = FALSE
     \/ prior' = FALSE /\ disk.exists /\ fault' = TRUE
  /\ IF rt.managed THEN StopAll ELSE UNCHANGED <<state, alive>>
  /\ pc' = "destroy" /\ answer' = "none"
  /\ UNCHANGED <<treeVars, toolVars, session, files, rt, ending, mgr, req, todo, crashes, died,
                 userActs, passwords>>

(* Later ones answer what the first one did.                               *)
DownAgain ==
  /\ commands < MaxCommands /\ pc = "idle" /\ rt.down # "never"
  /\ commands' = commands + 1
  /\ answer' = IF rt.down = "done" THEN "down" ELSE "error"
  /\ UNCHANGED <<treeVars, toolVars, session, files, rt, ending, mgrVars, pc, localVars, crashes,
                 died, userActs, passwords, fault>>

(* Fault of the next operator: the terminal of an earlier daemon is        *)
(* forgotten.                                                              *)
DownDestroysOwn ==
  /\ Goto("destroy", "clear")
  /\ session' = IF rt.terminal THEN NoRoot ELSE session
  /\ UNCHANGED <<files, rt, ending, localVars, answer, fault>>

(* kill-session, of the terminal composed here or of one found on disk.    *)
DownDestroys ==
  /\ Goto("destroy", "clear")
  /\ session' = IF rt.terminal \/ prior THEN NoRoot ELSE session
  /\ UNCHANGED <<files, rt, ending, localVars, answer, fault>>

DownDestroyFails ==
  /\ pc = "destroy" /\ (rt.terminal \/ prior)
  /\ rt' = [rt EXCEPT !.down = "failed"]
  /\ Answer("error") /\ fault' = TRUE
  /\ UNCHANGED <<session, files, ending>>

(* The services are saved as Stopped, if state.json existed and still      *)
(* loads; main cancels the context.                                        *)
DownClears ==
  /\ pc = "clear"
  /\ \/ prior /\ disk' = [disk EXCEPT !.healthy = {}] /\ UNCHANGED fault
     \/ ~prior /\ UNCHANGED <<disk, fault>>
     \/ prior /\ fault' = TRUE /\ UNCHANGED disk
  /\ rt' = [rt EXCEPT !.down = "done"] /\ ending' = TRUE
  /\ Answer("down")
  /\ UNCHANGED <<session, saved>>

DownClearFails ==
  /\ pc = "clear" /\ prior
  /\ disk' \in {disk, [disk EXCEPT !.healthy = {}]}
  /\ rt' = [rt EXCEPT !.down = "failed"]
  /\ Answer("error") /\ fault' = TRUE
  /\ UNCHANGED <<session, saved, ending>>

-----------------------------------------------------------------------------
(* Beside the commands.                                                    *)

(* The process of a service exits,                                         *)
ServiceExits(s) ==
  /\ s \in Live
  /\ alive' = [alive EXCEPT ![s] = NoProcess]
  /\ UNCHANGED <<state, session>>

(* and later the monitor, if the service is still Healthy, notices it.     *)
NoticesExit(s) ==
  /\ state[s] = "healthy" /\ s \notin Live
  /\ state' = [state EXCEPT ![s] = "lost"]
  /\ UNCHANGED <<alive, session>>

(* The monitor starts it again, or tries to.                               *)
Recovers(s) ==
  /\ state[s] = "lost" /\ ~ending
  /\ \/ VersionAgrees(s) /\ Starts(s)
     \/ session' = SessionFor(s) /\ session' # session /\ UNCHANGED <<state, alive>>

(* The user ends the shell of the session,                                 *)
UserEndsSession == session # NoRoot /\ session' = NoRoot /\ UNCHANGED treeVars

(* or edits, commits or discards in a workspace.                           *)
UserChanges(d) ==
  /\ Tree!UserEdits(d) \/ Tree!UserCleans(d)
  /\ UNCHANGED session

DaemonEnds ==
  /\ ending /\ DaemonGone
  /\ UNCHANGED <<treeVars, bin, session, files, commands, crashes, userActs, passwords>>

DaemonKilled ==
  /\ crashes < MaxCrashes /\ crashes' = crashes + 1
  /\ DaemonGone
  /\ UNCHANGED <<treeVars, bin, session, files, commands, userActs, passwords>>

-----------------------------------------------------------------------------
(* The specification.                                                      *)

UpStep ==
  /\ \/ UpWhileRunning \/ UpIsRefused \/ UpLoadsVersions
     \/ UpLoadsCredentials \/ UpSavesCredentials
     \/ UpClones \/ UpFindsTree \/ UpAwaitsClone \/ UpInspectsTree \/ UpChecksOut
     \/ UpReadsHead \/ UpDownloads \/ UpInstalls \/ UpComposes \/ UpFails
     \/ \E s \in Services : UpStarts(s) \/ UpStartFails(s)
     \/ UpPublishes \/ UpSaveFails
  /\ UNCHANGED <<ending, countVars>>

DownStep ==
  /\ \/ DownDestroys \/ DownDestroyFails \/ DownClears \/ DownClearFails
  /\ UNCHANGED <<treeVars, toolVars, mgrVars, countVars, passwords>>

Monitor ==
  /\ \E s \in Services : ServiceExits(s) \/ NoticesExit(s) \/ Recovers(s)
  /\ UNCHANGED <<treeVars, toolVars, files, rt, ending, mgr, pc, localVars, countVars,
                 passwords, answer, fault>>

(* A git that clones goes on, also when its daemon is gone; then nobody    *)
(* waits for it when it fails.                                             *)
Git ==
  /\ \E d \in Roots :
       \/ Tree!CloneAdvances(d)
       \/ (pc = "clone" => d # Dir) /\ (Tree!CloneFails(d) \/ Tree!CloneKilled(d))
  /\ UNCHANGED <<toolVars, session, files, rt, ending, mgrVars, pc, localVars, countVars,
                 passwords, answer, fault>>

User ==
  /\ userActs < MaxUserActs /\ userActs' = userActs + 1
  /\ UserEndsSession \/ \E d \in Roots : UserChanges(d)
  /\ UNCHANGED <<toolVars, files, rt, ending, mgrVars, pc, localVars, commands, crashes,
                 died, passwords, answer, fault>>

Next ==
  \/ \E r \in Requests : UpBegins(r)
  \/ UpStep
  \/ \E s \in Services : Restart(s)
  \/ StatusPanics
  \/ DownStops \/ DownAgain \/ DownStep
  \/ Monitor \/ Git \/ User
  \/ DaemonEnds \/ DaemonKilled

Spec == Init /\ [][Next]_vars

-----------------------------------------------------------------------------
(* Types.                                                                  *)

PCs == {"idle", "up", "credentials", "inspect", "clone", "verify", "checkout", "head",
        "download", "install", "start", "destroy", "clear"}

Passwords == 0..MaxCommands
Processes == [root : Roots \cup {NoRoot}, version : Tool!Contents, password : Passwords]

(* What outlives a daemon.                                                 *)
FileTypes ==
  /\ session \in Roots \cup {NoRoot}
  /\ disk \in [exists : BOOLEAN, healthy : SUBSET Services] /\ saved \in Passwords

RtTypes ==
  rt \in [running : BOOLEAN, repo : Repos \cup {NoRoot}, ref : Branches \cup Tags \cup {NoRef},
          version : Versions \cup {0}, password : Passwords, terminal : BOOLEAN,
          managed : BOOLEAN, down : {"never", "done", "failed"}]

ManagerTypes ==
  /\ mgr \in [root : Roots \cup {NoRoot}, password : Passwords]
  /\ state \in [Services -> {"absent", "healthy", "lost", "unhealthy", "stopped"}]
  /\ alive \in [Services -> Processes]

HandlerTypes ==
  /\ pc \in PCs /\ req \in Requests \cup {NoRequest} /\ todo \subseteq Services /\ prior \in BOOLEAN
  /\ pc \notin {"idle", "destroy", "clear"} => req \in Requests
  /\ answer \in {"none", "up", "restart", "down", "error", "lost"}

CountTypes ==
  /\ commands \in 0..MaxCommands /\ crashes \in 0..MaxCrashes /\ userActs \in 0..MaxUserActs
  /\ passwords \in 0..commands

FlagTypes == fault \in BOOLEAN /\ died \in BOOLEAN /\ ending \in BOOLEAN

(* Every variable holds a value of its kind.                               *)
TypeOK ==
  /\ Tree!WorkspaceTypeOK /\ Tool!InstallerTypeOK
  /\ FileTypes /\ RtTypes /\ ManagerTypes /\ HandlerTypes /\ CountTypes /\ FlagTypes

-----------------------------------------------------------------------------
(* Safety.                                                                 *)

(* Between commands, processes run only under a Manager that commands      *)
(* reach: an Up that failed at whatever step has stopped what it started.  *)
(* That is the choice of the code (StopAll, before it answers), and not    *)
(* the design's, whose section 6 says of the same case: "If a later step   *)
(* fails, already-running local services should remain available for       *)
(* diagnostics".  The property holds the code to its own choice: without a *)
(* Manager no restart or down reaches them, and the next up finds their    *)
(* ports taken.                                                            *)
NothingRunsUnmanaged ==
  pc \in {"idle", "up", "credentials", "inspect", "clone", "download"} /\ ~rt.managed => Live = {}

(* What runs was started with the password that up answers and that        *)
(* credentials.json holds, over failed commands and dead daemons.          *)
CredentialsMatch ==
  \A s \in Live : alive[s].password = rt.password /\ rt.password = saved

(* What runs was started from the artifact the manifest of its Up pins.    *)
LaunchedIsPinned ==
  \A s \in Live : alive[s].version = rt.version

(* Once Up has answered, what runs works in a clone of the repository it   *)
(* answered for, one that has a commit.                                    *)
RunsInItsRepository ==
  rt.running => \A s \in Live :
    /\ alive[s].root = Root[rt.repo]
    /\ tree[alive[s].root].origin = rt.repo /\ Tree!HasHead(alive[s].root)

(* Until a Down is asked for, an up that answers URLs, the first as well   *)
(* as an idempotent one, answers those of services under a Manager none of *)
(* which is stopped.                                                       *)
SummaryIsBacked ==
  pc = "idle" /\ answer = "up" /\ rt.down = "never" /\ ~ending =>
    rt.managed /\ \A s \in Services : state[s] \in {"healthy", "lost", "unhealthy"}

(* An up fails for a reason of its own: something outside failed while it  *)
(* ran; or, where it looks, it asks for other than what runs, the directory *)
(* belongs to another repository, a clone was cut short before it had a    *)
(* commit, or the ref is no local branch or would overwrite what the user  *)
(* changed.  Nothing else that failed or died before stays in its way.     *)
FailsForCause ==
  pc \notin {"idle", "destroy", "clear"} /\ pc' = "idle" /\ answer' = "error" =>
    \/ fault'
    \/ pc = "up" /\ rt.running /\ ~Compatible
    \/ pc = "verify" /\ ~Tree!SameOrigin(Dir, req.repo)
    \/ pc = "checkout" /\ (~Tree!Resolves(Dir, req.ref) \/ tree[Dir].dirty)
    \/ pc = "head" /\ ~Tree!HasHead(Dir)

UpFailsForCause == [][FailsForCause]_vars

(* The shell of the user outlives restarts, recoveries, failed commands    *)
(* and dead daemons: only Down ends it, or the user.                       *)
SparesShell ==
  session # NoRoot /\ session' # session => pc = "destroy" \/ userActs' # userActs

ShellSurvives == [][SparesShell]_vars

(* What the user has not committed is changed by the user alone.           *)
SparesEdits == \A d \in Roots : tree[d].dirty /\ ~tree'[d].dirty => userActs' # userActs

EditsAreKept == [][SparesEdits]_vars

(* A successful Down leaves no process, no service that a later daemon     *)
(* reads as Healthy from state.json, and no session, unless state.json     *)
(* cannot be read, or, for the session, no daemon has lived to write one.  *)
LeavesNothing ==
  pc = "clear" /\ pc' = "idle" /\ answer' = "down" =>
    /\ Live = {}
    /\ disk'.healthy = {} \/ fault'
    /\ session = NoRoot \/ fault \/ (died /\ ~disk.exists)

DownLeavesNothing == [][LeavesNothing]_vars

=============================================================================

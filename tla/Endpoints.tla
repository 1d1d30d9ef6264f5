------------------------------ MODULE Endpoints -------------------------------
(***************************************************************************)
(* The public URLs of the tunnels, internal/app/runtime.go: how Runtime.Up *)
(* collects, saves and publishes them, how handleHealthyService refreshes   *)
(* the endpoint map and state.json when a tunnel comes back with another    *)
(* URL, and how Down clears what was saved.                                 *)
(*                                                                          *)
(* Threads.  Thread 0 runs the commands, which the daemon serializes.       *)
(* Thread t > 0 is the monitor goroutine of tunnel t; a recovery of t runs  *)
(* startReadyMode, and through notifyHealthy the callback, on it.  Of the   *)
(* supervisor (module Supervisor) only what the callback can observe is     *)
(* kept: who holds lifecycleMu, which tunnels are Healthy, and whether the  *)
(* monitor of the current generation lives.                                 *)
(*                                                                          *)
(* PublicURL is written by whatever goroutine runs tunnel.Service.Probe: the *)
(* one waitReady waits for, the ones it has abandoned, Doctor's.  A probe   *)
(* tests s.publicURL in one critical section and stores what it has found   *)
(* in another, whoever holds lifecycleMu and whether the tunnel has been    *)
(* prepared again in between.  (Module Tunnel has the probes one by one.)   *)
(*                                                                          *)
(* The behaviour starts where StartAllWithLifetime has returned to Up.      *)
(***************************************************************************)
EXTENDS Integers, FiniteSets

CONSTANTS
  NumTunnels,    (* tunnels of the composition, in the order of their names *)
  MaxRestarts,   (* policy.MaxRestarts                                     *)
  LateURLs,      (* the URLs that a probe may store although another       *)
                 (* process has replaced the one that printed them         *)
  MaxURLs,       (* bound: URLs the providers hand out                     *)
  MaxCommands,   (* bound: Restart commands                                *)
  StoreMayFail   (* whether Store.Load and Store.Save may return an error  *)

ASSUME EndpointsAssumption ==
  /\ NumTunnels \in Nat \ {0} /\ MaxRestarts \in Nat /\ MaxCommands \in Nat
  /\ MaxURLs \in Nat /\ MaxURLs >= NumTunnels
  /\ LateURLs \subseteq 1..MaxURLs /\ StoreMayFail \in BOOLEAN

Command  == 0
NoThread == -1
NoURL    == 0
Tunnels  == 1..NumTunnels
Threads  == {Command} \cup Tunnels
URLs     == 0..MaxURLs
NoEndpoints == [t \in Tunnels |-> NoURL]

VARIABLES
  healthy,      (* the tunnels whose state is Healthy                      *)
  url,          (* PublicURL() of each tunnel                              *)
  address,      (* the URL the last process of each tunnel has printed     *)
  printed,      (* the URLs in any output of it, which probes have read    *)
  found,        (* those that probes found when publicURL was empty: any   *)
                (* number of them has still to store it                    *)
  crossed,      (* history: the tunnels for which, since their last        *)
                (* Prepare, a probe stored a URL of another process        *)
  handedOut,    (* URLs handed out so far                                  *)
  lifecycleMu,  (* the thread that holds it, or NoThread                   *)
  callback,     (* m.healthyCallback is set                                *)
  endpointSyncMu, (* the thread that holds it, or NoThread                 *)
  endpoints,    (* r.EndpointServices                                      *)
  endpointSyncErr, (* r.endpointSyncErr # nil                              *)
  disk,         (* state.json: its endpoints, and whether it says Stopped  *)
  cmd,          (* the command in progress                                 *)
  phase,        (* "new", "up", "down", "revived" or "abandoned"           *)
  issued,       (* Restart commands issued                                 *)
  published,    (* Up: comp.Endpoints                                      *)
  todo,         (* Up: tunnels still to be read, or to be called back for  *)
  prior,        (* Down: state.json existed                                *)
  downErr,      (* r.downErr # nil                                         *)
  pc,           (* control point of each thread                            *)
  on,           (* the tunnel each thread works on                         *)
  attempts,     (* monitor: loop variable `restart`                        *)
  current,      (* callback: the URL it has read                           *)
  copied,       (* callback: its copy of the endpoint map                  *)
  loaded,       (* callback: whether the state it loaded says Stopped      *)
  failed,       (* callback: err # nil                                     *)
  seen          (* history: the last URL the Runtime has read of a tunnel  *)

urlVars   == <<url, address, printed, found, crossed, handedOut>>
mgrVars   == <<healthy, urlVars, callback>>
syncVars  == <<endpoints, endpointSyncErr>>
cmdVars   == <<cmd, phase, issued, published, todo, prior, downErr>>
localVars == <<current, copied, loaded, failed>>
vars == <<mgrVars, lifecycleMu, endpointSyncMu, syncVars, disk, cmdVars, pc, on, attempts,
          localVars, seen>>

Init ==
  /\ healthy = Tunnels
  /\ url = [t \in Tunnels |-> t] /\ address = url /\ handedOut = NumTunnels
  /\ printed = [t \in Tunnels |-> {t}] /\ found = printed /\ crossed = {}
  /\ lifecycleMu = NoThread /\ endpointSyncMu = NoThread
  /\ callback = FALSE
  /\ endpoints = NoEndpoints /\ endpointSyncErr = FALSE
  /\ disk = [endpoints |-> NoEndpoints, stopped |-> FALSE]
  /\ cmd = "up" /\ phase = "new" /\ issued = 0
  /\ published = NoEndpoints /\ todo = Tunnels
  /\ prior = FALSE /\ downErr = FALSE
  /\ pc = [t \in Threads |-> IF t = Command THEN "collect" ELSE "watch"]
  /\ on = [t \in Threads |-> IF t = Command THEN 1 ELSE t]
  /\ attempts = [t \in Tunnels |-> 0]
  /\ current = [t \in Threads |-> NoURL]
  /\ copied = [t \in Threads |-> NoEndpoints]
  /\ loaded = [t \in Threads |-> FALSE]
  /\ failed = [t \in Threads |-> FALSE]
  /\ seen = NoEndpoints

Goto(x, from, to) == pc[x] = from /\ pc' = [pc EXCEPT ![x] = to]

(* Store.Save: it may fail before the rename, or after it (syncDir).       *)
Save(value, err) ==
  \/ ~err /\ disk' = value
  \/ err /\ StoreMayFail /\ disk' \in {disk, value}

(* Fault of the next operator: the loop of the monitor counts down.        *)
FrameReturnsCountsDown(x, ok) ==
  /\ lifecycleMu' = NoThread
  /\ IF x = Command
     THEN /\ cmd' = "none"
          /\ pc' = [pc EXCEPT ![Command] = "idle",
                              ![on[Command]] = IF ok THEN "watch" ELSE "gone"]
          /\ attempts' = [attempts EXCEPT ![on[Command]] = 0]
     ELSE /\ pc' = [pc EXCEPT ![x] = IF ok THEN "watch" ELSE "loop"]
          /\ attempts' = [attempts EXCEPT ![x] = @ - 1]
          /\ UNCHANGED cmd

(* startReadyMode returns.  A monitor watches the process it started or    *)
(* tries again, one attempt poorer either way (it counts a success when    *)
(* that process exits).  Restart spawns a monitor, or leaves without one.  *)
FrameReturns(x, ok) ==
  /\ lifecycleMu' = NoThread
  /\ IF x = Command
     THEN /\ cmd' = "none"
          /\ pc' = [pc EXCEPT ![Command] = "idle",
                              ![on[Command]] = IF ok THEN "watch" ELSE "gone"]
          /\ attempts' = [attempts EXCEPT ![on[Command]] = 0]
     ELSE /\ pc' = [pc EXCEPT ![x] = IF ok THEN "watch" ELSE "loop"]
          /\ attempts' = [attempts EXCEPT ![x] = @ + 1]
          /\ UNCHANGED cmd

(* The callback returns, to startReadyMode or to SetHealthyCallback; its   *)
(* local variables are no more.                                            *)
CallbackReturns(x) ==
  /\ current' = [current EXCEPT ![x] = NoURL]
  /\ copied' = [copied EXCEPT ![x] = NoEndpoints]
  /\ loaded' = [loaded EXCEPT ![x] = FALSE]
  /\ failed' = [failed EXCEPT ![x] = FALSE]
  /\ \/ /\ cmd = "up" /\ x = Command
        /\ pc' = [pc EXCEPT ![Command] = "callbacks"]
        /\ UNCHANGED <<lifecycleMu, cmd, attempts>>
     \/ ~(cmd = "up" /\ x = Command) /\ FrameReturns(x, TRUE)

-----------------------------------------------------------------------------
(* Faults: mistakes the code could have made, each put in the place of the *)
(* operator it is named after to see that the properties notice it.        *)

(* StopAll does not take lifecycleMu: what is under way goes on.           *)
StopAllUnlocked ==
  /\ healthy' = {}
  /\ pc' = [x \in Threads |-> IF x = Command THEN "stopped"
                              ELSE IF pc[x] \in {"watch", "loop"} THEN "gone"
                              ELSE pc[x]]

(* SetHealthyCallback calls nobody back.                                   *)
UpInstallsCallbackOnly ==
  /\ Goto(Command, "install", "callbacks")
  /\ callback' = TRUE /\ todo' = {}
  /\ UNCHANGED <<healthy, urlVars, lifecycleMu, endpointSyncMu, syncVars, disk, cmd,
                 phase, issued, published, prior, downErr, on, attempts, localVars, seen>>

(* The callback only fills in endpoints that are missing,                  *)
RefreshEndpointOnce(x) ==
  /\ pc[x] = "sync" /\ endpointSyncMu = NoThread
  /\ endpoints' = [endpoints EXCEPT ![on[x]] = IF @ = NoURL THEN current[x] ELSE @]
  /\ \/ /\ endpoints' = endpoints /\ ~endpointSyncErr
        /\ CallbackReturns(x)
        /\ UNCHANGED endpointSyncMu
     \/ /\ endpoints' # endpoints \/ endpointSyncErr
        /\ endpointSyncMu' = x
        /\ copied' = [copied EXCEPT ![x] = endpoints']
        /\ Goto(x, "sync", "load")
        /\ UNCHANGED <<lifecycleMu, cmd, attempts, current, loaded, failed>>
  /\ UNCHANGED <<mgrVars, endpointSyncErr, disk, phase, issued, published, todo, prior,
                 downErr, on, seen>>

(* or does without endpointSyncMu,                                         *)
RefreshEndpointUnlocked(x) ==
  /\ pc[x] = "sync"
  /\ endpoints' = [endpoints EXCEPT ![on[x]] = current[x]]
  /\ \/ /\ endpoints' = endpoints /\ ~endpointSyncErr
        /\ CallbackReturns(x)
     \/ /\ endpoints' # endpoints \/ endpointSyncErr
        /\ copied' = [copied EXCEPT ![x] = endpoints']
        /\ Goto(x, "sync", "load")
        /\ UNCHANGED <<lifecycleMu, cmd, attempts, current, loaded, failed>>
  /\ UNCHANGED <<mgrVars, endpointSyncMu, endpointSyncErr, disk, phase, issued, published,
                 todo, prior, downErr, on, seen>>

(* or returns without unlocking it when it could not save.                 *)
RecordSyncErrLocked(x) ==
  /\ pc[x] = "record"
  /\ endpointSyncErr' = failed[x]
  /\ endpointSyncMu' = IF failed[x] THEN endpointSyncMu ELSE NoThread
  /\ CallbackReturns(x)
  /\ UNCHANGED <<mgrVars, endpoints, disk, phase, issued, published, todo, prior, downErr,
                 on, seen>>

-----------------------------------------------------------------------------
(* Runtime.Up.                                                             *)

(* comp.Endpoints[...] = PublicURL(), the last tunnel first.               *)
UpCollects ==
  \E t \in todo :
    /\ pc[Command] = "collect"
    /\ \A u \in todo : u <= t
    /\ published' = [published EXCEPT ![t] = url[t]]
    /\ seen' = [seen EXCEPT ![t] = url[t]]
    /\ todo' = todo \ {t}
    /\ UNCHANGED <<mgrVars, lifecycleMu, endpointSyncMu, syncVars, disk, cmd, phase, issued,
                   prior, downErr, pc, on, attempts, localVars>>

(* Store.Save; if it fails, StopAll.                                       *)
UpSaves ==
  /\ todo = {}
  /\ \/ /\ Save([endpoints |-> published, stopped |-> FALSE], FALSE)
        /\ Goto(Command, "collect", "publish")
     \/ /\ Save([endpoints |-> published, stopped |-> FALSE], TRUE)
        /\ Goto(Command, "collect", "abandon")
  /\ UNCHANGED <<mgrVars, lifecycleMu, endpointSyncMu, syncVars, cmdVars, on, attempts,
                 localVars, seen>>

(* StopAll ends every generation: no monitor recovers anything afterwards. *)
StopAll ==
  /\ lifecycleMu = NoThread
  /\ healthy' = {}
  /\ pc' = [x \in Threads |-> IF x = Command THEN "stopped" ELSE "gone"]

UpAbandons ==
  /\ pc[Command] = "abandon"
  /\ StopAll
  /\ cmd' = "none" /\ phase' = "abandoned"
  /\ UNCHANGED <<urlVars, callback, lifecycleMu, endpointSyncMu, syncVars, disk,
                 issued, published, todo, prior, downErr, on, attempts, localVars, seen>>

UpPublishes ==
  /\ Goto(Command, "publish", "install")
  /\ endpoints' = published /\ endpointSyncErr' = FALSE
  /\ phase' = "up"
  /\ UNCHANGED <<mgrVars, lifecycleMu, endpointSyncMu, disk, cmd, issued, published, todo,
                 prior, downErr, on, attempts, localVars, seen>>

(* SetHealthyCallback: sets it and lists the Healthy services under m.mu,  *)
(* then calls it for each of them, in the order of their names.            *)
UpInstallsCallback ==
  /\ Goto(Command, "install", "callbacks")
  /\ callback' = TRUE /\ todo' = healthy
  /\ UNCHANGED <<healthy, urlVars, lifecycleMu, endpointSyncMu, syncVars, disk, cmd,
                 phase, issued, published, prior, downErr, on, attempts, localVars, seen>>

UpCallsBack ==
  \E t \in todo :
    /\ \A u \in todo : t <= u
    /\ Goto(Command, "callbacks", "read")
    /\ on' = [on EXCEPT ![Command] = t]
    /\ todo' = todo \ {t}
    /\ UNCHANGED <<mgrVars, lifecycleMu, endpointSyncMu, syncVars, disk, cmd, phase, issued,
                   published, prior, downErr, attempts, localVars, seen>>

(* connectionSummary                                                       *)
UpReturns ==
  /\ todo = {} /\ Goto(Command, "callbacks", "idle")
  /\ cmd' = "none"
  /\ UNCHANGED <<mgrVars, lifecycleMu, endpointSyncMu, syncVars, disk, phase, issued,
                 published, todo, prior, downErr, on, attempts, localVars, seen>>

-----------------------------------------------------------------------------
(* handleHealthyService(name), run by thread x for tunnel on[x].           *)

(* current := PublicURL(); return if it is empty.                          *)
ReadURL(x) ==
  /\ pc[x] = "read"
  /\ seen' = [seen EXCEPT ![on[x]] = url[on[x]]]
  /\ \/ /\ url[on[x]] = NoURL /\ CallbackReturns(x)
     \/ /\ url[on[x]] # NoURL /\ Goto(x, "read", "sync")
        /\ current' = [current EXCEPT ![x] = url[on[x]]]
        /\ UNCHANGED <<lifecycleMu, cmd, attempts, copied, loaded, failed>>
  /\ UNCHANGED <<mgrVars, endpointSyncMu, syncVars, disk, phase, issued, published, todo,
                 prior, downErr, on>>

(* endpointSyncMu.Lock; refresh the map; return if there is nothing to     *)
(* persist.                                                                *)
RefreshEndpoint(x) ==
  /\ pc[x] = "sync" /\ endpointSyncMu = NoThread
  /\ endpoints' = [endpoints EXCEPT ![on[x]] = current[x]]
  /\ \/ /\ endpoints' = endpoints /\ ~endpointSyncErr
        /\ CallbackReturns(x)
        /\ UNCHANGED endpointSyncMu
     \/ /\ endpoints' # endpoints \/ endpointSyncErr
        /\ endpointSyncMu' = x
        /\ copied' = [copied EXCEPT ![x] = endpoints']
        /\ Goto(x, "sync", "load")
        /\ UNCHANGED <<lifecycleMu, cmd, attempts, current, loaded, failed>>
  /\ UNCHANGED <<mgrVars, endpointSyncErr, disk, phase, issued, published, todo, prior,
                 downErr, on, seen>>

(* persisted, err := Store.Load()                                          *)
LoadState(x) ==
  /\ \/ /\ Goto(x, "load", "save")
        /\ failed' = [failed EXCEPT ![x] = FALSE]
     \/ /\ StoreMayFail /\ Goto(x, "load", "record")
        /\ failed' = [failed EXCEPT ![x] = TRUE]
  /\ loaded' = [loaded EXCEPT ![x] = disk.stopped]
  /\ UNCHANGED <<mgrVars, lifecycleMu, endpointSyncMu, syncVars, disk, cmdVars, on,
                 attempts, current, copied, seen>>

(* persisted.Endpoints = endpoints; err = Store.Save(persisted)            *)
SaveState(x) ==
  /\ Goto(x, "save", "record")
  /\ \E err \in BOOLEAN :
       /\ Save([endpoints |-> copied[x], stopped |-> loaded[x]], err)
       /\ failed' = [failed EXCEPT ![x] = err]
  /\ UNCHANGED <<mgrVars, lifecycleMu, endpointSyncMu, syncVars, cmdVars, on, attempts,
                 current, copied, loaded, seen>>

(* endpointSyncErr = err; endpointSyncMu.Unlock                            *)
RecordSyncErr(x) ==
  /\ pc[x] = "record"
  /\ endpointSyncErr' = failed[x]
  /\ endpointSyncMu' = NoThread
  /\ CallbackReturns(x)
  /\ UNCHANGED <<mgrVars, endpoints, disk, phase, issued, published, todo, prior, downErr,
                 on, seen>>

-----------------------------------------------------------------------------
(* The supervisor, as far as the callback sees it.                         *)

(* The process of tunnel t has exited, and its monitor notices.            *)
TunnelLost(t) ==
  /\ pc[t] = "watch" /\ t \in healthy
  /\ healthy' = healthy \ {t}
  /\ pc' = [pc EXCEPT ![t] = "loop"]
  /\ UNCHANGED <<urlVars, callback, lifecycleMu, endpointSyncMu, syncVars, disk,
                 cmdVars, on, attempts, localVars, seen>>

(* The backoff has passed and the recovery got lifecycleMu; or the budget  *)
(* is spent.                                                               *)
RecoveryBegins(t) ==
  /\ attempts[t] < MaxRestarts /\ lifecycleMu = NoThread
  /\ Goto(t, "loop", "prepare")
  /\ lifecycleMu' = t
  /\ UNCHANGED <<mgrVars, endpointSyncMu, syncVars, disk, cmdVars, on, attempts,
                 localVars, seen>>

RecoveryGivesUp(t) ==
  /\ attempts[t] >= MaxRestarts
  /\ Goto(t, "loop", "gone")
  /\ UNCHANGED <<mgrVars, lifecycleMu, endpointSyncMu, syncVars, disk, cmdVars, on,
                 attempts, localVars, seen>>

(* tunnel.Service.Prepare forgets the URL of the previous process and      *)
(* truncates its output; what probes have read and found they keep.        *)
Prepare(x) ==
  /\ Goto(x, "prepare", "probe")
  /\ url' = [url EXCEPT ![on[x]] = NoURL]
  /\ address' = [address EXCEPT ![on[x]] = NoURL]
  /\ crossed' = crossed \ {on[x]}
  /\ UNCHANGED <<healthy, printed, found, handedOut, callback, lifecycleMu, endpointSyncMu,
                 syncVars, disk, cmdVars, on, attempts, localVars, seen>>

(* A Probe succeeds, with whatever URL is there.                           *)
BecomeHealthy(x) ==
  /\ url[on[x]] # NoURL
  /\ Goto(x, "probe", "notify")
  /\ healthy' = healthy \cup {on[x]}
  /\ UNCHANGED <<urlVars, callback, lifecycleMu, endpointSyncMu, syncVars, disk,
                 cmdVars, on, attempts, localVars, seen>>

(* startReadyMode returns an error.                                        *)
StartFails(x) ==
  /\ pc[x] \in {"prepare", "probe"}
  /\ FrameReturns(x, FALSE)
  /\ UNCHANGED <<mgrVars, endpointSyncMu, syncVars, disk, phase, issued, published, todo,
                 prior, downErr, on, localVars, seen>>

(* notifyHealthy reads m.healthyCallback.                                  *)
NotifyHealthy(x) ==
  /\ \/ callback /\ Goto(x, "notify", "read") /\ UNCHANGED <<lifecycleMu, cmd, attempts>>
     \/ ~callback /\ pc[x] = "notify" /\ FrameReturns(x, TRUE)
  /\ UNCHANGED <<mgrVars, endpointSyncMu, syncVars, disk, phase, issued, published, todo,
                 prior, downErr, on, localVars, seen>>

-----------------------------------------------------------------------------
(* tunnel.Service.Probe, run by anyone at any time.                        *)

(* The process of t prints the URL its provider has given it.              *)
ProcessPrints(t) ==
  /\ t \in healthy \/ \E x \in Threads : pc[x] = "probe" /\ on[x] = t
  /\ address[t] = NoURL /\ handedOut < MaxURLs
  /\ handedOut' = handedOut + 1
  /\ address' = [address EXCEPT ![t] = handedOut']
  /\ printed' = [printed EXCEPT ![t] = @ \cup {handedOut'}]
  /\ UNCHANGED <<healthy, url, found, crossed, callback, lifecycleMu, endpointSyncMu,
                 syncVars, disk, cmdVars, pc, on, attempts, localVars, seen>>

(* A probe tests s.publicURL and finds a URL in the output it has read,    *)
(* before or after a Prepare.                                              *)
FindURL(t) ==
  /\ url[t] = NoURL
  /\ \E u \in printed[t] \ found[t] : found' = [found EXCEPT ![t] = @ \cup {u}]
  /\ UNCHANGED <<healthy, url, address, printed, crossed, handedOut, callback, lifecycleMu,
                 endpointSyncMu, syncVars, disk, cmdVars, pc, on, attempts, localVars, seen>>

(* `s.publicURL = publicURL`, without another test.                        *)
StoreURL(t) ==
  \E u \in found[t] :
    /\ u = address[t] \/ u \in LateURLs
    /\ url' = [url EXCEPT ![t] = u]
    /\ crossed' = IF u = address[t] THEN crossed ELSE crossed \cup {t}
    /\ UNCHANGED <<healthy, address, printed, found, handedOut, callback, lifecycleMu,
                   endpointSyncMu, syncVars, disk, cmdVars, pc, on, attempts, localVars,
                   seen>>

-----------------------------------------------------------------------------
(* Runtime.Restart and Runtime.Down.                                       *)

Restart(t) ==
  /\ cmd = "none" /\ phase \in {"up", "down", "revived"} /\ issued < MaxCommands
  /\ cmd' = "restart" /\ issued' = issued + 1
  /\ phase' = IF phase = "down" THEN "revived" ELSE phase
  /\ on' = [on EXCEPT ![Command] = t]
  /\ pc' = [pc EXCEPT ![Command] = "lock"]
  /\ UNCHANGED <<mgrVars, lifecycleMu, endpointSyncMu, syncVars, disk, published, todo,
                 prior, downErr, attempts, localVars, seen>>

(* It ends the generation of t: the monitor of t changes nothing any more. *)
RestartLocks ==
  /\ cmd = "restart" /\ pc[Command] = "lock" /\ lifecycleMu = NoThread
  /\ lifecycleMu' = Command
  /\ healthy' = healthy \ {on[Command]}
  /\ pc' = [pc EXCEPT ![Command] = "prepare", ![on[Command]] = "gone"]
  /\ UNCHANGED <<urlVars, callback, endpointSyncMu, syncVars, disk, cmdVars, on,
                 attempts, localVars, seen>>

(* Down loads the state to see whether there was one, stops everything,    *)
(* destroys the terminal session and saves the state as Stopped.           *)
Down ==
  /\ cmd = "none" /\ phase = "up"
  /\ cmd' = "down"
  /\ prior' \in IF StoreMayFail THEN BOOLEAN ELSE {TRUE}
  /\ pc' = [pc EXCEPT ![Command] = "lock"]
  /\ UNCHANGED <<mgrVars, lifecycleMu, endpointSyncMu, syncVars, disk, phase, issued,
                 published, todo, downErr, on, attempts, localVars, seen>>

DownStops ==
  /\ cmd = "down" /\ pc[Command] = "lock"
  /\ StopAll
  /\ downErr' \in BOOLEAN
  /\ UNCHANGED <<urlVars, callback, lifecycleMu, endpointSyncMu, syncVars, disk, cmd,
                 phase, issued, published, todo, prior, on, attempts, localVars, seen>>

DownSaves ==
  /\ cmd = "down" /\ Goto(Command, "stopped", "idle")
  /\ \/ /\ prior /\ ~downErr
        /\ \E err \in BOOLEAN :
             /\ Save([endpoints |-> NoEndpoints, stopped |-> TRUE], err)
             /\ downErr' = err
     \/ (~prior \/ downErr \/ StoreMayFail) /\ UNCHANGED <<disk, downErr>>
  /\ cmd' = "none" /\ phase' = "down"
  /\ UNCHANGED <<mgrVars, lifecycleMu, endpointSyncMu, syncVars, issued, published, todo,
                 prior, on, attempts, localVars, seen>>

-----------------------------------------------------------------------------
(* The specification.                                                      *)

Callback(x) ==
  ReadURL(x) \/ RefreshEndpoint(x) \/ LoadState(x) \/ SaveState(x) \/ RecordSyncErr(x)

Frame(x) ==
  \/ Prepare(x) \/ BecomeHealthy(x) \/ StartFails(x) \/ NotifyHealthy(x)
  \/ Callback(x)

CommandStep ==
  \/ UpCollects \/ UpSaves \/ UpAbandons \/ UpPublishes \/ UpInstallsCallback
  \/ UpCallsBack \/ UpReturns \/ RestartLocks \/ DownStops \/ DownSaves
  \/ Frame(Command)

ProbeStep(t) == ProcessPrints(t) \/ FindURL(t) \/ StoreURL(t)

MonitorStep(t) == RecoveryBegins(t) \/ RecoveryGivesUp(t) \/ Frame(t)

Next ==
  \/ CommandStep
  \/ \E t \in Tunnels : MonitorStep(t) \/ ProbeStep(t) \/ TunnelLost(t) \/ Restart(t)
  \/ Down

Spec == Init /\ [][Next]_vars
FairSpec == Spec /\ WF_vars(CommandStep) /\ \A t \in Tunnels : WF_vars(MonitorStep(t))

-----------------------------------------------------------------------------
(* Types.                                                                  *)

PCs == {"collect", "publish", "abandon", "install", "callbacks", "idle", "lock", "stopped",
        "watch", "loop", "gone", "prepare", "probe", "notify",
        "read", "sync", "load", "save", "record"}

(* Every variable holds a value of its kind.                               *)
TypeOK ==
  /\ healthy \subseteq Tunnels /\ todo \subseteq Tunnels
  /\ url \in [Tunnels -> URLs] /\ address \in [Tunnels -> URLs] /\ handedOut \in URLs
  /\ printed \in [Tunnels -> SUBSET URLs] /\ found \in [Tunnels -> SUBSET URLs]
  /\ crossed \subseteq Tunnels
  /\ lifecycleMu \in Threads \cup {NoThread} /\ endpointSyncMu \in Threads \cup {NoThread}
  /\ callback \in BOOLEAN /\ endpointSyncErr \in BOOLEAN
  /\ endpoints \in [Tunnels -> URLs]
  /\ disk \in [endpoints : [Tunnels -> URLs], stopped : BOOLEAN]
  /\ cmd \in {"none", "up", "restart", "down"}
  /\ phase \in {"new", "up", "down", "revived", "abandoned"}
  /\ issued \in 0..MaxCommands
  /\ published \in [Tunnels -> URLs]
  /\ prior \in BOOLEAN /\ downErr \in BOOLEAN
  /\ pc \in [Threads -> PCs] /\ on \in [Threads -> Tunnels]
  /\ attempts \in [Tunnels -> Nat]
  /\ current \in [Threads -> URLs] /\ copied \in [Threads -> [Tunnels -> URLs]]
  /\ loaded \in [Threads -> BOOLEAN] /\ failed \in [Threads -> BOOLEAN]
  /\ seen \in [Tunnels -> URLs]

-----------------------------------------------------------------------------
(* Safety.                                                                 *)

Persisting == \E x \in Threads : pc[x] \in {"load", "save", "record"}

(* state.json and the endpoint map in memory differ, while the Runtime is  *)
(* up, only when endpointSyncErr says so (doctor reports it and the next   *)
(* callback tries again): two callbacks never save in an order other than  *)
(* the one they refreshed the map in.                                      *)
DivergenceIsReported ==
  phase = "up" /\ ~Persisting => endpointSyncErr \/ disk.endpoints = endpoints

(* No recovery falls between Up's reading of the URLs and the callback Up  *)
(* installs: once Up has returned, the last URL the Runtime has read of a  *)
(* watched tunnel is the one its process has printed.  It is not only      *)
(* where a probe stored a URL of another process after the last Prepare.   *)
NoMissedRecovery ==
  phase = "up" /\ cmd # "up" =>
    \A t \in healthy \ crossed : pc[t] = "watch" => seen[t] = address[t]

(* A start that ends after Up has returned, a recovery's or Restart's, and  *)
(* leaves the tunnel Healthy has put the URL its process printed into the  *)
(* endpoint map, where status and an idempotent up read it, unless a probe *)
(* stored a URL of another process after the Prepare of that start.        *)
RecoveryIsPublished ==
  [][\A t \in Tunnels \ crossed :
       cmd # "up" /\ pc[t] # "watch" /\ pc'[t] = "watch" => endpoints'[t] = address[t]]_vars

(* Once Down has returned, until a Restart queued behind it revives a      *)
(* service, state.json stays what Down left: StopAll waited for every      *)
(* callback under way, so none saves its older copy over it.               *)
DownIsLastToSave ==
  [][phase = "down" /\ phase' = "down" => disk' = disk]_vars

(* What the design (section 5.3) says of status and of an idempotent up:   *)
(* they "must therefore return the current URL after recovery".  The       *)
(* callback reads the URL before it takes endpointSyncMu, so Up's callback *)
(* may write back the URL of a process that a recovery has replaced.       *)
EndpointIsCurrent ==
  phase = "up" /\ cmd # "up" =>
    \A t \in healthy : pc[t] = "watch" => endpoints[t] = address[t]

-----------------------------------------------------------------------------
(* Liveness.                                                               *)

(* No command waits for ever for a callback, or a callback for a command:  *)
(* lifecycleMu, endpointSyncMu and endpointMu are taken in one order.      *)
CommandsReturn == cmd # "none" ~> cmd = "none"

=============================================================================

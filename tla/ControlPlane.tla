----------------------------- MODULE ControlPlane -----------------------------
(***************************************************************************)
(* The control plane: CLI invocations that look for a daemon, reuse it,     *)
(* replace it or start one (internal/control/client.go, EnsureDaemon), the  *)
(* daemons that bind the control socket and serve it (server.go,            *)
(* identity.go; cmd/colabnomad/main.go, runDaemon), and the three files     *)
(* they share: daemon.lock, control.sock and daemon.owner.                  *)
(*                                                                          *)
(* Daemons are numbered in the order they are spawned.  The number stands   *)
(* for the process (PID and start time), for the socket it has bound and    *)
(* for what it writes to daemon.owner; 0 stands for a missing file.         *)
(*                                                                          *)
(* Atomicity.  One action is one system call on a shared file or socket, or *)
(* one message, with the process-local code around it.                      *)
(***************************************************************************)
EXTENDS Integers, FiniteSets

CONSTANTS
  Clients,      (* CLI invocations                                         *)
  MaxUpgrades,  (* bound: times the binary on disk is replaced             *)
  MaxCrashes,   (* bound: daemons killed                                   *)
  Impatient     (* whether a 5 s wait may expire while the daemon it waits *)
                (* for is slow, and an invocation may be interrupted       *)

ASSUME ControlAssumption ==
  /\ IsFiniteSet(Clients) /\ 0 \notin Clients
  /\ MaxUpgrades \in Nat /\ MaxCrashes \in Nat
  /\ Impatient \in BOOLEAN

None    == 0
Daemons == 1..Cardinality(Clients)   (* an invocation spawns at most one *)

VARIABLES
  installed,  (* the identity of the binary on disk                        *)
  lock,       (* the invocation that holds daemon.lock, or None            *)
  socket,     (* control.sock: the daemon that bound it, or None           *)
  owner,      (* daemon.owner: the daemon it names, or None                *)
  spawned,    (* daemons spawned                                           *)
  crashes,    (* daemons killed                                            *)
  dpc,        (* control point of each daemon                              *)
  daemonBinary, (* processBinaryIdentity of each daemon                    *)
  requests,   (* requests sent to each daemon and not begun                *)
  running,    (* the requests its serialized handler runs: none or one     *)
  answers,    (* answers not yet written                                   *)
  downState,  (* Runtime.Down (downOnce): "no", "ok" or "failed"           *)
  cpc,        (* control point of each invocation                          *)
  clientBinary, (* CurrentBinaryIdentity of each invocation                *)
  command,    (* its command                                               *)
  target,     (* the daemon it is connected to or has spawned              *)
  reply,      (* the answer it has got, or "none"                          *)
  hasOwner    (* what verifySocketReplacement returned to it               *)

files   == <<lock, socket, owner>>
daemons == <<spawned, crashes, dpc, daemonBinary, running, downState>>
mail    == <<requests, answers>>
clients == <<clientBinary, command>>
vars    == <<installed, files, daemons, mail, cpc, clients, target, reply, hasOwner>>

Init ==
  /\ installed = 1
  /\ lock = None /\ socket = None /\ owner = None
  /\ spawned = 0 /\ crashes = 0
  /\ dpc = [d \in Daemons |-> "none"]
  /\ daemonBinary = [d \in Daemons |-> 0]
  /\ requests = [d \in Daemons |-> {}]
  /\ running = [d \in Daemons |-> {}]
  /\ answers = [d \in Daemons |-> {}]
  /\ downState = [d \in Daemons |-> "no"]
  /\ cpc = [c \in Clients |-> "idle"]
  /\ clientBinary = [c \in Clients |-> 0]
  /\ command = [c \in Clients |-> "other"]
  /\ target = [c \in Clients |-> None]
  /\ reply = [c \in Clients |-> "none"]
  /\ hasOwner = [c \in Clients |-> FALSE]

-----------------------------------------------------------------------------
(* Faults: wrong versions of definitions below, used only to confirm that  *)
(* each property can fail.                                                 *)

(* verifySocketReplacement without the test that the owner is dead.        *)
ReplaceableAnyOwner == ~(owner = None /\ socket # None)

(* EnsureDaemon without the exclusive lock.                                *)
LockShared(c) ==
  /\ cpc[c] = "lock" /\ cpc' = [cpc EXCEPT ![c] = "dial"]
  /\ UNCHANGED <<installed, files, daemons, mail, clients, target, reply, hasOwner>>

(* The lock outlives EnsureDaemon.                                         *)
LeaveLocked(c, from, to) ==
  /\ cpc[c] = from /\ cpc' = [cpc EXCEPT ![c] = to]
  /\ UNCHANGED lock

(* The down handler forgets to cancel.                                     *)
StopRuntimeOnly(d) ==
  /\ downState' \in {[downState EXCEPT ![d] = v] : v \in {"ok", "failed"}}
  /\ UNCHANGED dpc

(* The handler without serializedHandler's mutex.                          *)
BeginUnserialized(d, r) ==
  /\ dpc[d] \in {"serve", "cancelled", "closed", "unowned", "exiting"}
  /\ r \in requests[d]
  /\ running' = [running EXCEPT ![d] = @ \cup {r}]
  /\ requests' = [requests EXCEPT ![d] = @ \ {r}]
  /\ UNCHANGED <<installed, files, spawned, crashes, dpc, daemonBinary, downState, answers,
                 cpc, clients, target, reply, hasOwner>>

(* Close removes the owner file only.                                      *)
ListenerKeepsSocket(d) ==
  /\ dpc[d] = "cancelled" /\ dpc' = [dpc EXCEPT ![d] = "unowned"]
  /\ UNCHANGED <<installed, files, spawned, crashes, daemonBinary, running, downState,
                 mail, cpc, clients, target, reply, hasOwner>>

-----------------------------------------------------------------------------
(* What several operations share.                                          *)

Alive(d) == dpc[d] \notin {"none", "dead"}
Listening(d) == dpc[d] \in {"own", "serve", "cancelled"}
Dialable == socket # None /\ Listening(socket)

(* verifySocketReplacement: a live owner is never replaced, and neither is *)
(* a socket nobody owns.                                                   *)
Replaceable ==
  /\ ~(owner # None /\ Alive(owner))
  /\ ~(owner = None /\ socket # None)

Goto(c, from, to) == cpc[c] = from /\ cpc' = [cpc EXCEPT ![c] = to]
Advance(d, from, to) == dpc[d] = from /\ dpc' = [dpc EXCEPT ![d] = to]

(* EnsureDaemon returns; the lock goes with it.                            *)
Leave(c, from, to) == Goto(c, from, to) /\ lock' = None

(* Client.Do: dial the socket and write one request.                       *)
Send(c, kind) ==
  /\ Dialable
  /\ target' = [target EXCEPT ![c] = socket]
  /\ requests' = [requests EXCEPT ![socket] = @ \cup {<<c, kind>>}]
  /\ reply' = [reply EXCEPT ![c] = "none"]
  /\ UNCHANGED answers

(* The client's deadline may pass while the handler runs a request: any    *)
(* one, or (an identity request takes no time) that of another client.     *)
Late(c) == reply[c] = "none" /\ running[target[c]] # {}
Busy(c) == reply[c] = "none" /\ \E r \in running[target[c]] : r[1] # c

(* The process of daemon d ends: connections to it are reset, its files    *)
(* stay as they are.                                                       *)
Ends(d) ==
  /\ dpc' = [dpc EXCEPT ![d] = "dead"]
  /\ requests' = [requests EXCEPT ![d] = {}]
  /\ running' = [running EXCEPT ![d] = {}]
  /\ answers' = [answers EXCEPT ![d] = {}]
  /\ reply' = [c \in Clients |->
                 IF target[c] = d /\ reply[c] = "none" THEN "error" ELSE reply[c]]

-----------------------------------------------------------------------------
(* A CLI invocation: EnsureDaemon, then the command.                       *)

Invoke(c) ==
  /\ Goto(c, "idle", "lock")
  /\ clientBinary' = [clientBinary EXCEPT ![c] = installed]
  /\ \E k \in {"down", "other"} : command' = [command EXCEPT ![c] = k]
  /\ UNCHANGED <<installed, files, daemons, mail, target, reply, hasOwner>>

Lock(c) ==
  /\ lock = None /\ lock' = c
  /\ Goto(c, "lock", "dial")
  /\ UNCHANGED <<installed, socket, owner, daemons, mail, clients, target, reply, hasOwner>>

Dial(c) ==
  /\ \/ Dialable /\ Goto(c, "dial", "askIdentity")
     \/ ~Dialable /\ Goto(c, "dial", "verify")
  /\ UNCHANGED <<installed, files, daemons, mail, clients, target, reply, hasOwner>>

(* The identity request, with a deadline of 500 ms.                        *)
AskIdentity(c) ==
  /\ \/ Send(c, "identity") /\ Goto(c, "askIdentity", "identity")
     \/ /\ ~Dialable /\ Goto(c, "askIdentity", "askDown")
        /\ UNCHANGED <<mail, target, reply>>
  /\ UNCHANGED <<installed, files, daemons, clients, hasOwner>>

IdentityMatches(c) ==
  /\ cpc[c] = "identity" /\ reply[c] = "ok"
  /\ daemonBinary[target[c]] = clientBinary[c]
  /\ Leave(c, "identity", "command")
  /\ UNCHANGED <<installed, socket, owner, daemons, mail, clients, target, reply, hasOwner>>

(* Another binary, an error, or no answer in time: the daemon is stale.    *)
IdentityStale(c) ==
  /\ cpc[c] = "identity"
  /\ \/ reply[c] = "ok" /\ daemonBinary[target[c]] # clientBinary[c]
     \/ reply[c] = "error"
     \/ Busy(c)
  /\ cpc' = [cpc EXCEPT ![c] = "askDown"]
  /\ UNCHANGED <<installed, files, daemons, mail, clients, target, reply, hasOwner>>

(* The down request, with a deadline of 30 s.                              *)
AskDown(c) ==
  /\ \/ Send(c, "stop") /\ Goto(c, "askDown", "down") /\ UNCHANGED lock
     \/ /\ ~Dialable /\ Leave(c, "askDown", "failed")
        /\ UNCHANGED <<mail, target, reply>>
  /\ UNCHANGED <<installed, socket, owner, daemons, clients, hasOwner>>

DownAnswered(c) ==
  /\ cpc[c] = "down"
  /\ \/ reply[c] = "ok" /\ Goto(c, "down", "gone") /\ UNCHANGED lock
     \/ /\ reply[c] = "error" \/ Late(c)
        /\ Leave(c, "down", "failed")
  /\ UNCHANGED <<installed, socket, owner, daemons, mail, clients, target, reply, hasOwner>>

(* It polls until the socket refuses and the owner is missing or dead.     *)
SeesSocketGone(c) ==
  /\ ~Dialable
  /\ Goto(c, "gone", "ownerGone")
  /\ UNCHANGED <<installed, files, daemons, mail, clients, target, reply, hasOwner>>

SeesOwner(c) ==
  /\ IF owner # None /\ Alive(owner) THEN Goto(c, "ownerGone", "gone")
                                      ELSE Goto(c, "ownerGone", "verify")
  /\ UNCHANGED <<installed, files, daemons, mail, clients, target, reply, hasOwner>>

(* Ends the poll after 5 s.                                                *)
GoneTimesOut(c) ==
  /\ Impatient /\ cpc[c] \in {"gone", "ownerGone"}
  /\ lock' = None /\ cpc' = [cpc EXCEPT ![c] = "failed"]
  /\ UNCHANGED <<installed, socket, owner, daemons, mail, clients, target, reply, hasOwner>>

Verify(c) ==
  /\ \/ /\ Replaceable /\ Goto(c, "verify", "unlink")
        /\ hasOwner' = [hasOwner EXCEPT ![c] = owner # None]
        /\ UNCHANGED lock
     \/ ~Replaceable /\ Leave(c, "verify", "failed") /\ UNCHANGED hasOwner
  /\ UNCHANGED <<installed, socket, owner, daemons, mail, clients, target, reply>>

RemoveSocket(c) ==
  /\ socket' = None
  /\ Goto(c, "unlink", "disown")
  /\ UNCHANGED <<installed, lock, owner, daemons, mail, clients, target, reply, hasOwner>>

RemoveOwner(c) ==
  /\ owner' = IF hasOwner[c] THEN None ELSE owner
  /\ Goto(c, "disown", "spawn")
  /\ UNCHANGED <<installed, lock, socket, daemons, mail, clients, target, reply, hasOwner>>

(* start(): run `<os.Args[0]> daemon`.                                     *)
Spawn(c) ==
  /\ spawned' = spawned + 1
  /\ dpc' = [dpc EXCEPT ![spawned + 1] = "dial"]
  /\ daemonBinary' = [daemonBinary EXCEPT ![spawned + 1] = installed]
  /\ target' = [target EXCEPT ![c] = spawned + 1]
  /\ Goto(c, "spawn", "await")
  /\ UNCHANGED <<installed, files, crashes, running, downState, mail, clients, reply,
                 hasOwner>>

(* It polls for 5 s until the socket can be dialled.                       *)
SocketReady(c) ==
  /\ Dialable
  /\ Leave(c, "await", "command")
  /\ UNCHANGED <<installed, socket, owner, daemons, mail, clients, target, reply, hasOwner>>

AwaitTimesOut(c) ==
  /\ cpc[c] = "await"
  /\ Impatient \/ (~Alive(target[c]) /\ ~Dialable)
  /\ Leave(c, "await", "failed")
  /\ UNCHANGED <<installed, socket, owner, daemons, mail, clients, target, reply, hasOwner>>

SendCommand(c) ==
  /\ \/ Send(c, command[c]) /\ Goto(c, "command", "sent")
     \/ /\ ~Dialable /\ Goto(c, "command", "failed")
        /\ UNCHANGED <<mail, target, reply>>
  /\ UNCHANGED <<installed, files, daemons, clients, hasOwner>>

CommandAnswered(c) ==
  /\ cpc[c] = "sent"
  /\ \/ reply[c] = "ok" /\ Goto(c, "sent", "done")
     \/ /\ reply[c] = "error" \/ Late(c)
        /\ Goto(c, "sent", "failed")
  /\ UNCHANGED <<installed, files, daemons, mail, clients, target, reply, hasOwner>>

(* The user interrupts the invocation; the kernel drops its lock.          *)
Interrupt(c) ==
  /\ Impatient /\ cpc[c] \notin {"idle", "done", "failed"}
  /\ cpc' = [cpc EXCEPT ![c] = "failed"]
  /\ lock' = IF lock = c THEN None ELSE lock
  /\ UNCHANGED <<installed, socket, owner, daemons, mail, clients, target, reply, hasOwner>>

-----------------------------------------------------------------------------
(* A daemon: NewServer.                                                    *)

ServerDials(d) ==
  /\ \/ ~Dialable /\ Advance(d, "dial", "verify")
     \/ Dialable /\ Advance(d, "dial", "dead")
  /\ UNCHANGED <<installed, files, spawned, crashes, daemonBinary, running, downState, mail,
                 cpc, clients, target, reply, hasOwner>>

ServerVerifies(d) ==
  /\ Advance(d, "verify", IF Replaceable THEN "remove" ELSE "dead")
  /\ UNCHANGED <<installed, files, spawned, crashes, daemonBinary, running, downState, mail,
                 cpc, clients, target, reply, hasOwner>>

ServerRemovesSocket(d) ==
  /\ Advance(d, "remove", "listen")
  /\ socket' = None
  /\ UNCHANGED <<installed, lock, owner, spawned, crashes, daemonBinary, running, downState,
                 mail, cpc, clients, target, reply, hasOwner>>

(* net.Listen fails when the path exists.                                  *)
ServerListens(d) ==
  /\ \/ socket = None /\ socket' = d /\ Advance(d, "listen", "own")
     \/ socket # None /\ UNCHANGED socket /\ Advance(d, "listen", "dead")
  /\ UNCHANGED <<installed, lock, owner, spawned, crashes, daemonBinary, running, downState,
                 mail, cpc, clients, target, reply, hasOwner>>

(* writeOwner renames a complete file into place.                          *)
ServerWritesOwner(d) ==
  /\ Advance(d, "own", "serve")
  /\ owner' = d
  /\ UNCHANGED <<installed, lock, socket, spawned, crashes, daemonBinary, running, downState,
                 mail, cpc, clients, target, reply, hasOwner>>

-----------------------------------------------------------------------------
(* Serve, one goroutine per connection, and the serialized handler.        *)

Serving(d) == dpc[d] \in {"serve", "cancelled", "closed", "unowned", "exiting"}

(* serializedHandler: the mutex admits one request, in any order.          *)
Begin(d, r) ==
  /\ Serving(d) /\ running[d] = {} /\ r \in requests[d]
  /\ running' = [running EXCEPT ![d] = {r}]
  /\ requests' = [requests EXCEPT ![d] = @ \ {r}]
  /\ UNCHANGED <<installed, files, spawned, crashes, dpc, daemonBinary, downState, answers,
                 cpc, clients, target, reply, hasOwner>>

(* Runtime.Down runs once and remembers its error; if there is none, the   *)
(* handler cancels the context Serve runs under.                           *)
StopRuntime(d) ==
  /\ downState' \in {[downState EXCEPT ![d] = v] :
                       v \in IF downState[d] = "no" THEN {"ok", "failed"} ELSE {downState[d]}}
  /\ dpc' = IF downState'[d] = "ok" /\ dpc[d] = "serve"
            THEN [dpc EXCEPT ![d] = "cancelled"] ELSE dpc

(* The handler returns.                                                    *)
Finish(d, r) ==
  /\ r \in running[d]
  /\ running' = [running EXCEPT ![d] = {}]
  /\ \/ r[2] \in {"identity", "other"} /\ UNCHANGED <<dpc, downState>>
     \/ r[2] \in {"stop", "down"} /\ StopRuntime(d)
  /\ answers' = [answers EXCEPT ![d] = @ \cup {<<r[1], r[2]>>}]
  /\ UNCHANGED <<installed, files, spawned, crashes, daemonBinary, requests, cpc, clients,
                 target, reply, hasOwner>>

(* Response.OK: `down` reports what Runtime.Down returned; the other       *)
(* commands may fail.                                                      *)
Outcomes(d, kind) ==
  CASE kind = "identity" -> {"ok"}
    [] kind = "other"    -> {"ok", "error"}
    [] OTHER             -> {IF downState[d] = "failed" THEN "error" ELSE "ok"}

(* writeMessage, to a client that may no longer wait for it.               *)
Answer(d, a) ==
  /\ a \in answers[d]
  /\ answers' = [answers EXCEPT ![d] = @ \ {a}]
  /\ LET c == a[1]
         waits == /\ target[c] = d
                  /\ cpc[c] = CASE a[2] = "identity" -> "identity"
                                [] a[2] = "stop" -> "down"
                                [] OTHER -> "sent"
     IN IF waits THEN \E v \in Outcomes(d, a[2]) : reply' = [reply EXCEPT ![c] = v]
                 ELSE UNCHANGED reply
  /\ UNCHANGED <<installed, files, daemons, requests, cpc, clients, target, hasOwner>>

(* listener.Close unlinks the path; Server.Close removes the path again,   *)
(* then the owner file if it is its own; then main returns.                *)
ListenerUnlinks(d) ==
  /\ Advance(d, "cancelled", "closed")
  /\ socket' = None
  /\ UNCHANGED <<installed, lock, owner, spawned, crashes, daemonBinary, running, downState,
                 mail, cpc, clients, target, reply, hasOwner>>

CloseRemovesSocket(d) ==
  /\ Advance(d, "closed", "unowned")
  /\ socket' = None
  /\ UNCHANGED <<installed, lock, owner, spawned, crashes, daemonBinary, running, downState,
                 mail, cpc, clients, target, reply, hasOwner>>

CloseRemovesOwner(d) ==
  /\ Advance(d, "unowned", "exiting")
  /\ owner' = IF owner = d THEN None ELSE owner
  /\ UNCHANGED <<installed, lock, socket, spawned, crashes, daemonBinary, running, downState,
                 mail, cpc, clients, target, reply, hasOwner>>

Exit(d) ==
  /\ dpc[d] = "exiting"
  /\ Ends(d)
  /\ UNCHANGED <<installed, files, spawned, crashes, daemonBinary, downState, cpc, clients,
                 target, hasOwner>>

-----------------------------------------------------------------------------
(* Environment.                                                            *)

(* The VM kills a daemon.                                                  *)
Crash(d) ==
  /\ crashes < MaxCrashes /\ Alive(d)
  /\ crashes' = crashes + 1
  /\ Ends(d)
  /\ UNCHANGED <<installed, files, spawned, daemonBinary, downState, cpc, clients, target,
                 hasOwner>>

(* The bootstrap installs another binary.                                  *)
Upgrade ==
  /\ installed <= MaxUpgrades
  /\ installed' = installed + 1
  /\ UNCHANGED <<files, daemons, mail, cpc, clients, target, reply, hasOwner>>

-----------------------------------------------------------------------------
(* The specification.                                                      *)

ClientStep(c) ==
  \/ Lock(c) \/ Dial(c) \/ AskIdentity(c) \/ IdentityMatches(c) \/ IdentityStale(c)
  \/ AskDown(c) \/ DownAnswered(c) \/ SeesSocketGone(c) \/ SeesOwner(c)
  \/ GoneTimesOut(c) \/ Verify(c) \/ RemoveSocket(c) \/ RemoveOwner(c) \/ Spawn(c)
  \/ SocketReady(c) \/ AwaitTimesOut(c) \/ SendCommand(c) \/ CommandAnswered(c)

DaemonStep(d) ==
  \/ ServerDials(d) \/ ServerVerifies(d) \/ ServerRemovesSocket(d) \/ ServerListens(d)
  \/ ServerWritesOwner(d)
  \/ \E r \in requests[d] : Begin(d, r)
  \/ \E r \in running[d] : Finish(d, r)
  \/ \E a \in answers[d] : Answer(d, a)
  \/ ListenerUnlinks(d) \/ CloseRemovesSocket(d) \/ CloseRemovesOwner(d) \/ Exit(d)

Next ==
  \/ \E c \in Clients : Invoke(c) \/ ClientStep(c) \/ Interrupt(c)
  \/ \E d \in Daemons : DaemonStep(d) \/ Crash(d)
  \/ Upgrade

Spec == Init /\ [][Next]_vars
FairSpec ==
  /\ Spec
  /\ \A c \in Clients : WF_vars(ClientStep(c))
  /\ \A d \in Daemons : WF_vars(DaemonStep(d))

-----------------------------------------------------------------------------
(* Properties.                                                             *)

Requests == Clients \X {"identity", "stop", "down", "other"}
DPCs == {"none", "dial", "verify", "remove", "listen", "own", "serve", "cancelled", "closed",
         "unowned", "exiting", "dead"}
PCs  == {"idle", "lock", "dial", "askIdentity", "identity", "askDown", "down", "gone",
         "ownerGone", "verify", "unlink", "disown", "spawn", "await", "command", "sent", "done",
         "failed"}

(* The values the variables range over, for every operation of the client  *)
(* and of the server.                                                      *)
TypeOK ==
  /\ installed \in 1..(MaxUpgrades + 1)
  /\ lock \in Clients \cup {None}
  /\ socket \in Daemons \cup {None} /\ owner \in Daemons \cup {None}
  /\ spawned \in 0..Cardinality(Clients) /\ crashes \in 0..MaxCrashes
  /\ dpc \in [Daemons -> DPCs]
  /\ daemonBinary \in [Daemons -> 0..(MaxUpgrades + 1)]
  /\ requests \in [Daemons -> SUBSET Requests]
  /\ running \in [Daemons -> SUBSET Requests]
  /\ answers \in [Daemons -> SUBSET Requests]
  /\ \A d \in Daemons : Cardinality(running[d]) <= 1
  /\ downState \in [Daemons -> {"no", "ok", "failed"}]
  /\ cpc \in [Clients -> PCs]
  /\ clientBinary \in [Clients -> 0..(MaxUpgrades + 1)]
  /\ command \in [Clients -> {"down", "other"}]
  /\ target \in [Clients -> Daemons \cup {None}]
  /\ reply \in [Clients -> {"none", "ok", "error"}]
  /\ hasOwner \in [Clients -> BOOLEAN]

(* While every invocation waits for the daemon it has spawned, no daemon   *)
(* binds the socket before the last one has given up socket and owner      *)
(* file: EnsureDaemon's lock, its poll of the stale owner and both calls   *)
(* of verifySocketReplacement keep two servers apart.                      *)
OneServer ==
  Cardinality({d \in Daemons :
                 dpc[d] \in {"own", "serve", "cancelled", "closed", "unowned"}}) <= 1

(* A daemon that serves is the one both files name: no invocation and no   *)
(* closing daemon (listener.Close and Server.Close remove the path, not    *)
(* their own socket) has taken the socket or the owner file from it.       *)
ServingOwnsBoth ==
  \A d \in Daemons : dpc[d] = "serve" => socket = d /\ owner = d

(* When no daemon is left, the next invocation can start one: what is left *)
(* of the two files passes verifySocketReplacement.                        *)
Recoverable == (\A d \in Daemons : ~Alive(d)) => Replaceable

(* It is so in every order of slow daemons and interrupted invocations, as *)
(* long as no daemon is killed.                                            *)
RecoverableUnlessKilled == crashes = 0 => Recoverable

(* EnsureDaemon "reuses only a daemon launched by the same binary identity *)
(* and otherwise asks the stale daemon to shut down": an invocation asks   *)
(* only a daemon of another binary.                                        *)
CompatibleDaemonIsReused ==
  \A c \in Clients : cpc[c] = "down" => daemonBinary[target[c]] # clientBinary[c]

(* NewServer preserves a live socket: it disappears only when the daemon   *)
(* that bound it has been cancelled.                                       *)
LiveSocketIsKept ==
  Dialable /\ socket' # socket => dpc[socket] = "cancelled"
NewServerPreservesLiveSocket == [][LiveSocketIsKept]_vars

(* Every invocation returns, whatever daemons and other invocations do:    *)
(* the lock is released on every path, and every wait ends.                *)
ClientsFinish ==
  \A c \in Clients : cpc[c] # "idle" ~> cpc[c] \in {"done", "failed"}

(* A `down` that succeeded ends the daemon.                                *)
DownEndsDaemon ==
  \A c \in Clients :
    cpc[c] = "done" /\ command[c] = "down" 
      ~> \E d \in Daemons : target[c] = d /\ dpc[d] = "dead"

=============================================================================

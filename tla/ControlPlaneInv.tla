--------------------------- MODULE ControlPlaneInv ---------------------------
(***************************************************************************)
(* The inductive invariants of ControlPlane: what holds whatever the delays *)
(* and the interruptions are (Inv), and what the lock, the poll of the      *)
(* stale owner and the two calls of verifySocketReplacement guarantee while *)
(* nobody gives up waiting (PatientInv).  ControlPlaneProofs shows that     *)
(* they are inductive.                                                      *)
(***************************************************************************)
EXTENDS ControlPlane

(* Control points of EnsureDaemon between flock and the return.            *)
LockedPCs == {"dial", "askIdentity", "identity", "askDown", "down", "gone", "ownerGone",
              "verify", "unlink", "disown", "spawn", "await"}

(* Control points of an invocation that has spawned a daemon or never will. *)
SpentPCs == {"await", "command", "sent", "done", "failed"}
Spent == {c \in Clients : cpc[c] \in SpentPCs}

(* A daemon that has yet to bind the socket, and one that has files.       *)
StartingPCs == {"dial", "verify", "remove", "listen"}
BoundPCs    == {"own", "serve", "cancelled", "closed", "unowned"}
Starting(d) == dpc[d] \in StartingPCs
Bound(d)    == dpc[d] \in BoundPCs

(* Every daemon has an invocation of its own; the others do not exist yet. *)
SpawnInv ==
  /\ spawned <= Cardinality(Spent)
  /\ \A d \in Daemons : d > spawned => dpc[d] = "none"

(* Whoever is inside EnsureDaemon holds daemon.lock.                       *)
LockInv == \A c \in Clients : cpc[c] \in LockedPCs => lock = c

(* As long as nobody is killed, a daemon listens on a socket that is there: *)
(* who closes a listener removes the path.                                 *)
SocketInv == crashes = 0 /\ socket # None => Listening(socket)

Inv == TypeOK /\ SpawnInv /\ LockInv /\ SocketInv

-----------------------------------------------------------------------------
(* The patient control plane.                                              *)

NoServer == \A d \in Daemons : ~Bound(d)

(* A daemon that starts is the only one: the invocation that spawned it     *)
(* holds the lock, and there are neither files nor a server.               *)
StartingInv ==
  \A d \in Daemons : Starting(d) =>
    /\ socket = None /\ owner = None /\ NoServer
    /\ \E c \in Clients : cpc[c] = "await" /\ target[c] = d

(* The server is the one the files name, from its bind to its last unlink. *)
ServerInv ==
  /\ \A d, e \in Daemons : Bound(d) /\ Bound(e) => d = e
  /\ \A d \in Daemons :
       /\ dpc[d] = "own" => socket = d /\ owner = None
       /\ dpc[d] \in {"serve", "cancelled"} => socket = d /\ owner = d
       /\ dpc[d] \in {"closed", "unowned"} => socket = None /\ owner = d

(* An invocation that removes the files of a dead daemon has them to        *)
(* itself.                                                                 *)
TakeoverInv ==
  \A c \in Clients : cpc[c] \in {"unlink", "disown", "spawn"} =>
    /\ NoServer /\ \A d \in Daemons : ~Starting(d)
    /\ cpc[c] # "unlink" => socket = None
    /\ cpc[c] # "spawn" /\ owner # None => hasOwner[c]
    /\ cpc[c] = "spawn" => owner = None

PatientInv == StartingInv /\ ServerInv /\ TakeoverInv

=============================================================================

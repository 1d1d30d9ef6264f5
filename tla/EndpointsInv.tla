---------------------------- MODULE EndpointsInv ----------------------------
(***************************************************************************)
(* The inductive invariant of Endpoints: what lifecycleMu, endpointSyncMu   *)
(* and the order of Up's last steps guarantee a callback while others run.  *)
(* EndpointsProofs shows that it is inductive.                              *)
(***************************************************************************)
EXTENDS Endpoints

SyncPCs     == {"load", "save", "record"}
CallbackPCs == {"read", "sync"} \cup SyncPCs
StartPCs    == {"prepare", "probe", "notify"} \cup CallbackPCs

(* Thread x is Up, which calls the callback itself: no start surrounds it. *)
InUp(x) == x = Command /\ cmd = "up"

(* Thread x runs startReadyMode, the callback at its end included.         *)
Starting(x) == pc[x] \in StartPCs /\ ~InUp(x)

LockInv ==
  /\ \A x \in Threads : Starting(x) => lifecycleMu = x
  /\ \A x \in Threads : pc[x] \in SyncPCs => endpointSyncMu = x

(* Where the monitors are: those of Stopped tunnels are gone, and so is the *)
(* monitor of a tunnel that Restart starts again.                          *)
MonitorInv ==
  /\ \A t \in Tunnels : on[t] = t /\ pc[t] \in {"watch", "loop", "gone"} \cup StartPCs
  /\ cmd = "restart" /\ pc[Command] # "lock" => pc[on[Command]] = "gone"
  /\ pc[Command] = "stopped" \/ phase = "down" => \A t \in Tunnels : pc[t] = "gone"

(* Where the command is.                                                   *)
CommandInv ==
  /\ cmd = "none"    => pc[Command] = IF phase = "abandoned" THEN "stopped" ELSE "idle"
  /\ cmd = "up"      => pc[Command] \in {"collect", "publish", "abandon", "install",
                                         "callbacks"} \cup CallbackPCs
  /\ cmd = "restart" => pc[Command] \in {"lock"} \cup StartPCs
  /\ cmd = "down"    => pc[Command] \in {"lock", "stopped"}
  /\ phase = "new" <=> pc[Command] \in {"collect", "publish", "abandon"}
  /\ phase \in {"down", "abandoned"} => cmd = "none"
  /\ phase = "revived" => cmd \in {"none", "restart"}
  /\ pc[Command] # "collect" /\ cmd # "up" => todo = {}
  /\ pc[Command] \in {"publish", "abandon", "install"} => todo = {}

(* The callback is there from the end of `install` on.                     *)
CallbackInv ==
  /\ callback <=> phase \notin {"new", "abandoned"} /\ pc[Command] # "install"
  /\ ~callback => \A x \in Threads : pc[x] \notin CallbackPCs

(* PublicURL is empty or the URL of the process, but where a probe crossed *)
(* a Prepare; and a tunnel that has become Healthy has one.                *)
UrlInv ==
  /\ \A t \in Tunnels \ crossed : url[t] \in {NoURL, address[t]}
  /\ \A t \in healthy : pc[t] = "watch" => url[t] # NoURL
  /\ \A x \in Threads :
       Starting(x) /\ pc[x] \notin {"prepare", "probe"} => url[on[x]] # NoURL
  /\ \A t \in Tunnels : found[t] \subseteq printed[t] /\ NoURL \notin printed[t]

(* Once the callback is installed nobody misses a URL: one that has not    *)
(* been read yet is of a tunnel that Up is still to call back for, and a   *)
(* callback of a start has read its tunnel's.                              *)
SeenInv ==
  callback =>
    /\ \A t \in healthy \ crossed : pc[t] = "watch" =>
         \/ t \in todo
         \/ cmd = "up" /\ pc[Command] = "read" /\ on[Command] = t
         \/ seen[t] = address[t]
    /\ \A x \in Threads :
         Starting(x) /\ pc[x] \in {"sync"} \cup SyncPCs /\ on[x] \notin crossed =>
           seen[on[x]] = address[on[x]]

(* A callback of a start brings the tunnel's URL to the map.               *)
FreshInv ==
  \A x \in Threads : Starting(x) /\ on[x] \notin crossed =>
    /\ pc[x] = "sync" => current[x] = address[on[x]]
    /\ pc[x] \in SyncPCs => endpoints[on[x]] = address[on[x]]

(* Whoever holds endpointSyncMu has a copy of the map as it is.            *)
SyncInv ==
  /\ \A x \in Threads : pc[x] \in {"load", "save"} => copied[x] = endpoints
  /\ phase = "up" => \A x \in Threads :
       pc[x] = "record" => failed[x] \/ disk.endpoints = endpoints
  /\ pc[Command] = "publish" => disk.endpoints = published

Inv ==
  /\ TypeOK /\ LockInv /\ MonitorInv /\ CommandInv /\ CallbackInv /\ UrlInv
  /\ SeenInv /\ FreshInv /\ SyncInv /\ DivergenceIsReported

=============================================================================

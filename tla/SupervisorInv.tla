---------------------------- MODULE SupervisorInv ----------------------------
(***************************************************************************)
(* The inductive invariant of the Supervisor: why the handle map, the      *)
(* generations and lifecycleMu together keep one thread in charge of each  *)
(* service and one process behind it.  SupervisorProofs shows that it is   *)
(* inductive; the runs check it on small compositions.                     *)
(***************************************************************************)
EXTENDS Supervisor

Holding == {"record", "probe", "drop", "kill", "notify"}

(* lifecycleMu is held by whoever runs startReadyMode, except by StartAll, *)
(* and by Restart and StopAll while they stop a service.                   *)
LockInv ==
  /\ \A t \in Handles : pc[t] \in FramePCs <=> lifecycleMu = t
  /\ lifecycleMu = Command <=>
       \/ pc[Command] \in {"stop", "cleanup"}
       \/ cmd = "Restart" /\ pc[Command] \in FramePCs

(* Where the command goroutine can be.                                     *)
CommandInv ==
  /\ pc[Command] \in FramePCs \cup {"idle", "lock", "stop", "cleanup"}
  /\ cmd = "none" <=> pc[Command] = "idle"
  /\ cmd = "StartAll" <=> phase = "starting"
  /\ cmd = "StartAll" => pc[Command] \in FramePCs /\ svc[Command] = order[cursor]
  /\ cmd = "StopAll" => pc[Command] \in {"lock", "stop", "cleanup"}
  /\ cmd = "StopAll" /\ pc[Command] = "lock" => cursor = Count
  /\ cmd = "Restart" => phase \in {"up", "revived"}
  /\ cmd = "StopAll" /\ pc[Command] # "lock" => svc[Command] = order[cursor]
  /\ phase = "new" => cmd = "none" /\ cursor = 0
  /\ pc[Command] \in {"stop", "cleanup"} => state[svc[Command]] = "stopped"

(* Where a monitor can be.  Its generation is one its service has reached, *)
(* and it starts a process only while that generation is current.          *)
MonitorInv ==
  \A t \in Handles :
    /\ pc[t] \notin {"stop", "cleanup"}
    /\ t > started => pc[t] = "idle" /\ gen[t] = 0
    /\ pc[t] = "watch" => h[t] = t
    /\ gen[t] <= generation[svc[t]]
    /\ pc[t] \in FramePCs => IsGenerationCurrent(t)

(* The handles in the map and in the threads' hands are processes of the   *)
(* service they are kept for.                                              *)
HandleInv ==
  /\ \A s \in Services :
       handles[s] # NoHandle => handles[s] <= started /\ svc[handles[s]] = s
  /\ \A t \in Threads : pc[t] \in Holding =>
       h[t] \in 1..started /\ svc[h[t]] = svc[t] /\ pc[h[t]] = "idle"
  /\ pc[Command] = "stop" /\ h[Command] # NoHandle =>
       h[Command] <= started /\ svc[h[Command]] = svc[Command]

(* What StartAll has not reached yet is untouched.                         *)
FreshInv ==
  /\ phase \in {"new", "starting"} =>
       \A i \in 1..Count : i > cursor =>
         /\ state[order[i]] = "absent" /\ handles[order[i]] = NoHandle
         /\ \A p \in 1..started : svc[p] # order[i]
  /\ cmd = "StartAll" =>
       \A p \in 1..started : svc[p] = svc[Command] =>
         pc[Command] \in Holding /\ p = h[Command]

(* What the thread in charge of a service knows of its entries.            *)
Entry(t, s, v, p) == state[s] = v /\ handles[s] = p
FrameInv ==
  \A t \in Threads :
    /\ pc[t] = "deps" =>
         /\ handles[svc[t]] = NoHandle
         /\ state[svc[t]] \in IF t = Command THEN {"absent", "stopped"} ELSE {"unhealthy"}
    /\ pc[t] \in {"launch", "record"} => Entry(t, svc[t], "starting", NoHandle)
    /\ pc[t] = "probe"  => Entry(t, svc[t], "starting", h[t])
    /\ pc[t] = "drop"   => Entry(t, svc[t], "unhealthy", h[t])
    /\ pc[t] = "kill"   => Entry(t, svc[t], "unhealthy", NoHandle)
    /\ pc[t] = "notify" => Entry(t, svc[t], "healthy", h[t])
RecoveryInv ==
  \A t \in Handles :
    /\ pc[t] = "watch" /\ handles[svc[t]] = t => state[svc[t]] = "healthy"
    /\ pc[t] \in {"loop", "backoff", "lock"} /\ IsGenerationCurrent(t) =>
         Entry(t, svc[t], "unhealthy", NoHandle)
    /\ pc[t] \in {"adopt", "rewatch"} /\ IsGenerationCurrent(t) =>
         Entry(t, svc[t], "healthy", h[t]) /\ h[t] # NoHandle

(* A Stopped service has no handle, and every monitor of it is stale.      *)
QuietInv ==
  \A s \in Services : state[s] = "stopped" =>
    /\ handles[s] = NoHandle
    /\ \A t \in Handles : svc[t] = s /\ pc[t] \in Recovering => ~IsGenerationCurrent(t)

(* StopAll leaves Stopped services behind it.                              *)
StopAllInv ==
  /\ cmd = "StopAll" /\ pc[Command] # "lock" =>
       \A i \in 1..Count : i >= cursor => state[order[i]] = "stopped"
  /\ cmd = "none" /\ phase \in {"down", "abandoned"} =>
       \A s \in Services : state[s] = "stopped"

(* Every live process is recorded, or held by the thread that will record  *)
(* or stop it, unless its Stop has failed.                                 *)
ProcessInv ==
  \A p \in Managed :
    \/ handles[svc[p]] = p
    \/ \E t \in Threads :
         h[t] = p /\ pc[t] \in {"record", "kill", "stop"} /\ svc[t] = svc[p]

Inv ==
  /\ TypeOK /\ (cmd \in {"StartAll", "StopAll"} => cursor \in 1..Count)
  /\ LockInv /\ CommandInv /\ MonitorInv /\ HandleInv /\ FreshInv /\ FrameInv
  /\ RecoveryInv /\ QuietInv /\ StopAllInv /\ OneSupervisor /\ ActiveIsSupervised
  /\ ProcessInv

-----------------------------------------------------------------------------
(* Why recovery is bounded.                                                *)

(* The processes of service s that were launched in its generation g.      *)
launched ==
  [s \in Services |-> [g \in Nat |->
     Cardinality({q \in 1..started : svc[q] = s /\ born[q] = g})]]

(* A monitor that goes on recovering has some of its budget left.          *)
RestartsInv ==
  \A t \in Handles :
    /\ pc[t] \in {"idle", "watch", "done"} => restarts[t] = 0
    /\ pc[t] = "loop" => restarts[t] <= MaxRestarts
    /\ pc[t] \in Recovering \ {"loop"} => restarts[t] < MaxRestarts

(* A process belongs to a generation its service has reached.              *)
BornInv == \A p \in 1..started : born[p] <= generation[svc[p]]

(* What the thread in charge of a service has launched in the current      *)
(* generation: the command at most one process, for which it spawns the    *)
(* monitor; the monitor one more for each turn of its loop.                *)
Spent(t) ==
  IF t = Command THEN IF pc[t] \in Holding THEN 1 ELSE 0
  ELSE IF pc[t] \in Holding \cup {"adopt", "rewatch"} THEN 2 + restarts[t]
  ELSE 1 + restarts[t]

SpentInv ==
  /\ \A t \in Threads : \A s \in Services :
       InCharge(t, s) => launched[s][generation[s]] <= Spent(t)
  /\ pc[Command] \in {"stop", "cleanup"} =>
       launched[svc[Command]][generation[svc[Command]]] = 0

BudgetInv == RestartsInv /\ BornInv /\ SpentInv /\ LaunchesWithinBudget

-----------------------------------------------------------------------------
(* The abstract view.                                                      *)

(* The services that have a process, one that could not be stopped aside.  *)
Running == {s \in Services : LiveProcesses(s) # {}}

Lifecycle == INSTANCE ServiceLifecycle WITH running <- Running

(* The Manager implements the lifecycle every service is promised.         *)
ImplementsLifecycle == Lifecycle!Spec

=============================================================================

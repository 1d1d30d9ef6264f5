------------------------------ MODULE Supervisor ------------------------------
(***************************************************************************)
(* The service supervisor, internal/supervisor/manager.go: one Manager from *)
(* NewManager on.  It starts the services of a composition in dependency    *)
(* order, watches each process it started, restarts a process that died a   *)
(* bounded number of times, and stops everything in reverse order.          *)
(*                                                                          *)
(* Threads.  Thread 0 is the goroutine that runs a control command; the     *)
(* daemon serializes commands (cmd/colabnomad/main.go, serializedHandler),  *)
(* so there is one.  Thread p > 0 is the goroutine `go m.monitor(..., h)`   *)
(* that startReadyMode spawns for the process handle numbered p.            *)
(*                                                                          *)
(* Processes.  The runner hands out handle 1, 2, 3, ...; a handle is never  *)
(* reused, as a *osProcessHandle is not.                                    *)
(*                                                                          *)
(* Atomicity.  One action is one critical section of m.mu, or one call that *)
(* leaves the Manager (Prepare, runner.Start, Stop, Cleanup), together with *)
(* the thread-local code around it.  lifecycleMu is a variable, because it  *)
(* is held across such calls.                                               *)
(***************************************************************************)
EXTENDS Integers, FiniteSets

CONSTANTS
  Services,     (* names of the composed services                          *)
  Deps,         (* Deps[s]: the services Dependencies() of s returns       *)
  MaxRestarts,  (* policy.MaxRestarts                                      *)
  MaxProcs,     (* bound: processes one Manager starts                     *)
  MaxCommands,  (* bound: Restart commands a user issues                   *)
  StopMayFail   (* whether ProcessHandle.Stop may return an error          *)

Count == Cardinality(Services)

(* What topologicalOrder may return: map iteration makes every order in    *)
(* which a service follows its dependencies possible.                      *)
Orders ==
  {o \in [1..Count -> Services] :
     /\ \A s \in Services : \E i \in 1..Count : o[i] = s
     /\ \A i, j \in 1..Count : o[i] = o[j] => i = j
     /\ \A i \in 1..Count : \A d \in Deps[o[i]] : \E j \in 1..(i-1) : o[j] = d}

ASSUME SupervisorAssumption ==
  /\ Services # {} /\ IsFiniteSet(Services)
  /\ Deps \in [Services -> SUBSET Services]
  /\ MaxRestarts \in Nat /\ MaxProcs \in Nat /\ MaxCommands \in Nat
  /\ StopMayFail \in BOOLEAN

(* A composition has no dependency cycle and no unknown dependency.        *)
ASSUME AcyclicAssumption == Orders # {}

Command  == 0
NoHandle == 0
NoThread == -1
Handles  == 1..MaxProcs
Threads  == {Command} \cup Handles

VARIABLES
  state,        (* m.state; "absent" where the map has no entry            *)
  handles,      (* m.handles; NoHandle where the map has no entry          *)
  generation,   (* m.generation                                            *)
  lifecycleMu,  (* the thread that holds m.lifecycleMu, or NoThread        *)
  order,        (* m.order                                                 *)
  started,      (* processes the runner has started                        *)
  alive,        (* those that have not exited                              *)
  born,         (* history: generation of its service when p was started   *)
  unstopped,    (* history: processes whose Stop has failed                *)
  cancelled,    (* m.lifetime is done                                      *)
  cmd,          (* the command in progress                                 *)
  cursor,       (* its position in order                                   *)
  failed,       (* StopAll: an error was kept in `first`                   *)
  phase,        (* what the Runtime has done with the Manager              *)
  issued,       (* Restart commands issued                                 *)
  pc,           (* control point of each thread                            *)
  svc,          (* the service each thread works on                        *)
  h,            (* the process handle in its hands                         *)
  gen,          (* monitor: the generation it belongs to                   *)
  restarts,     (* monitor: loop variable `restart`                        *)
  unchecked     (* startReadyMode: dependencies still to be checked        *)

mgrVars  == <<state, handles, generation>>
procVars == <<started, alive, born, unstopped>>
cmdVars  == <<order, cancelled, cmd, cursor, failed, phase, issued>>
locals   == <<svc, h, gen, restarts, unchecked>>
vars     == <<mgrVars, lifecycleMu, procVars, cmdVars, pc, locals>>

States   == {"absent", "stopped", "starting", "healthy", "unhealthy"}
FramePCs == {"deps", "launch", "record", "probe", "drop", "kill", "notify"}
PCs      == FramePCs \cup {"idle", "lock", "stop", "cleanup", "watch", "loop",
                           "backoff", "adopt", "rewatch", "done"}

Init ==
  /\ state = [s \in Services |-> "absent"]
  /\ handles = [s \in Services |-> NoHandle]
  /\ generation = [s \in Services |-> 0]
  /\ lifecycleMu = NoThread
  /\ order \in Orders
  /\ started = 0 /\ alive = {} /\ born = [p \in Handles |-> 0] /\ unstopped = {}
  /\ cancelled = FALSE
  /\ cmd = "none" /\ cursor = 0 /\ failed = FALSE
  /\ phase = "new" /\ issued = 0
  /\ pc = [t \in Threads |-> "idle"]
  /\ svc = [t \in Threads |-> order[1]]
  /\ h = [t \in Threads |-> NoHandle]
  /\ gen = [t \in Threads |-> 0]
  /\ restarts = [t \in Threads |-> 0]
  /\ unchecked = [t \in Threads |-> {}]

-----------------------------------------------------------------------------
(* Helpers.                                                                *)

Goto(t, from, to) == pc[t] = from /\ pc' = [pc EXCEPT ![t] = to]

SetState(s, v) == state' = [state EXCEPT ![s] = v]

IsGenerationCurrent(t) == generation[svc[t]] = gen[t]

(* Prepares thread t to run startReadyMode on service s.                   *)
EnterFrame(t, s) ==
  /\ svc' = [svc EXCEPT ![t] = s]
  /\ unchecked' = [unchecked EXCEPT ![t] = Deps[s]]
  /\ pc' = [pc EXCEPT ![t] = "deps"]

(* The goroutine ends, and its variables with it.                          *)
MonitorReturns(t) ==
  /\ pc' = [pc EXCEPT ![t] = "done"]
  /\ h' = [h EXCEPT ![t] = NoHandle]
  /\ gen' = [gen EXCEPT ![t] = 0]
  /\ restarts' = [restarts EXCEPT ![t] = 0]
  /\ UNCHANGED <<svc, unchecked>>

-----------------------------------------------------------------------------
(* Faults: mistakes the code could have made, one per operator.  Nothing   *)
(* below uses them; each is put in the place of the operator it is named   *)
(* after to see that the properties notice it.                             *)

(* Restart and StopAll forget to invalidate the generation, or rewind it.  *)
InvalidateKeepsGeneration(s) ==
  /\ h' = [h EXCEPT ![Command] = handles[s]]
  /\ handles' = [handles EXCEPT ![s] = NoHandle]
  /\ SetState(s, "stopped")
  /\ UNCHANGED generation

InvalidateRewinds(s) ==
  /\ h' = [h EXCEPT ![Command] = handles[s]]
  /\ handles' = [handles EXCEPT ![s] = NoHandle]
  /\ generation' = [generation EXCEPT ![s] = @ - 1]
  /\ SetState(s, "stopped")

(* Stop signals the process and does not wait for it.                      *)
StopSucceedsEarly(p) == UNCHANGED <<alive, unstopped>>

(* A failed recovery leaves lifecycleMu locked.                            *)
FrameFailsLocked(t) ==
  \/ /\ t # Command
     /\ pc' = [pc EXCEPT ![t] = "loop"]
     /\ restarts' = [restarts EXCEPT ![t] = @ + 1]
     /\ UNCHANGED <<lifecycleMu, cmd, cursor, phase>>
  \/ /\ t = Command
     /\ pc' = [pc EXCEPT ![t] = "idle"]
     /\ cmd' = "none" /\ phase' = IF cmd = "StartAll" THEN "abandoned" ELSE phase
     /\ lifecycleMu' = NoThread
     /\ UNCHANGED <<restarts, cursor>>

(* A successful recovery does.                                             *)
RecoveryReturnsLocked(t) ==
  /\ t # Command
  /\ Goto(t, "notify", "adopt")
  /\ UNCHANGED <<mgrVars, lifecycleMu, procVars, cmdVars, locals>>

(* The monitor does not compare the recorded process with its own.         *)
OwnsAnyService(t) == TRUE
OwnsNoService(t)  == FALSE

(* The restart budget is off by one.                                       *)
BeginBackoffOnceMore(t) ==
  /\ pc[t] = "loop" /\ restarts[t] <= MaxRestarts
  /\ \/ IsGenerationCurrent(t) /\ Goto(t, "loop", "backoff") /\ UNCHANGED locals
     \/ ~IsGenerationCurrent(t) /\ MonitorReturns(t)
  /\ UNCHANGED <<mgrVars, lifecycleMu, procVars, cmdVars>>

(* The last state of a recovery is written without looking at the          *)
(* generation.                                                             *)
SetUnhealthyAlways(t) == SetState(svc[t], "unhealthy")

(* startReadyMode does not look at the generation again under lifecycleMu. *)
RecoveryLocksUnchecked(t) ==
  /\ t # Command /\ pc[t] = "lock" /\ lifecycleMu = NoThread
  /\ lifecycleMu' = t
  /\ EnterFrame(t, svc[t])
  /\ UNCHANGED <<h, gen, restarts, mgrVars, procVars, cmdVars>>

-----------------------------------------------------------------------------
(* What several operations share.                                          *)

(* The first thing Restart and StopAll do to a service: forget its process *)
(* and invalidate the monitor of its generation.  The handle stays in the  *)
(* command's hands.                                                        *)
Invalidate(s) ==
  /\ h' = [h EXCEPT ![Command] = handles[s]]
  /\ handles' = [handles EXCEPT ![s] = NoHandle]
  /\ generation' = [generation EXCEPT ![s] = @ + 1]
  /\ SetState(s, "stopped")

(* h.Stop(0): SIGTERM, then SIGKILL, then wait for the exit.               *)
StopSucceeds(p) == alive' = alive \ {p} /\ UNCHANGED unstopped
StopFails(p) ==
  /\ StopMayFail /\ p \in alive
  /\ unstopped' = unstopped \cup {p}
  /\ UNCHANGED alive

(* startReadyMode returns an error.  A monitor counts the attempt and goes *)
(* on; StartAll gives up and calls StopAll; Restart returns.               *)
FrameFails(t) ==
  \/ /\ t # Command
     /\ pc' = [pc EXCEPT ![t] = "loop"]
     /\ restarts' = [restarts EXCEPT ![t] = @ + 1]
     /\ lifecycleMu' = NoThread
     /\ UNCHANGED <<cmd, cursor, phase>>
  \/ /\ t = Command /\ cmd = "StartAll"
     /\ pc' = [pc EXCEPT ![t] = "lock"]
     /\ cmd' = "StopAll" /\ cursor' = Count /\ phase' = "abandoned"
     /\ UNCHANGED <<restarts, lifecycleMu>>
  \/ /\ t = Command /\ cmd = "Restart"
     /\ pc' = [pc EXCEPT ![t] = "idle"]
     /\ cmd' = "none"
     /\ lifecycleMu' = NoThread
     /\ UNCHANGED <<restarts, cursor, phase>>

-----------------------------------------------------------------------------
(* Environment.                                                            *)

(* A managed process exits on its own, at any time.                        *)
ProcessExits(p) ==
  /\ p \in alive
  /\ alive' = alive \ {p}
  /\ UNCHANGED <<mgrVars, lifecycleMu, started, born, unstopped, cmdVars, pc, locals>>

-----------------------------------------------------------------------------
(* Commands.                                                               *)

(* Runtime.Up calls StartAllWithLifetime on a fresh Manager, without       *)
(* holding lifecycleMu.                                                    *)
StartAll ==
  /\ cmd = "none" /\ phase = "new"
  /\ cmd' = "StartAll" /\ cursor' = 1 /\ phase' = "starting"
  /\ EnterFrame(Command, order[1])
  /\ UNCHANGED <<mgrVars, lifecycleMu, procVars, order, cancelled, failed, issued,
                 h, gen, restarts>>

(* The Runtime could save its state and publishes the Manager.             *)
Publish ==
  /\ cmd = "none" /\ phase = "started"
  /\ phase' = "up"
  /\ UNCHANGED <<mgrVars, lifecycleMu, procVars, order, cancelled, cmd, cursor, failed,
                 issued, pc, locals>>

(* StopAll begins: from Up when the state could not be saved, or from Down *)
(* (once: downOnce).                                                       *)
StopAll ==
  /\ cmd = "none"
  /\ \/ phase = "started" /\ phase' = "abandoned"
     \/ phase = "up" /\ phase' = "down"
  /\ cmd' = "StopAll" /\ cursor' = Count /\ failed' = FALSE
  /\ Goto(Command, "idle", "lock")
  /\ UNCHANGED <<mgrVars, lifecycleMu, procVars, order, cancelled, issued, locals>>

(* A user restarts one service of a published Manager.  The command may    *)
(* also have been queued behind `down`.                                    *)
Restart(s) ==
  /\ cmd = "none" /\ phase \in {"up", "down", "revived"} /\ issued < MaxCommands
  /\ cmd' = "Restart" /\ issued' = issued + 1
  /\ phase' = IF phase = "down" THEN "revived" ELSE phase
  /\ svc' = [svc EXCEPT ![Command] = s]
  /\ Goto(Command, "idle", "lock")
  /\ UNCHANGED <<mgrVars, lifecycleMu, procVars, order, cancelled, cursor, failed,
                 h, gen, restarts, unchecked>>

RestartLocks ==
  /\ cmd = "Restart" /\ lifecycleMu = NoThread
  /\ lifecycleMu' = Command
  /\ Invalidate(svc[Command])
  /\ Goto(Command, "lock", "stop")
  /\ UNCHANGED <<procVars, cmdVars, svc, gen, restarts, unchecked>>

StopAllLocks ==
  /\ cmd = "StopAll" /\ lifecycleMu = NoThread
  /\ lifecycleMu' = Command
  /\ svc' = [svc EXCEPT ![Command] = order[cursor]]
  /\ Invalidate(order[cursor])
  /\ Goto(Command, "lock", "stop")
  /\ UNCHANGED <<procVars, cmdVars, gen, restarts, unchecked>>

(* `if h != nil { h.Stop(0) }` succeeds, or there was no process.          *)
StopService ==
  /\ Goto(Command, "stop", "cleanup")
  /\ StopSucceeds(h[Command])
  /\ UNCHANGED <<mgrVars, lifecycleMu, started, born, cmdVars, locals>>

(* Stop returns an error: Restart returns it; StopAll keeps the first one  *)
(* and goes on with Cleanup.                                               *)
StopServiceFails ==
  /\ pc[Command] = "stop" /\ StopFails(h[Command])
  /\ \/ /\ cmd = "Restart"
        /\ cmd' = "none" /\ lifecycleMu' = NoThread
        /\ pc' = [pc EXCEPT ![Command] = "idle"]
        /\ UNCHANGED failed
     \/ /\ cmd = "StopAll"
        /\ failed' = TRUE
        /\ pc' = [pc EXCEPT ![Command] = "cleanup"]
        /\ UNCHANGED <<cmd, lifecycleMu>>
  /\ UNCHANGED <<mgrVars, started, born, order, cancelled, cursor, phase, issued, locals>>

(* Restart: Cleanup, then startReady; or Cleanup's error is returned.      *)
RestartCleansUp ==
  /\ pc[Command] = "cleanup" /\ cmd = "Restart"
  /\ EnterFrame(Command, svc[Command])
  /\ UNCHANGED <<mgrVars, lifecycleMu, procVars, cmdVars, h, gen, restarts>>

RestartCleanupFails ==
  /\ cmd = "Restart" /\ cmd' = "none" /\ lifecycleMu' = NoThread
  /\ Goto(Command, "cleanup", "idle")
  /\ UNCHANGED <<mgrVars, procVars, order, cancelled, cursor, failed, phase, issued,
                 locals>>

(* StopAll: Cleanup (whose error is kept too), then the loop's next turn   *)
(* invalidates the service before it, or StopAll returns.  After a Down    *)
(* without error the daemon cancels the lifetime; Down itself may still    *)
(* fail after StopAll.                                                     *)
StopAllContinues ==
  /\ pc[Command] = "cleanup" /\ cmd = "StopAll" /\ cursor > 1
  /\ \E err \in BOOLEAN : failed' = (failed \/ err)
  /\ cursor' = cursor - 1
  /\ svc' = [svc EXCEPT ![Command] = order[cursor - 1]]
  /\ Invalidate(order[cursor - 1])
  /\ pc' = [pc EXCEPT ![Command] = "stop"]
  /\ UNCHANGED <<lifecycleMu, procVars, order, cancelled, cmd, phase, issued, gen,
                 restarts, unchecked>>

StopAllReturns ==
  /\ cmd = "StopAll" /\ cursor = 1
  /\ \E err \in BOOLEAN :
       /\ failed' = (failed \/ err)
       /\ cancelled' \in IF phase = "down" /\ ~failed' THEN BOOLEAN ELSE {cancelled}
  /\ cmd' = "none" /\ lifecycleMu' = NoThread
  /\ Goto(Command, "cleanup", "idle")
  /\ UNCHANGED <<mgrVars, procVars, order, cursor, phase, issued, locals>>

-----------------------------------------------------------------------------
(* startReadyMode, run by the command (StartAll, Restart) or a monitor.    *)

(* One turn of the dependency loop.                                        *)
CheckDependency(t) ==
  /\ pc[t] = "deps"
  /\ \E d \in unchecked[t] :
       /\ state[d] = "healthy"
       /\ unchecked' = [unchecked EXCEPT ![t] = @ \ {d}]
  /\ UNCHANGED <<mgrVars, lifecycleMu, procVars, cmdVars, pc, svc, h, gen, restarts>>

(* ctx is done, or a dependency is not healthy.  StartAll's context has a  *)
(* timeout, a monitor's is the lifetime, Restart's is never done.          *)
ContextDone(t) ==
  IF t = Command THEN cmd = "StartAll" ELSE cancelled

DependencyFails(t) ==
  /\ pc[t] = "deps" /\ unchecked[t] # {}
  /\ \/ ContextDone(t)
     \/ \E d \in unchecked[t] : state[d] # "healthy"
  /\ FrameFails(t)
  /\ UNCHANGED <<mgrVars, procVars, order, cancelled, failed, issued, svc, h, gen,
                 unchecked>>

(* Prepare succeeds and the state becomes Starting; or Prepare fails.      *)
Prepare(t) ==
  /\ unchecked[t] = {}
  /\ Goto(t, "deps", "launch")
  /\ SetState(svc[t], "starting")
  /\ UNCHANGED <<handles, generation, lifecycleMu, procVars, cmdVars, locals>>

PrepareFails(t) ==
  /\ pc[t] = "deps" /\ unchecked[t] = {}
  /\ FrameFails(t)
  /\ UNCHANGED <<mgrVars, procVars, order, cancelled, failed, issued, svc, h, gen,
                 unchecked>>

(* runner.Start returns a new process, or an error.                        *)
Launch(t) ==
  /\ started < MaxProcs
  /\ Goto(t, "launch", "record")
  /\ started' = started + 1
  /\ alive' = alive \cup {started + 1}
  /\ born' = [born EXCEPT ![started + 1] = generation[svc[t]]]
  /\ h' = [h EXCEPT ![t] = started + 1]
  /\ svc' = [svc EXCEPT ![started + 1] = svc[t]]
  /\ UNCHANGED <<mgrVars, lifecycleMu, unstopped, cmdVars, gen, restarts, unchecked>>

LaunchFails(t) ==
  /\ pc[t] = "launch"
  /\ SetState(svc[t], "unhealthy")
  /\ FrameFails(t)
  /\ UNCHANGED <<handles, generation, procVars, order, cancelled, failed, issued, svc, h,
                 gen, unchecked>>

(* handles[name] = h                                                       *)
RecordHandle(t) ==
  /\ Goto(t, "record", "probe")
  /\ handles' = [handles EXCEPT ![svc[t]] = h[t]]
  /\ UNCHANGED <<state, generation, lifecycleMu, procVars, cmdVars, locals>>

(* waitReady returns nil: a probe succeeded.  The process may have exited  *)
(* already: the select chooses among the ready channels at random.         *)
BecomeHealthy(t) ==
  /\ Goto(t, "probe", "notify")
  /\ SetState(svc[t], "healthy")
  /\ UNCHANGED <<handles, generation, lifecycleMu, procVars, cmdVars, locals>>

(* waitReady returns an error: the process exited, the readiness deadline  *)
(* passed, or the context is done.                                         *)
NotReady(t) ==
  /\ Goto(t, "probe", "drop")
  /\ SetState(svc[t], "unhealthy")
  /\ UNCHANGED <<handles, generation, lifecycleMu, procVars, cmdVars, locals>>

DropHandle(t) ==
  /\ Goto(t, "drop", "kill")
  /\ handles' = [handles EXCEPT ![svc[t]] = IF @ = h[t] THEN NoHandle ELSE @]
  /\ UNCHANGED <<state, generation, lifecycleMu, procVars, cmdVars, locals>>

(* `_ = h.Stop(0)`, then the error is returned.                            *)
KillUnready(t) ==
  /\ pc[t] = "kill"
  /\ StopSucceeds(h[t]) \/ StopFails(h[t])
  /\ FrameFails(t)
  /\ UNCHANGED <<mgrVars, started, born, order, cancelled, failed, issued, svc, h, gen,
                 unchecked>>

(* notifyHealthy returned.  A monitor's frame returns nil to it.           *)
RecoveryReturns(t) ==
  /\ t # Command
  /\ Goto(t, "notify", "adopt")
  /\ lifecycleMu' = NoThread
  /\ UNCHANGED <<mgrVars, procVars, cmdVars, locals>>

(* The command's frame spawns a monitor for the process and returns nil:   *)
(* Restart is done, StartAll goes on with the next service or is done.     *)
SpawnMonitor == pc[h[Command]] = "idle" /\ pc[Command] = "notify"

RestartReturns ==
  /\ SpawnMonitor /\ cmd = "Restart"
  /\ pc' = [pc EXCEPT ![Command] = "idle", ![h[Command]] = "watch"]
  /\ h' = [h EXCEPT ![h[Command]] = h[Command]]
  /\ cmd' = "none" /\ lifecycleMu' = NoThread
  /\ UNCHANGED <<mgrVars, procVars, order, cancelled, cursor, failed, phase, issued, svc,
                 gen, restarts, unchecked>>

StartAllContinues ==
  /\ SpawnMonitor /\ cmd = "StartAll" /\ cursor < Count
  /\ pc' = [pc EXCEPT ![Command] = "deps", ![h[Command]] = "watch"]
  /\ h' = [h EXCEPT ![h[Command]] = h[Command]]
  /\ cursor' = cursor + 1
  /\ svc' = [svc EXCEPT ![Command] = order[cursor + 1]]
  /\ unchecked' = [unchecked EXCEPT ![Command] = Deps[order[cursor + 1]]]
  /\ UNCHANGED <<mgrVars, lifecycleMu, procVars, order, cancelled, cmd, failed, phase,
                 issued, gen, restarts>>

StartAllReturns ==
  /\ SpawnMonitor /\ cmd = "StartAll" /\ cursor = Count
  /\ pc' = [pc EXCEPT ![Command] = "idle", ![h[Command]] = "watch"]
  /\ h' = [h EXCEPT ![h[Command]] = h[Command]]
  /\ cmd' = "none" /\ phase' = "started"
  /\ UNCHANGED <<mgrVars, lifecycleMu, procVars, order, cancelled, cursor, failed, issued,
                 svc, gen, restarts, unchecked>>

-----------------------------------------------------------------------------
(* monitor(ctx, name, service, h), run by thread t = h.                    *)

OwnsService(t) == handles[svc[t]] = h[t] /\ state[svc[t]] = "healthy"

(* Marks the death of the process t watches.                               *)
LoseProcess(t) ==
  /\ handles' = [handles EXCEPT ![svc[t]] = NoHandle]
  /\ SetState(svc[t], "unhealthy")
  /\ UNCHANGED generation

(* <-h.Done() of the process the monitor was spawned for.                  *)
NoticeExit(t) ==
  /\ pc[t] = "watch" /\ h[t] \notin alive
  /\ \/ /\ OwnsService(t) /\ LoseProcess(t)
        /\ Goto(t, "watch", "loop")
        /\ gen' = [gen EXCEPT ![t] = generation[svc[t]]]
        /\ UNCHANGED <<svc, h, restarts, unchecked>>
     \/ ~OwnsService(t) /\ MonitorReturns(t) /\ UNCHANGED mgrVars
  /\ UNCHANGED <<lifecycleMu, procVars, cmdVars>>

(* The head of the restart loop: begin a backoff, leave because the        *)
(* generation is stale, or give up because the budget is spent.            *)
BeginBackoff(t) ==
  /\ pc[t] = "loop" /\ restarts[t] < MaxRestarts
  /\ \/ IsGenerationCurrent(t) /\ Goto(t, "loop", "backoff") /\ UNCHANGED locals
     \/ ~IsGenerationCurrent(t) /\ MonitorReturns(t)
  /\ UNCHANGED <<mgrVars, lifecycleMu, procVars, cmdVars>>

(* setStateIfGenerationCurrent(name, generation, Unhealthy)                *)
SetUnhealthyIfCurrent(t) ==
  state' = IF IsGenerationCurrent(t) THEN [state EXCEPT ![svc[t]] = "unhealthy"]
           ELSE state

GiveUp(t) ==
  /\ pc[t] = "loop" /\ restarts[t] >= MaxRestarts
  /\ SetUnhealthyIfCurrent(t)
  /\ MonitorReturns(t)
  /\ UNCHANGED <<handles, generation, lifecycleMu, procVars, cmdVars>>

BackoffCancelled(t) ==
  /\ pc[t] = "backoff" /\ cancelled
  /\ SetUnhealthyIfCurrent(t)
  /\ MonitorReturns(t)
  /\ UNCHANGED <<handles, generation, lifecycleMu, procVars, cmdVars>>

BackoffExpires(t) ==
  /\ pc[t] = "backoff"
  /\ \/ IsGenerationCurrent(t) /\ Goto(t, "backoff", "lock") /\ UNCHANGED locals
     \/ ~IsGenerationCurrent(t) /\ MonitorReturns(t)
  /\ UNCHANGED <<mgrVars, lifecycleMu, procVars, cmdVars>>

(* startReadyMode(ctx, name, false, &generation) takes lifecycleMu and     *)
(* looks at the generation again.                                          *)
RecoveryLocks(t) ==
  /\ t # Command /\ pc[t] = "lock" /\ lifecycleMu = NoThread
  /\ \/ /\ IsGenerationCurrent(t)
        /\ lifecycleMu' = t
        /\ EnterFrame(t, svc[t])
        /\ UNCHANGED <<h, gen, restarts>>
     \/ ~IsGenerationCurrent(t) /\ MonitorReturns(t) /\ UNCHANGED lifecycleMu
  /\ UNCHANGED <<mgrVars, procVars, cmdVars>>

(* currentHandleForGeneration: go on with the process just started.        *)
AdoptHandle(t) ==
  /\ pc[t] = "adopt"
  /\ LET ok == /\ IsGenerationCurrent(t) /\ state[svc[t]] = "healthy"
               /\ handles[svc[t]] # NoHandle
     IN \/ /\ ok
           /\ h' = [h EXCEPT ![t] = handles[svc[t]]]
           /\ Goto(t, "adopt", "rewatch")
           /\ UNCHANGED <<svc, gen, restarts, unchecked>>
        \/ ~ok /\ MonitorReturns(t)
  /\ UNCHANGED <<mgrVars, lifecycleMu, procVars, cmdVars>>

(* <-next.Done()                                                           *)
NoticeNextExit(t) ==
  /\ pc[t] = "rewatch" /\ h[t] \notin alive
  /\ LET stillCurrent == IsGenerationCurrent(t) /\ OwnsService(t)
     IN \/ /\ stillCurrent /\ LoseProcess(t)
           /\ Goto(t, "rewatch", "loop")
           /\ restarts' = [restarts EXCEPT ![t] = @ + 1]
           /\ UNCHANGED <<svc, h, gen, unchecked>>
        \/ ~stillCurrent /\ MonitorReturns(t) /\ UNCHANGED mgrVars
  /\ UNCHANGED <<lifecycleMu, procVars, cmdVars>>

-----------------------------------------------------------------------------
(* The specification.                                                      *)

Frame(t) ==
  \/ CheckDependency(t) \/ DependencyFails(t) \/ Prepare(t) \/ PrepareFails(t)
  \/ Launch(t) \/ LaunchFails(t) \/ RecordHandle(t) \/ BecomeHealthy(t)
  \/ NotReady(t) \/ DropHandle(t) \/ KillUnready(t)

CommandStep ==
  \/ RestartLocks \/ StopAllLocks \/ StopService \/ StopServiceFails
  \/ RestartCleansUp \/ RestartCleanupFails \/ StopAllContinues \/ StopAllReturns
  \/ RestartReturns \/ StartAllContinues \/ StartAllReturns
  \/ Frame(Command)

MonitorStep(t) ==
  \/ NoticeExit(t) \/ BeginBackoff(t) \/ GiveUp(t) \/ BackoffCancelled(t)
  \/ BackoffExpires(t) \/ RecoveryLocks(t) \/ RecoveryReturns(t) \/ AdoptHandle(t)
  \/ NoticeNextExit(t) \/ Frame(t)

Request == StartAll \/ Publish \/ StopAll \/ \E s \in Services : Restart(s)

Next ==
  \/ Request
  \/ CommandStep
  \/ \E t \in Handles : MonitorStep(t)
  \/ \E p \in Handles : ProcessExits(p)

Fairness == WF_vars(CommandStep) /\ \A t \in Handles : WF_vars(MonitorStep(t))

Spec == Init /\ [][Next]_vars
FairSpec == Spec /\ Fairness

-----------------------------------------------------------------------------
(* Types.                                                                  *)

Commands == {"none", "StartAll", "Restart", "StopAll"}
Phases   == {"new", "starting", "started", "up", "down", "revived", "abandoned"}

(* Every variable holds a value of its kind.                               *)
TypeOK ==
  /\ state \in [Services -> States]
  /\ handles \in [Services -> {NoHandle} \cup Handles]
  /\ generation \in [Services -> Nat]
  /\ lifecycleMu \in Threads \cup {NoThread}
  /\ order \in Orders
  /\ started \in 0..MaxProcs /\ alive \subseteq 1..started
  /\ born \in [Handles -> Nat] /\ unstopped \subseteq 1..started
  /\ cancelled \in BOOLEAN /\ failed \in BOOLEAN
  /\ cmd \in Commands /\ cursor \in 0..Count
  /\ phase \in Phases /\ issued \in 0..MaxCommands
  /\ pc \in [Threads -> PCs]
  /\ svc \in [Threads -> Services]
  /\ h \in [Threads -> {NoHandle} \cup Handles]
  /\ gen \in [Threads -> Nat]
  /\ restarts \in [Threads -> Nat]
  /\ unchecked \in [Threads -> SUBSET Services]

-----------------------------------------------------------------------------
(* Safety.  A Stop that fails leaves behind a process whose handle the     *)
(* Manager has forgotten already; what is said of processes is said of the *)
(* others.                                                                 *)

Managed == alive \ unstopped
LiveProcesses(s) == {p \in Managed : svc[p] = s}

(* A service never has two processes, whatever recoveries, Restart and     *)
(* StopAll are in progress: the one being replaced is gone before the next *)
(* one is launched (startReadyMode, Restart, monitor).                     *)
OneLiveProcess == \A p, q \in Managed : svc[p] = svc[q] => p = q

(* Nothing but a failed Stop leaks a process: one that lives is in the     *)
(* handle map, where StopAll and ServicePID find it, or in the hands of    *)
(* the thread that is about to record it or to stop it.                    *)
NoOrphan ==
  \A p \in Managed :
    \/ handles[svc[p]] = p
    \/ \E t \in Threads : h[t] = p /\ pc[t] \in {"record", "kill", "stop"}

(* Thread t is the one in charge of service s: it runs startReadyMode for  *)
(* s, or it is the monitor whose process is the recorded one, or the       *)
(* monitor that recovers s in the current generation.                      *)
Recovering == FramePCs \cup {"loop", "backoff", "lock", "adopt", "rewatch"}
InCharge(t, s) ==
  /\ svc[t] = s
  /\ \/ pc[t] \in FramePCs
     \/ pc[t] = "watch" /\ handles[s] = t
     \/ t # Command /\ pc[t] \in Recovering /\ IsGenerationCurrent(t)

(* No two threads are ever in charge of one service: a Restart's new       *)
(* monitor and a monitor of an earlier generation do not both recover it.  *)
OneSupervisor ==
  \A t, u \in Threads : \A s \in Services :
    InCharge(t, s) /\ InCharge(u, s) => t = u

(* A service reported Healthy has a recorded process, and some thread      *)
(* waits, or is about to wait, for that very process to exit; one reported *)
(* Starting is being started.  No service is left in an active state with  *)
(* nobody in charge.                                                       *)
Supervised(s) ==
  /\ state[s] = "healthy" =>
       /\ handles[s] # NoHandle
       /\ \E t \in Threads : /\ InCharge(t, s) /\ h[t] = handles[s]
                            /\ pc[t] \in {"notify", "adopt", "watch", "rewatch"}
  /\ state[s] = "starting" =>
       \E t \in Threads : InCharge(t, s) /\ pc[t] \in {"launch", "record", "probe"}

ActiveIsSupervised == \A s \in Services : Supervised(s)

(* Automatic recovery is bounded: between two commands that touch it, a    *)
(* service is launched at most 1 + MaxRestarts times, even though every    *)
(* launch may leave a monitor with a budget of its own.                    *)
LaunchesWithinBudget ==
  \A p \in 1..started :
    Cardinality({q \in 1..started : svc[q] = svc[p] /\ born[q] = born[p]})
      <= MaxRestarts + 1

(* When StopAll stops a service, everything that depends on it is Stopped  *)
(* and has no process, and no recovery has brought it back: public tunnels *)
(* disappear before their local services.                                  *)
StopsDependentsFirst ==
  cmd = "StopAll" /\ pc[Command] = "stop" =>
    \A u \in Services : svc[Command] \in Deps[u] =>
      state[u] = "stopped" /\ LiveProcesses(u) = {}

(* Once StopAll has returned (Down, or an Up that gave up) and until a     *)
(* queued Restart revives something, every service is Stopped, and no      *)
(* process runs that could be stopped: recoveries that were in backoff, or *)
(* waiting for lifecycleMu, change nothing any more.                       *)
DownStopsEverything ==
  cmd = "none" /\ phase \in {"down", "abandoned"} =>
    /\ Managed = {}
    /\ \A s \in Services : state[s] = "stopped" /\ handles[s] = NoHandle

(* A Stopped service leaves that state only through a command that starts  *)
(* it: a monitor of a generation that Restart or StopAll has ended never   *)
(* writes its state again.                                                 *)
StoppedStaysStopped ==
  [][\A s \in Services : state[s] = "stopped" /\ state'[s] # "stopped" =>
       pc[Command] \in FramePCs /\ svc[Command] = s]_vars

-----------------------------------------------------------------------------
(* Liveness.                                                               *)

(* Every command returns: StartAll, Restart and StopAll get lifecycleMu    *)
(* although recoveries hold it across Prepare, Start and waitReady.        *)
CommandsReturn == cmd # "none" ~> cmd = "none"

(* The exit of a Healthy service's process is noticed: the service does    *)
(* not stay Healthy with a dead process.                                   *)
ExitIsNoticed ==
  \A s \in Services :
    state[s] = "healthy" /\ handles[s] \notin alive
      ~> state[s] # "healthy" \/ handles[s] \in alive

(* A recovery comes to an end: its monitor watches a new process, or it    *)
(* has given up.                                                           *)
RecoverySettles ==
  \A t \in Handles :
    pc[t] \in {"loop", "backoff", "lock"} ~> pc[t] \in {"rewatch", "done"}

=============================================================================

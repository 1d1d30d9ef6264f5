---------------------------- MODULE SupervisorSafety ----------------------------
(***************************************************************************)
(* Inv is inductive, and what it implies: the safety properties of the     *)
(* Supervisor for every composition, restart budget and number of commands.*)
(*                                                                          *)
(* First come the steps that need an argument of their own, then one lemma *)
(* per conjunct of Inv that goes through the actions, then the theorems.   *)
(***************************************************************************)
EXTENDS SupervisorInv, SupervisorProofs

(* Thread 0 is the command, and it is not a process handle.                *)
LEMMA ThreadFacts ==
  /\ Threads = {Command} \cup Handles
  /\ Command \notin Handles /\ NoHandle \notin Handles /\ NoThread \notin Threads
  /\ \A p \in Handles : p \in Int
BY SupervisorAssumption DEF Threads, Command, NoHandle, NoThread, Handles
(* The processes started are handles.                                      *)
LEMMA StartedFacts ==
  ASSUME TypeOK
  PROVE  /\ 1..started \subseteq Handles /\ started \in Nat
         /\ \A p \in Handles : p \in 1..started \/ p > started
BY SupervisorAssumption DEF TypeOK, Handles
(* An order lists every service, once.                                     *)
LEMMA OrderFacts ==
  ASSUME NEW o \in Orders
  PROVE
   /\ \A i \in 1..Count : o[i] \in Services
   /\ \A s \in Services : \E i \in 1..Count : o[i] = s
   /\ \A i, j \in 1..Count : o[i] = o[j] => i = j
BY DEF Orders

(* A monitor that has begun is not one of a service StartAll has yet to start. *)
LEMMA BusyIsNotFresh ==
  ASSUME Inv, NEW t \in Handles, pc[t] # "idle"
  PROVE  /\ t \in 1..started
         /\ phase \in {"new", "starting"} =>
              \A i \in 1..Count : i > cursor => svc[t] # order[i]
         /\ cmd = "StartAll" => svc[t] # svc[Command]
<1>1. t \in 1..started
  BY StartedFacts DEF Inv, MonitorInv
<1> QED
  BY <1>1, ThreadFacts DEF Inv, FreshInv, HandleInv, Holding, TypeOK

(* A launch leaves the monitors where they were.                           *)
LEMMA LaunchMonitors ==
  ASSUME Inv, TypeOK', NEW t \in Threads, Launch(t) PROVE MonitorInv'
<1>1. started + 1 \in Handles /\ started' = started + 1 /\ started \in Nat
  BY SupervisorAssumption DEF Launch, Inv, TypeOK, Handles
<1>2. pc[started + 1] = "idle" /\ gen[started + 1] = 0 /\ started + 1 # t
  BY <1>1 DEF Inv, MonitorInv, Launch, Goto
<1>3. generation[svc[t]] \in Nat
  BY DEF Inv, TypeOK
<1>4. \A u \in Handles : u # started + 1 => svc'[u] = svc[u]
  BY ThreadFacts, <1>1 DEF Launch, Inv, TypeOK
<1>5. svc'[started + 1] = svc[t] /\ h'[t] = started + 1
  BY ThreadFacts, <1>1 DEF Launch, Inv, TypeOK
<1>6. UNCHANGED <<gen, generation>> /\ pc' = [pc EXCEPT ![t] = "record"] /\ pc[t] = "launch"
  BY DEF Launch, Goto, mgrVars, locals
<1>7. \A u \in Handles : u # t => h'[u] = h[u] /\ pc'[u] = pc[u]
  BY ThreadFacts, <1>6 DEF Launch, Inv, TypeOK
<1>8. t \in Handles => pc'[t] = "record" /\ t <= started /\ gen[t] = generation[svc[t]]
  BY ThreadFacts, StartedFacts, <1>6, <1>1
     DEF Inv, MonitorInv, FramePCs, IsGenerationCurrent, TypeOK
<1> SUFFICES ASSUME NEW u \in Handles
             PROVE  /\ pc'[u] \notin {"stop", "cleanup"}
                    /\ u > started' => pc'[u] = "idle" /\ gen'[u] = 0
                    /\ pc'[u] = "watch" => h'[u] = u
                    /\ gen'[u] <= generation'[svc'[u]]
                    /\ pc'[u] \in FramePCs => IsGenerationCurrent(u)'
  BY DEF MonitorInv
<1> USE DEF Inv, MonitorInv, FramePCs, IsGenerationCurrent
<1>9. CASE u = started + 1
  BY <1>1, <1>2, <1>3, <1>5, <1>6, <1>7, <1>9 DEF Handles
<1>10. CASE u = t
  BY <1>1, <1>2, <1>3, <1>4, <1>6, <1>8, <1>10 DEF Handles
<1>11. CASE u # t /\ u # started + 1
  BY <1>1, <1>4, <1>6, <1>7, <1>11, ThreadFacts
<1> QED
  BY <1>9, <1>10, <1>11

(* A launch starts only the service StartAll has reached.                  *)
LEMMA LaunchFresh == ASSUME Inv, TypeOK', NEW t \in Threads, Launch(t) PROVE FreshInv'
<1>1. started + 1 \in Handles /\ started' = started + 1 /\ started \in Nat
  BY SupervisorAssumption DEF Launch, Inv, TypeOK, Handles
<1>2. pc[started + 1] = "idle" /\ started + 1 # t /\ started + 1 # Command
  BY <1>1, ThreadFacts DEF Inv, MonitorInv, Launch, Goto
<1>3. /\ \A p \in Threads : p # started + 1 => svc'[p] = svc[p]
      /\ svc'[started + 1] = svc[t] /\ h'[t] = started + 1
      /\ \A p \in 1..started' : p = started + 1 \/ p \in 1..started
      /\ 1..started \subseteq Threads
  BY ThreadFacts, StartedFacts, <1>1 DEF Launch, Inv, TypeOK
<1>4. UNCHANGED <<state, handles, order, phase, cmd, cursor>> /\ pc[t] = "launch"
      /\ pc' = [pc EXCEPT ![t] = "record"]
  BY DEF Launch, Goto, mgrVars, cmdVars
<1>5. t \in Handles => (cmd = "StartAll" => svc[t] # svc[Command])
  BY <1>4, BusyIsNotFresh
<1>6. phase \in {"new", "starting"} =>
         \A i \in 1..Count : i > cursor => svc[t] # order[i]
  <2>1. CASE t \in Handles
    BY <2>1, <1>4, BusyIsNotFresh
  <2>2. CASE t = Command
    BY <2>2, <1>4, OrderFacts, CountType DEF Inv, CommandInv, FramePCs, TypeOK
  <2> QED
    BY <2>1, <2>2, ThreadFacts
<1>7. ASSUME phase \in {"new", "starting"}, NEW i \in 1..Count, i > cursor
      PROVE  /\ state[order[i]] = "absent" /\ handles[order[i]] = NoHandle
             /\ \A p \in 1..started' : svc'[p] # order[i]
  BY <1>1, <1>3, <1>6, <1>7 DEF Inv, FreshInv
<1>8. ASSUME cmd = "StartAll", NEW p \in 1..started', svc'[p] = svc'[Command]
      PROVE  pc'[Command] \in Holding /\ p = h'[Command]
  <2>1. svc'[Command] = svc[Command]
    BY <1>2, <1>3, ThreadFacts
  <2>2. CASE t = Command
    BY <1>1, <1>2, <1>3, <1>4, <1>8, <2>1, <2>2 DEF Inv, FreshInv, Holding, TypeOK
  <2>3. CASE t # Command
    <3>1. p \in 1..started
      BY <1>3, <1>5, <1>8, <2>1, <2>3, ThreadFacts
    <3>2. pc'[Command] = pc[Command] /\ h'[Command] = h[Command]
      BY <2>3, <1>4, ThreadFacts DEF Launch, Inv, TypeOK
    <3>3. svc[p] = svc[Command]
      BY <3>1, <1>1, <1>3, <1>8, <2>1
    <3> QED
      BY <3>1, <3>2, <3>3, <1>8 DEF Inv, FreshInv
  <2> QED
    BY <2>2, <2>3
<1> QED
  BY <1>4, <1>7, <1>8 DEF FreshInv

(* A monitor that gives up is one of a service StartAll has started.       *)
LEMMA GiveUpFresh == ASSUME Inv, TypeOK', NEW t \in Handles, GiveUp(t) PROVE FreshInv'
<1>1. pc[t] = "loop"
  BY DEF GiveUp
<1>2. UNCHANGED <<handles, order, phase, cmd, cursor, started, svc>>
      /\ pc'[Command] = pc[Command] /\ h'[Command] = h[Command]
      /\ \A s \in Services : s # svc[t] => state'[s] = state[s]
  BY ThreadFacts
     DEF GiveUp, SetUnhealthyIfCurrent, MonitorReturns, cmdVars, procVars, Inv, TypeOK
<1> QED
  BY <1>1, <1>2, BusyIsNotFresh, OrderFacts DEF FreshInv, Inv, TypeOK

(* A step that leaves alone service r and the thread in charge of it.      *)
LEMMA OthersSupervised ==
  ASSUME Inv, NEW r \in Services,
         state'[r] = state[r], handles'[r] = handles[r], generation'[r] = generation[r],
         \A u \in Threads : InCharge(u, r) =>
           svc'[u] = svc[u] /\ pc'[u] = pc[u] /\ h'[u] = h[u] /\ gen'[u] = gen[u]
  PROVE  Supervised(r)'
<1>1. \A u \in Threads : InCharge(u, r) => InCharge(u, r)'
  BY DEF InCharge, IsGenerationCurrent
<1> QED
  BY <1>1 DEF Inv, ActiveIsSupervised, Supervised

(* Then the frame is at notifyHealthy.                                     *)
LEMMA BecomeHealthySupervised ==
  ASSUME Inv, TypeOK', NEW t \in Threads, BecomeHealthy(t) PROVE ActiveIsSupervised'
<1> USE DEF Inv, TypeOK
<1>1. /\ UNCHANGED <<handles, generation, svc, h, gen>>
      /\ pc' = [pc EXCEPT ![t] = "notify"] /\ state' = [state EXCEPT ![svc[t]] = "healthy"]
      /\ pc[t] = "probe"
  BY DEF BecomeHealthy, Goto, SetState, locals
<1>2. ASSUME NEW r \in Services, r # svc[t] PROVE Supervised(r)'
  <2>1. \A u \in Threads : InCharge(u, r) => u # t
    BY <1>2 DEF InCharge
  <2> QED
    BY <1>1, <1>2, <2>1, OthersSupervised
<1>3. ASSUME NEW r \in Services, r = svc[t] PROVE Supervised(r)'
  <2>1. handles[svc[t]] = h[t] /\ h[t] # NoHandle
    BY <1>1, ThreadFacts, StartedFacts DEF FrameInv, HandleInv, Holding, Entry
  <2> QED
    BY <1>1, <1>3, <2>1 DEF Supervised, InCharge, FramePCs
<1> QED
  BY <1>2, <1>3 DEF ActiveIsSupervised

(* Then the frame holds the new process.                                   *)
LEMMA LaunchSupervised ==
  ASSUME Inv, TypeOK', NEW t \in Threads, Launch(t) PROVE ActiveIsSupervised'
<1> USE DEF Inv, TypeOK
<1>1. started + 1 \in Handles /\ pc[started + 1] = "idle"
  BY SupervisorAssumption DEF Launch, Handles, MonitorInv
<1>2. /\ UNCHANGED <<state, handles, generation, gen>> /\ pc' = [pc EXCEPT ![t] = "record"]
      /\ pc[t] = "launch" /\ started + 1 # t
      /\ \A u \in Threads : u # t => h'[u] = h[u]
      /\ \A u \in Threads : u # started + 1 => svc'[u] = svc[u]
  BY <1>1, ThreadFacts DEF Launch, Goto, mgrVars
<1>3. ASSUME NEW r \in Services, r # svc[t] PROVE Supervised(r)'
  <2>1. \A u \in Threads : InCharge(u, r) => u # t /\ u # started + 1
    BY <1>1, <1>3, ThreadFacts DEF InCharge, FramePCs, Recovering
  <2> QED
    BY <1>2, <1>3, <2>1, OthersSupervised
<1>4. ASSUME NEW r \in Services, r = svc[t] PROVE Supervised(r)'
  BY <1>2, <1>4 DEF Supervised, InCharge, FramePCs, FrameInv, Entry
<1> QED
  BY <1>3, <1>4 DEF ActiveIsSupervised

(* The service was Unhealthy.                                              *)
LEMMA RecoveryLocksSupervised ==
  ASSUME Inv, TypeOK', NEW t \in Handles, RecoveryLocks(t) PROVE ActiveIsSupervised'
<1> USE DEF Inv, TypeOK
<1>1. /\ UNCHANGED <<state, handles, generation>> /\ pc[t] = "lock" /\ t \in Threads
      /\ \A u \in Threads : u # t =>
           h'[u] = h[u] /\ svc'[u] = svc[u] /\ pc'[u] = pc[u] /\ gen'[u] = gen[u]
  BY ThreadFacts DEF RecoveryLocks, EnterFrame, MonitorReturns, mgrVars
<1>2. ASSUME NEW r \in Services, \A u \in Threads : InCharge(u, r) => u # t
      PROVE  Supervised(r)'
  BY <1>1, <1>2, OthersSupervised
<1>3. ASSUME NEW r \in Services, InCharge(t, r) PROVE Supervised(r)'
  BY <1>1, <1>3 DEF InCharge, FramePCs, RecoveryInv, Entry, Supervised
<1> QED
  BY <1>2, <1>3 DEF ActiveIsSupervised

(* Nothing was in charge of anything.                                      *)
LEMMA StartAllSupervised == ASSUME Inv, TypeOK', StartAll PROVE ActiveIsSupervised'
<1> USE DEF Inv, TypeOK
<1>1. /\ UNCHANGED <<state, handles, generation, h, gen>> /\ pc[Command] = "idle"
      /\ \A u \in Threads : u # Command => svc'[u] = svc[u] /\ pc'[u] = pc[u]
  BY ThreadFacts DEF StartAll, EnterFrame, mgrVars, CommandInv
<1>2. ASSUME NEW r \in Services PROVE Supervised(r)'
  <2>1. \A u \in Threads : InCharge(u, r) => u # Command
    BY <1>1, ThreadFacts DEF InCharge, FramePCs
  <2> QED
    BY <1>1, <2>1, OthersSupervised
<1> QED
  BY <1>2 DEF ActiveIsSupervised

(* A new monitor takes over from the command's frame.                      *)
LEMMA SpawnSupervised ==
  ASSUME Inv, SpawnMonitor,
         UNCHANGED <<state, handles, generation, gen>>,
         pc'[h[Command]] = "watch", h'[h[Command]] = h[Command],
         \A u \in Threads : u # Command => svc'[u] = svc[u],
         \A u \in Threads : u # Command /\ u # h[Command] => h'[u] = h[u] /\ pc'[u] = pc[u]
  PROVE  ActiveIsSupervised'
<1> USE DEF Inv, TypeOK
<1> DEFINE p == h[Command]
<1>1. /\ p \in Handles /\ p \in Threads /\ Command \in Threads /\ p # Command
      /\ pc[p] = "idle" /\ pc[Command] = "notify" /\ svc[p] = svc[Command]
  BY ThreadFacts, StartedFacts DEF SpawnMonitor, HandleInv, Holding
<1>2. ASSUME NEW r \in Services, r # svc[Command] PROVE Supervised(r)'
  <2>1. \A u \in Threads : InCharge(u, r) => u # Command /\ u # p
    BY <1>1, <1>2 DEF InCharge
  <2> QED
    BY <1>2, <2>1, OthersSupervised
<1>3. ASSUME NEW r \in Services, r = svc[Command] PROVE Supervised(r)'
  <2>1. handles[r] = p /\ state[r] = "healthy"
    BY <1>1, <1>3 DEF FrameInv, Entry
  <2>2. /\ svc'[p] = r /\ pc'[p] = "watch" /\ handles'[r] = p /\ h'[p] = p
        /\ p # NoHandle
    BY <1>1, <1>3, <2>1, ThreadFacts
  <2> QED
    BY <1>1, <2>1, <2>2 DEF Supervised, InCharge
<1> QED
  BY <1>2, <1>3 DEF ActiveIsSupervised

(* Restart leaves the service to its monitor.                              *)
LEMMA RestartReturnsSupervised ==
  ASSUME Inv, TypeOK', RestartReturns PROVE ActiveIsSupervised'
<1>1. h[Command] \in Handles /\ h[Command] # Command /\ Command \in Threads
  BY ThreadFacts, StartedFacts DEF RestartReturns, SpawnMonitor, Inv, HandleInv, Holding
<1>2. /\ SpawnMonitor /\ UNCHANGED <<state, handles, generation, gen>>
      /\ pc'[h[Command]] = "watch" /\ h'[h[Command]] = h[Command]
      /\ \A u \in Threads : u # Command => svc'[u] = svc[u]
      /\ \A u \in Threads : u # Command /\ u # h[Command] => h'[u] = h[u] /\ pc'[u] = pc[u]
  BY <1>1, ThreadFacts DEF RestartReturns, mgrVars, Inv, TypeOK
<1> QED
  BY <1>2, SpawnSupervised

(* So does StartAll between two services,                                  *)
LEMMA StartAllContinuesSupervised ==
  ASSUME Inv, TypeOK', StartAllContinues PROVE ActiveIsSupervised'
<1>1. h[Command] \in Handles /\ h[Command] # Command /\ Command \in Threads
  BY ThreadFacts, StartedFacts
     DEF StartAllContinues, SpawnMonitor, Inv, HandleInv, Holding
<1>2. /\ SpawnMonitor /\ UNCHANGED <<state, handles, generation, gen>>
      /\ pc'[h[Command]] = "watch" /\ h'[h[Command]] = h[Command]
      /\ \A u \in Threads : u # Command => svc'[u] = svc[u]
      /\ \A u \in Threads : u # Command /\ u # h[Command] => h'[u] = h[u] /\ pc'[u] = pc[u]
  BY <1>1, ThreadFacts DEF StartAllContinues, mgrVars, Inv, TypeOK
<1> QED
  BY <1>2, SpawnSupervised

(* and after the last one.                                                 *)
LEMMA StartAllReturnsSupervised ==
  ASSUME Inv, TypeOK', StartAllReturns PROVE ActiveIsSupervised'
<1>1. h[Command] \in Handles /\ h[Command] # Command /\ Command \in Threads
  BY ThreadFacts, StartedFacts DEF StartAllReturns, SpawnMonitor, Inv, HandleInv, Holding
<1>2. /\ SpawnMonitor /\ UNCHANGED <<state, handles, generation, gen>>
      /\ pc'[h[Command]] = "watch" /\ h'[h[Command]] = h[Command]
      /\ \A u \in Threads : u # Command => svc'[u] = svc[u]
      /\ \A u \in Threads : u # Command /\ u # h[Command] => h'[u] = h[u] /\ pc'[u] = pc[u]
  BY <1>1, ThreadFacts DEF StartAllReturns, mgrVars, Inv, TypeOK
<1> QED
  BY <1>2, SpawnSupervised

(* The service is Unhealthy, or the monitor was stale already.             *)
LEMMA NoticeNextExitSupervised ==
  ASSUME Inv, TypeOK', NEW t \in Handles, NoticeNextExit(t) PROVE ActiveIsSupervised'
<1>1. /\ pc[t] = "rewatch" /\ t \in Threads /\ generation' = generation
      /\ \A u \in Threads : u # t =>
           h'[u] = h[u] /\ svc'[u] = svc[u] /\ pc'[u] = pc[u] /\ gen'[u] = gen[u]
      /\ \A r \in Services : r # svc[t] => state'[r] = state[r] /\ handles'[r] = handles[r]
  BY ThreadFacts DEF NoticeNextExit, LoseProcess, SetState, MonitorReturns, Goto, mgrVars,
                     Inv, TypeOK
<1>2. ASSUME NEW r \in Services, r # svc[t] PROVE Supervised(r)'
  <2>1. \A u \in Threads : InCharge(u, r) => u # t
    BY <1>2 DEF InCharge
  <2> QED
    BY <1>1, <1>2, <2>1, OthersSupervised
<1>3. ASSUME NEW r \in Services, r = svc[t], IsGenerationCurrent(t) /\ OwnsService(t)
      PROVE  Supervised(r)'
  <2>1. state'[r] = "unhealthy"
    BY <1>3 DEF NoticeNextExit, LoseProcess, SetState, Inv, TypeOK
  <2> QED
    BY <2>1 DEF Supervised
<1>4. ASSUME NEW r \in Services, r = svc[t], ~(IsGenerationCurrent(t) /\ OwnsService(t))
      PROVE  Supervised(r)'
  <2>1. ~IsGenerationCurrent(t)
    BY <1>1, <1>4 DEF Inv, RecoveryInv, Entry, OwnsService
  <2>2. \A u \in Threads : InCharge(u, r) => u # t
    BY <1>1, <2>1 DEF InCharge, FramePCs
  <2>3. UNCHANGED <<state, handles>>
    BY <1>4 DEF NoticeNextExit, mgrVars
  <2> QED
    BY <1>1, <2>2, <2>3, OthersSupervised
<1> QED
  BY <1>2, <1>3, <1>4 DEF ActiveIsSupervised

(* The same when the process a monitor was spawned for exits: that monitor *)
(* is in charge only if its process is the recorded one.                   *)
LEMMA NoticeExitSupervised ==
  ASSUME Inv, TypeOK', NEW t \in Handles, NoticeExit(t) PROVE ActiveIsSupervised'
<1>1. /\ pc[t] = "watch" /\ h[t] = t /\ t \in Threads /\ generation' = generation
      /\ \A u \in Threads : u # t =>
           h'[u] = h[u] /\ svc'[u] = svc[u] /\ pc'[u] = pc[u] /\ gen'[u] = gen[u]
      /\ \A r \in Services : r # svc[t] => state'[r] = state[r] /\ handles'[r] = handles[r]
  BY ThreadFacts DEF NoticeExit, LoseProcess, SetState, MonitorReturns, Goto, mgrVars,
                     Inv, TypeOK, MonitorInv
<1>2. ASSUME NEW r \in Services, r # svc[t] PROVE Supervised(r)'
  <2>1. \A u \in Threads : InCharge(u, r) => u # t
    BY <1>2 DEF InCharge
  <2> QED
    BY <1>1, <1>2, <2>1, OthersSupervised
<1>3. ASSUME NEW r \in Services, r = svc[t], OwnsService(t) PROVE Supervised(r)'
  <2>1. state'[r] = "unhealthy"
    BY <1>3 DEF NoticeExit, LoseProcess, SetState, Inv, TypeOK
  <2> QED
    BY <2>1 DEF Supervised
<1>4. ASSUME NEW r \in Services, r = svc[t], ~OwnsService(t) PROVE Supervised(r)'
  <2>1. handles[svc[t]] # t
    BY <1>1, <1>4 DEF Inv, RecoveryInv, OwnsService
  <2>2. \A u \in Threads : InCharge(u, r) => u # t
    BY <1>1, <1>4, <2>1 DEF InCharge, FramePCs, Recovering
  <2>3. UNCHANGED <<state, handles>>
    BY <1>4 DEF NoticeExit, mgrVars
  <2> QED
    BY <1>1, <2>2, <2>3, OthersSupervised
<1> QED
  BY <1>2, <1>3, <1>4 DEF ActiveIsSupervised

(* A step that leaves alone the handle map and the threads that hold a live *)
(* process.                                                                *)
LEMMA ProcessesKept ==
  ASSUME Inv, UNCHANGED <<handles, alive, unstopped>>,
         \A p \in alive : svc'[p] = svc[p],
         \A u \in Threads : pc[u] \in {"record", "kill", "stop"} =>
           pc'[u] = pc[u] /\ h'[u] = h[u] /\ svc'[u] = svc[u]
  PROVE  ProcessInv'
BY DEF Inv, ProcessInv, Managed

(* The process of an invalidated service is in the command's hands.        *)
LEMMA InvalidateProcesses ==
  ASSUME Inv, NEW s \in Services, Invalidate(s), UNCHANGED <<alive, unstopped>>,
         pc[Command] \in {"lock", "cleanup"}, pc'[Command] = "stop", svc'[Command] = s,
         \A u \in Handles : pc'[u] = pc[u] /\ svc'[u] = svc[u]
  PROVE  ProcessInv'
<1>1. /\ Managed \subseteq Handles /\ \A p \in Managed : svc[p] \in Services
      /\ Managed' = Managed
  BY StartedFacts, ThreadFacts DEF Inv, TypeOK, Managed
<1>2. /\ h'[Command] = handles[s] /\ \A u \in Handles : h'[u] = h[u]
      /\ \A r \in Services : r # s => handles'[r] = handles[r]
  BY ThreadFacts DEF Invalidate, Inv, TypeOK
<1> SUFFICES ASSUME NEW p \in Managed
             PROVE  \/ handles'[svc[p]] = p
                    \/ \E t \in Threads : /\ h'[t] = p /\ svc'[t] = svc[p]
                                         /\ pc'[t] \in {"record", "kill", "stop"}
  BY <1>1 DEF ProcessInv
<1>3. CASE handles[svc[p]] = p /\ svc[p] # s
  BY <1>1, <1>2, <1>3
<1>4. CASE handles[svc[p]] = p /\ svc[p] = s
  BY <1>2, <1>4, ThreadFacts
<1>5. CASE handles[svc[p]] # p
  <2>1. PICK t \in Threads :
          h[t] = p /\ pc[t] \in {"record", "kill", "stop"} /\ svc[t] = svc[p]
    BY <1>5 DEF Inv, ProcessInv
  <2>2. t \in Handles
    BY <2>1, ThreadFacts
  <2> QED
    BY <1>2, <2>1, <2>2
<1> QED
  BY <1>3, <1>4, <1>5

(* A launched process is in the hands of the thread that launched it.      *)
LEMMA LaunchProcesses == ASSUME Inv, NEW t \in Threads, Launch(t) PROVE ProcessInv'
<1>1. started + 1 \in Handles /\ started \in Nat /\ alive \subseteq 1..started
  BY SupervisorAssumption DEF Launch, Inv, TypeOK, Handles
<1>2. pc[started + 1] = "idle" /\ pc[t] = "launch" /\ started + 1 # t
  BY <1>1 DEF Inv, MonitorInv, Launch, Goto
<1>3. Managed' = Managed \cup {started + 1} /\ started + 1 \notin Managed
      /\ handles' = handles
  BY <1>1 DEF Launch, mgrVars, Managed, Inv, TypeOK
<1>4. /\ \A u \in Threads : u # started + 1 => svc'[u] = svc[u]
      /\ svc'[started + 1] = svc[t] /\ h'[t] = started + 1 /\ pc'[t] = "record"
      /\ \A u \in Threads : u # t => h'[u] = h[u] /\ pc'[u] = pc[u]
  BY <1>1, ThreadFacts DEF Launch, Goto, Inv, TypeOK
<1>5. Managed \subseteq Threads
  BY <1>1, StartedFacts, ThreadFacts DEF Inv, Managed
<1>6. ASSUME NEW p \in Managed
      PROVE  \/ handles'[svc'[p]] = p
             \/ \E u \in Threads :
                  h'[u] = p /\ pc'[u] \in {"record", "kill", "stop"} /\ svc'[u] = svc'[p]
  <2>1. svc'[p] = svc[p]
    BY <1>3, <1>4, <1>5, <1>6
  <2>2. CASE handles[svc[p]] = p
    BY <1>3, <2>1, <2>2
  <2>3. CASE handles[svc[p]] # p
    <3>1. PICK u \in Threads :
            h[u] = p /\ pc[u] \in {"record", "kill", "stop"} /\ svc[u] = svc[p]
      BY <1>6, <2>3 DEF Inv, ProcessInv
    <3>2. u # t /\ u # started + 1
      BY <1>2, <3>1
    <3> QED
      BY <1>4, <2>1, <3>1, <3>2
  <2> QED
    BY <2>2, <2>3
<1>7. svc'[t] = svc'[started + 1]
  BY <1>2, <1>4
<1> QED
  BY <1>3, <1>4, <1>6, <1>7 DEF ProcessInv

(* The handle that is dropped is not that of a live process.               *)
LEMMA NoticeExitProcesses ==
  ASSUME Inv, TypeOK', NEW t \in Handles, NoticeExit(t) PROVE ProcessInv'
<1>1. /\ Managed' = Managed /\ svc' = svc /\ h[t] \notin Managed /\ pc[t] = "watch"
      /\ \A u \in Threads : u # t => h'[u] = h[u] /\ pc'[u] = pc[u]
      /\ \A s \in Services : handles'[s] = handles[s] \/ handles[s] = h[t]
  BY ThreadFacts
     DEF NoticeExit, LoseProcess, MonitorReturns, OwnsService, Goto, procVars, mgrVars,
         Inv, TypeOK, Managed
<1>2. \A p \in Managed : svc[p] \in Services
  BY StartedFacts, ThreadFacts DEF Inv, TypeOK, Managed
<1>3. ASSUME NEW p \in Managed, handles[svc[p]] = p PROVE handles'[svc'[p]] = p
  BY <1>1, <1>2, <1>3
<1> QED
  BY <1>1, <1>3 DEF ProcessInv, Inv

(* The same for the process of a recovery.                                 *)
LEMMA NoticeNextExitProcesses ==
  ASSUME Inv, TypeOK', NEW t \in Handles, NoticeNextExit(t) PROVE ProcessInv'
<1>1. /\ Managed' = Managed /\ svc' = svc /\ h[t] \notin Managed /\ pc[t] = "rewatch"
      /\ \A u \in Threads : u # t => h'[u] = h[u] /\ pc'[u] = pc[u]
      /\ \A s \in Services : handles'[s] = handles[s] \/ handles[s] = h[t]
  BY ThreadFacts
     DEF NoticeNextExit, LoseProcess, MonitorReturns, OwnsService, Goto, procVars, mgrVars,
         Inv, TypeOK, Managed
<1>2. \A p \in Managed : svc[p] \in Services
  BY StartedFacts, ThreadFacts DEF Inv, TypeOK, Managed
<1>3. ASSUME NEW p \in Managed, handles[svc[p]] = p PROVE handles'[svc'[p]] = p
  BY <1>1, <1>2, <1>3
<1> QED
  BY <1>1, <1>3 DEF ProcessInv, Inv

(* A handle is only dropped.                                               *)
LEMMA NoticeExitHandles ==
  ASSUME Inv, TypeOK', NEW t \in Handles, NoticeExit(t) \/ NoticeNextExit(t)
  PROVE  HandleInv'
<1>1. /\ UNCHANGED <<started, svc>> /\ pc[t] \in {"watch", "rewatch"} /\ t # Command
      /\ \A u \in Threads : u # t => h'[u] = h[u] /\ pc'[u] = pc[u]
      /\ \A s \in Services : handles'[s] = handles[s] \/ handles'[s] = NoHandle
      /\ pc'[t] \in {"loop", "done"}
  BY ThreadFacts
     DEF NoticeExit, NoticeNextExit, LoseProcess, MonitorReturns, OwnsService, Goto,
         procVars, mgrVars, Inv, TypeOK
<1> QED
  BY <1>1, StartedFacts, ThreadFacts DEF HandleInv, Holding, Inv

(* The command moves to a fresh service, and leaves the last one to its monitor. *)
LEMMA StartAllContinuesOneSupervisor ==
  ASSUME Inv, TypeOK', StartAllContinues PROVE OneSupervisor'
<1>0. \A u \in Handles : pc[u] # "idle" /\ phase = "starting" =>
        \A i \in 1..Count : i > cursor => svc[u] # order[i]
  BY BusyIsNotFresh
<1> USE DEF Inv, TypeOK
<1> DEFINE p == h[Command]
<1>1. /\ p \in Handles /\ p \in Threads /\ Command \in Threads /\ p # Command
      /\ pc[p] = "idle" /\ pc[Command] = "notify" /\ svc[p] = svc[Command]
  BY ThreadFacts, StartedFacts DEF StartAllContinues, SpawnMonitor, HandleInv, Holding
<1>2. PICK next \in Services : next = order[cursor + 1]
  BY CountType, OrderFacts DEF StartAllContinues
<1>3. /\ UNCHANGED <<handles, generation, gen>>
      /\ pc'[p] = "watch" /\ pc'[Command] = "deps" /\ svc'[Command] = next
      /\ \A u \in Threads : u # Command /\ u # p => pc'[u] = pc[u]
      /\ \A u \in Threads : u # Command => svc'[u] = svc[u]
  BY <1>1, <1>2 DEF StartAllContinues, SpawnMonitor, mgrVars
<1>4. cursor + 1 \in 1..Count /\ phase = "starting" /\ next # svc[Command]
  BY <1>2, CountType, OrderFacts DEF StartAllContinues, CommandInv
<1>5. \A u \in Handles : pc[u] # "idle" => svc[u] # next
  BY <1>0, <1>2, <1>4, CountType, SMTT(30)
<1> SUFFICES ASSUME NEW u \in Threads, NEW v \in Threads, NEW s \in Services,
                    InCharge(u, s)', InCharge(v, s)'
             PROVE  u = v
  BY DEF OneSupervisor
<1>6. CASE s = next
  <2>1. \A x \in Threads : x # Command => ~(InCharge(x, s)')
    BY <1>1, <1>3, <1>4, <1>5, <1>6, ThreadFacts DEF InCharge, FramePCs, Recovering
  <2> QED
    BY <2>1
<1>7. CASE s # next
  <2>1. u # Command /\ v # Command
    BY <1>3, <1>7 DEF InCharge
  <2>2. \A x \in Threads : x # Command /\ x # p /\ InCharge(x, s)' => InCharge(x, s)
    BY <1>1, <1>3 DEF InCharge, IsGenerationCurrent
  <2>3. u = p => s = svc[Command]
    BY <1>1, <1>3, <2>1 DEF InCharge
  <2>4. v = p => s = svc[Command]
    BY <1>1, <1>3, <2>1 DEF InCharge
  <2>5. s = svc[Command] => InCharge(Command, s)
    BY <1>1 DEF InCharge, FramePCs
  <2> QED
    BY <1>1, <2>1, <2>2, <2>3, <2>4, <2>5 DEF OneSupervisor
<1> QED
  BY <1>6, <1>7
-----------------------------------------------------------------------------
(* lifecycleMu is held exactly by the threads that may hold it.            *)
LEMMA LockInvStep == ASSUME Inv, TypeOK', [Next]_vars PROVE LockInv'
<1> USE ThreadFacts DEF Inv, TypeOK, LockInv, CommandInv, MonitorInv, FramePCs, mgrVars,
        procVars, cmdVars, locals
<1>1. ASSUME NEW t \in Threads, Frame(t) PROVE LockInv'
  <2>1. CASE CheckDependency(t)
    BY <2>1 DEF CheckDependency
  <2>2. CASE DependencyFails(t)
    BY <2>2 DEF DependencyFails, FrameFails
  <2>3. CASE Prepare(t)
    BY <2>3 DEF Prepare, Goto, SetState
  <2>4. CASE PrepareFails(t)
    BY <2>4 DEF PrepareFails, FrameFails
  <2>5. CASE Launch(t)
    BY <2>5 DEF Launch, Goto
  <2>6. CASE LaunchFails(t)
    BY <2>6 DEF LaunchFails, SetState, FrameFails
  <2>7. CASE RecordHandle(t)
    BY <2>7 DEF RecordHandle, Goto
  <2>8. CASE BecomeHealthy(t)
    BY <2>8 DEF BecomeHealthy, Goto, SetState
  <2>9. CASE NotReady(t)
    BY <2>9 DEF NotReady, Goto, SetState
  <2>10. CASE DropHandle(t)
    BY <2>10 DEF DropHandle, Goto
  <2>11. CASE KillUnready(t)
    BY <2>11 DEF KillUnready, StopSucceeds, StopFails, FrameFails
  <2> QED
    BY <1>1, <2>1, <2>2, <2>3, <2>4, <2>5, <2>6, <2>7, <2>8, <2>9, <2>10, <2>11 DEF Frame
<1>2. CASE CommandStep
  <2>1. CASE RestartLocks
    BY <2>1 DEF RestartLocks, Invalidate, Goto, SetState
  <2>2. CASE StopAllLocks
    BY <2>2 DEF StopAllLocks, Invalidate, Goto, SetState
  <2>3. CASE StopService
    BY <2>3 DEF StopService, Goto, StopSucceeds
  <2>4. CASE StopServiceFails
    BY <2>4 DEF StopServiceFails, StopFails
  <2>5. CASE RestartCleansUp
    BY <2>5 DEF RestartCleansUp, EnterFrame
  <2>6. CASE RestartCleanupFails
    BY <2>6 DEF RestartCleanupFails, Goto
  <2>7. CASE StopAllContinues
    BY <2>7 DEF StopAllContinues, Invalidate, SetState
  <2>8. CASE StopAllReturns
    BY <2>8 DEF StopAllReturns, Goto
  <2>9. CASE RestartReturns
    BY <2>9 DEF RestartReturns, SpawnMonitor
  <2>10. CASE StartAllContinues
    BY <2>10 DEF StartAllContinues, SpawnMonitor
  <2>11. CASE StartAllReturns
    BY <2>11 DEF StartAllReturns, SpawnMonitor
  <2> QED
    BY <1>1, <1>2, <2>1, <2>2, <2>3, <2>4, <2>5, <2>6, <2>7, <2>8, <2>9, <2>10,
       <2>11 DEF CommandStep
<1>3. ASSUME NEW t \in Handles, MonitorStep(t) PROVE LockInv'
  <2>1. CASE NoticeExit(t)
    BY <2>1 DEF NoticeExit, MonitorReturns, Goto, OwnsService, LoseProcess, SetState
  <2>2. CASE BeginBackoff(t)
    BY <2>2 DEF BeginBackoff, MonitorReturns, Goto
  <2>3. CASE GiveUp(t)
    BY <2>3 DEF GiveUp, MonitorReturns, SetUnhealthyIfCurrent
  <2>4. CASE BackoffCancelled(t)
    BY <2>4 DEF BackoffCancelled, MonitorReturns, SetUnhealthyIfCurrent
  <2>5. CASE BackoffExpires(t)
    BY <2>5 DEF BackoffExpires, MonitorReturns, Goto
  <2>6. CASE RecoveryLocks(t)
    BY <2>6 DEF RecoveryLocks, MonitorReturns, EnterFrame
  <2>7. CASE RecoveryReturns(t)
    BY <2>7 DEF RecoveryReturns, Goto
  <2>8. CASE AdoptHandle(t)
    BY <2>8 DEF AdoptHandle, MonitorReturns, Goto
  <2>9. CASE NoticeNextExit(t)
    BY <2>9 DEF NoticeNextExit, MonitorReturns, Goto, OwnsService, LoseProcess, SetState
  <2> QED
    BY <1>1, <1>3, <2>1, <2>2, <2>3, <2>4, <2>5, <2>6, <2>7, <2>8, <2>9 DEF MonitorStep
<1>4. CASE Request
  <2>1. CASE StartAll
    BY <2>1 DEF StartAll, EnterFrame
  <2>2. CASE Publish
    BY <2>2 DEF Publish
  <2>3. CASE StopAll
    BY <2>3 DEF StopAll, Goto
  <2>4. ASSUME NEW s \in Services, Restart(s) PROVE LockInv'
    BY <2>4 DEF Restart, Goto
  <2> QED
    BY <1>4, <2>1, <2>2, <2>3, <2>4 DEF Request
<1>5. ASSUME NEW p \in Handles, ProcessExits(p) PROVE LockInv'
  BY <1>5 DEF ProcessExits
<1>6. CASE UNCHANGED vars
  BY <1>6 DEF vars
<1> QED
  BY <1>1, <1>2, <1>3, <1>4, <1>5, <1>6 DEF Next

(* The command goroutine stays where its command allows.                   *)
LEMMA CommandInvStep == ASSUME Inv, TypeOK', [Next]_vars PROVE CommandInv'
<1> USE ThreadFacts DEF Inv, TypeOK, LockInv, CommandInv, MonitorInv, QuietInv,
        FrameInv, FramePCs, Recovering, IsGenerationCurrent, Entry, mgrVars, procVars,
        cmdVars, locals
<1>1. ASSUME NEW t \in Threads, Frame(t) PROVE CommandInv'
  <2>1. CASE CheckDependency(t)
    BY <2>1 DEF CheckDependency
  <2>2. CASE DependencyFails(t)
    BY <2>2 DEF DependencyFails, FrameFails
  <2>3. CASE Prepare(t)
    BY <2>3 DEF Prepare, Goto, SetState
  <2>4. CASE PrepareFails(t)
    BY <2>4 DEF PrepareFails, FrameFails
  <2>5. CASE Launch(t)
    BY <2>5 DEF Launch, Goto
  <2>6. CASE LaunchFails(t)
    BY <2>6 DEF LaunchFails, SetState, FrameFails
  <2>7. CASE RecordHandle(t)
    BY <2>7 DEF RecordHandle, Goto
  <2>8. CASE BecomeHealthy(t)
    BY <2>8 DEF BecomeHealthy, Goto, SetState
  <2>9. CASE NotReady(t)
    BY <2>9 DEF NotReady, Goto, SetState
  <2>10. CASE DropHandle(t)
    BY <2>10 DEF DropHandle, Goto
  <2>11. CASE KillUnready(t)
    BY <2>11 DEF KillUnready, StopSucceeds, StopFails, FrameFails
  <2> QED
    BY <1>1, <2>1, <2>2, <2>3, <2>4, <2>5, <2>6, <2>7, <2>8, <2>9, <2>10, <2>11 DEF Frame
<1>2. CASE CommandStep
  <2>1. CASE RestartLocks
    BY <2>1 DEF RestartLocks, Invalidate, Goto, SetState
  <2>2. CASE StopAllLocks
    BY <2>2 DEF StopAllLocks, Invalidate, Goto, SetState
  <2>3. CASE StopService
    BY <2>3 DEF StopService, Goto, StopSucceeds
  <2>4. CASE StopServiceFails
    BY <2>4 DEF StopServiceFails, StopFails
  <2>5. CASE RestartCleansUp
    BY <2>5 DEF RestartCleansUp, EnterFrame
  <2>6. CASE RestartCleanupFails
    BY <2>6 DEF RestartCleanupFails, Goto
  <2>7. CASE StopAllContinues
    BY <2>7 DEF StopAllContinues, Invalidate, SetState
  <2>8. CASE StopAllReturns
    BY <2>8 DEF StopAllReturns, Goto
  <2>9. CASE RestartReturns
    BY <2>9 DEF RestartReturns, SpawnMonitor
  <2>10. CASE StartAllContinues
    BY <2>10 DEF StartAllContinues, SpawnMonitor
  <2>11. CASE StartAllReturns
    BY <2>11 DEF StartAllReturns, SpawnMonitor
  <2> QED
    BY <1>1, <1>2, <2>1, <2>2, <2>3, <2>4, <2>5, <2>6, <2>7, <2>8, <2>9, <2>10,
       <2>11 DEF CommandStep
<1>3. ASSUME NEW t \in Handles, MonitorStep(t) PROVE CommandInv'
  <2>1. CASE NoticeExit(t)
    BY <2>1 DEF NoticeExit, MonitorReturns, Goto, OwnsService, LoseProcess, SetState
  <2>2. CASE BeginBackoff(t)
    BY <2>2 DEF BeginBackoff, MonitorReturns, Goto
  <2>3. CASE GiveUp(t)
    BY <2>3 DEF GiveUp, MonitorReturns, SetUnhealthyIfCurrent
  <2>4. CASE BackoffCancelled(t)
    BY <2>4 DEF BackoffCancelled, MonitorReturns, SetUnhealthyIfCurrent
  <2>5. CASE BackoffExpires(t)
    BY <2>5 DEF BackoffExpires, MonitorReturns, Goto
  <2>6. CASE RecoveryLocks(t)
    BY <2>6 DEF RecoveryLocks, MonitorReturns, EnterFrame
  <2>7. CASE RecoveryReturns(t)
    BY <2>7 DEF RecoveryReturns, Goto
  <2>8. CASE AdoptHandle(t)
    BY <2>8 DEF AdoptHandle, MonitorReturns, Goto
  <2>9. CASE NoticeNextExit(t)
    BY <2>9 DEF NoticeNextExit, MonitorReturns, Goto, OwnsService, LoseProcess, SetState
  <2> QED
    BY <1>1, <1>3, <2>1, <2>2, <2>3, <2>4, <2>5, <2>6, <2>7, <2>8, <2>9 DEF MonitorStep
<1>4. CASE Request
  <2>1. CASE StartAll
    BY <2>1 DEF StartAll, EnterFrame
  <2>2. CASE Publish
    BY <2>2 DEF Publish
  <2>3. CASE StopAll
    BY <2>3 DEF StopAll, Goto
  <2>4. ASSUME NEW s \in Services, Restart(s) PROVE CommandInv'
    BY <2>4 DEF Restart, Goto
  <2> QED
    BY <1>4, <2>1, <2>2, <2>3, <2>4 DEF Request
<1>5. ASSUME NEW p \in Handles, ProcessExits(p) PROVE CommandInv'
  BY <1>5 DEF ProcessExits
<1>6. CASE UNCHANGED vars
  BY <1>6 DEF vars
<1> QED
  BY <1>1, <1>2, <1>3, <1>4, <1>5, <1>6 DEF Next

(* Monitors stay behind or at the generation of their service.             *)
LEMMA MonitorInvStep == ASSUME Inv, TypeOK', [Next]_vars PROVE MonitorInv'
<1>a. ASSUME NEW t \in Threads, Launch(t) PROVE MonitorInv'
  BY <1>a, LaunchMonitors
<1> USE ThreadFacts, StartedFacts DEF Inv, TypeOK, LockInv, CommandInv, MonitorInv,
        HandleInv, FramePCs, Holding, IsGenerationCurrent, mgrVars, procVars, cmdVars,
        locals
<1>1. ASSUME NEW t \in Threads, Frame(t) PROVE MonitorInv'
  <2>1. CASE CheckDependency(t)
    BY <2>1 DEF CheckDependency
  <2>2. CASE DependencyFails(t)
    BY <2>2 DEF DependencyFails, FrameFails
  <2>3. CASE Prepare(t)
    BY <2>3 DEF Prepare, Goto, SetState
  <2>4. CASE PrepareFails(t)
    BY <2>4 DEF PrepareFails, FrameFails
  <2>5. CASE Launch(t)
    BY <2>5, <1>a
  <2>6. CASE LaunchFails(t)
    BY <2>6 DEF LaunchFails, SetState, FrameFails
  <2>7. CASE RecordHandle(t)
    BY <2>7 DEF RecordHandle, Goto
  <2>8. CASE BecomeHealthy(t)
    BY <2>8 DEF BecomeHealthy, Goto, SetState
  <2>9. CASE NotReady(t)
    BY <2>9 DEF NotReady, Goto, SetState
  <2>10. CASE DropHandle(t)
    BY <2>10 DEF DropHandle, Goto
  <2>11. CASE KillUnready(t)
    BY <2>11 DEF KillUnready, StopSucceeds, StopFails, FrameFails
  <2> QED
    BY <1>1, <2>1, <2>2, <2>3, <2>4, <2>5, <2>6, <2>7, <2>8, <2>9, <2>10, <2>11 DEF Frame
<1>2. CASE CommandStep
  <2>1. CASE RestartLocks
    BY <2>1 DEF RestartLocks, Invalidate, Goto, SetState
  <2>2. CASE StopAllLocks
    BY <2>2 DEF StopAllLocks, Invalidate, Goto, SetState
  <2>3. CASE StopService
    BY <2>3 DEF StopService, Goto, StopSucceeds
  <2>4. CASE StopServiceFails
    BY <2>4 DEF StopServiceFails, StopFails
  <2>5. CASE RestartCleansUp
    BY <2>5 DEF RestartCleansUp, EnterFrame
  <2>6. CASE RestartCleanupFails
    BY <2>6 DEF RestartCleanupFails, Goto
  <2>7. CASE StopAllContinues
    BY <2>7 DEF StopAllContinues, Invalidate, SetState
  <2>8. CASE StopAllReturns
    BY <2>8 DEF StopAllReturns, Goto
  <2>9. CASE RestartReturns
    BY <2>9 DEF RestartReturns, SpawnMonitor
  <2>10. CASE StartAllContinues
    BY <2>10 DEF StartAllContinues, SpawnMonitor
  <2>11. CASE StartAllReturns
    BY <2>11 DEF StartAllReturns, SpawnMonitor
  <2> QED
    BY <1>1, <1>2, <2>1, <2>2, <2>3, <2>4, <2>5, <2>6, <2>7, <2>8, <2>9, <2>10,
       <2>11 DEF CommandStep
<1>3. ASSUME NEW t \in Handles, MonitorStep(t) PROVE MonitorInv'
  <2>1. CASE NoticeExit(t)
    BY <2>1 DEF NoticeExit, MonitorReturns, Goto, OwnsService, LoseProcess, SetState
  <2>2. CASE BeginBackoff(t)
    BY <2>2 DEF BeginBackoff, MonitorReturns, Goto
  <2>3. CASE GiveUp(t)
    BY <2>3 DEF GiveUp, MonitorReturns, SetUnhealthyIfCurrent
  <2>4. CASE BackoffCancelled(t)
    BY <2>4 DEF BackoffCancelled, MonitorReturns, SetUnhealthyIfCurrent
  <2>5. CASE BackoffExpires(t)
    BY <2>5 DEF BackoffExpires, MonitorReturns, Goto
  <2>6. CASE RecoveryLocks(t)
    BY <2>6 DEF RecoveryLocks, MonitorReturns, EnterFrame
  <2>7. CASE RecoveryReturns(t)
    BY <2>7 DEF RecoveryReturns, Goto
  <2>8. CASE AdoptHandle(t)
    BY <2>8 DEF AdoptHandle, MonitorReturns, Goto
  <2>9. CASE NoticeNextExit(t)
    BY <2>9 DEF NoticeNextExit, MonitorReturns, Goto, OwnsService, LoseProcess, SetState
  <2> QED
    BY <1>1, <1>3, <2>1, <2>2, <2>3, <2>4, <2>5, <2>6, <2>7, <2>8, <2>9 DEF MonitorStep
<1>4. CASE Request
  <2>1. CASE StartAll
    BY <2>1 DEF StartAll, EnterFrame
  <2>2. CASE Publish
    BY <2>2 DEF Publish
  <2>3. CASE StopAll
    BY <2>3 DEF StopAll, Goto
  <2>4. ASSUME NEW s \in Services, Restart(s) PROVE MonitorInv'
    BY <2>4 DEF Restart, Goto
  <2> QED
    BY <1>4, <2>1, <2>2, <2>3, <2>4 DEF Request
<1>5. ASSUME NEW p \in Handles, ProcessExits(p) PROVE MonitorInv'
  BY <1>5 DEF ProcessExits
<1>6. CASE UNCHANGED vars
  BY <1>6 DEF vars
<1> QED
  BY <1>1, <1>2, <1>3, <1>4, <1>5, <1>6 DEF Next

(* Handles stay with the service their process belongs to.                 *)
LEMMA HandleInvStep == ASSUME Inv, TypeOK', [Next]_vars PROVE HandleInv'
<1>a. ASSUME NEW t \in Handles, NoticeExit(t) \/ NoticeNextExit(t) PROVE HandleInv'
  BY <1>a, NoticeExitHandles
<1> USE ThreadFacts, StartedFacts DEF Inv, TypeOK, HandleInv, MonitorInv, OneSupervisor,
        CommandInv, FramePCs, Holding, InCharge, mgrVars, procVars, cmdVars, locals
<1>1. ASSUME NEW t \in Threads, Frame(t) PROVE HandleInv'
  <2>1. CASE CheckDependency(t)
    BY <2>1 DEF CheckDependency
  <2>2. CASE DependencyFails(t)
    BY <2>2 DEF DependencyFails, FrameFails
  <2>3. CASE Prepare(t)
    BY <2>3 DEF Prepare, Goto, SetState
  <2>4. CASE PrepareFails(t)
    BY <2>4 DEF PrepareFails, FrameFails
  <2>5. CASE Launch(t)
    BY <2>5 DEF Launch, Goto
  <2>6. CASE LaunchFails(t)
    BY <2>6 DEF LaunchFails, SetState, FrameFails
  <2>7. CASE RecordHandle(t)
    BY <2>7 DEF RecordHandle, Goto
  <2>8. CASE BecomeHealthy(t)
    BY <2>8 DEF BecomeHealthy, Goto, SetState
  <2>9. CASE NotReady(t)
    BY <2>9 DEF NotReady, Goto, SetState
  <2>10. CASE DropHandle(t)
    BY <2>10 DEF DropHandle, Goto
  <2>11. CASE KillUnready(t)
    BY <2>11 DEF KillUnready, StopSucceeds, StopFails, FrameFails
  <2> QED
    BY <1>1, <2>1, <2>2, <2>3, <2>4, <2>5, <2>6, <2>7, <2>8, <2>9, <2>10, <2>11 DEF Frame
<1>2. CASE CommandStep
  <2>1. CASE RestartLocks
    BY <2>1 DEF RestartLocks, Invalidate, Goto, SetState
  <2>2. CASE StopAllLocks
    BY <2>2 DEF StopAllLocks, Invalidate, Goto, SetState
  <2>3. CASE StopService
    BY <2>3 DEF StopService, Goto, StopSucceeds
  <2>4. CASE StopServiceFails
    BY <2>4 DEF StopServiceFails, StopFails
  <2>5. CASE RestartCleansUp
    BY <2>5 DEF RestartCleansUp, EnterFrame
  <2>6. CASE RestartCleanupFails
    BY <2>6 DEF RestartCleanupFails, Goto
  <2>7. CASE StopAllContinues
    BY <2>7 DEF StopAllContinues, Invalidate, SetState
  <2>8. CASE StopAllReturns
    BY <2>8 DEF StopAllReturns, Goto
  <2>9. CASE RestartReturns
    BY <2>9 DEF RestartReturns, SpawnMonitor
  <2>10. CASE StartAllContinues
    BY <2>10 DEF StartAllContinues, SpawnMonitor
  <2>11. CASE StartAllReturns
    BY <2>11 DEF StartAllReturns, SpawnMonitor
  <2> QED
    BY <1>1, <1>2, <2>1, <2>2, <2>3, <2>4, <2>5, <2>6, <2>7, <2>8, <2>9, <2>10,
       <2>11 DEF CommandStep
<1>3. ASSUME NEW t \in Handles, MonitorStep(t) PROVE HandleInv'
  <2>1. CASE NoticeExit(t)
    BY <2>1, <1>a
  <2>2. CASE BeginBackoff(t)
    BY <2>2 DEF BeginBackoff, MonitorReturns, Goto
  <2>3. CASE GiveUp(t)
    BY <2>3 DEF GiveUp, MonitorReturns, SetUnhealthyIfCurrent
  <2>4. CASE BackoffCancelled(t)
    BY <2>4 DEF BackoffCancelled, MonitorReturns, SetUnhealthyIfCurrent
  <2>5. CASE BackoffExpires(t)
    BY <2>5 DEF BackoffExpires, MonitorReturns, Goto
  <2>6. CASE RecoveryLocks(t)
    BY <2>6 DEF RecoveryLocks, MonitorReturns, EnterFrame
  <2>7. CASE RecoveryReturns(t)
    BY <2>7 DEF RecoveryReturns, Goto
  <2>8. CASE AdoptHandle(t)
    BY <2>8 DEF AdoptHandle, MonitorReturns, Goto
  <2>9. CASE NoticeNextExit(t)
    BY <2>9, <1>a
  <2> QED
    BY <1>1, <1>3, <2>1, <2>2, <2>3, <2>4, <2>5, <2>6, <2>7, <2>8, <2>9 DEF MonitorStep
<1>4. CASE Request
  <2>1. CASE StartAll
    BY <2>1 DEF StartAll, EnterFrame
  <2>2. CASE Publish
    BY <2>2 DEF Publish
  <2>3. CASE StopAll
    BY <2>3 DEF StopAll, Goto
  <2>4. ASSUME NEW s \in Services, Restart(s) PROVE HandleInv'
    BY <2>4 DEF Restart, Goto
  <2> QED
    BY <1>4, <2>1, <2>2, <2>3, <2>4 DEF Request
<1>5. ASSUME NEW p \in Handles, ProcessExits(p) PROVE HandleInv'
  BY <1>5 DEF ProcessExits
<1>6. CASE UNCHANGED vars
  BY <1>6 DEF vars
<1> QED
  BY <1>1, <1>2, <1>3, <1>4, <1>5, <1>6 DEF Next

(* Nothing touches what StartAll has not reached.                          *)
LEMMA FreshInvStep == ASSUME Inv, TypeOK', [Next]_vars PROVE FreshInv'
<1>a. ASSUME NEW t \in Threads, Launch(t) PROVE FreshInv'
  BY <1>a, LaunchFresh
<1>b. ASSUME NEW t \in Handles, GiveUp(t) PROVE FreshInv'
  BY <1>b, GiveUpFresh
<1> USE ThreadFacts, StartedFacts, OrderFacts, CountType DEF Inv, TypeOK, FreshInv,
        HandleInv, MonitorInv, CommandInv, LockInv, FramePCs, Holding, mgrVars,
        procVars, cmdVars, locals
<1>1. ASSUME NEW t \in Threads, Frame(t) PROVE FreshInv'
  <2>1. CASE CheckDependency(t)
    BY <2>1 DEF CheckDependency
  <2>2. CASE DependencyFails(t)
    BY <2>2 DEF DependencyFails, FrameFails
  <2>3. CASE Prepare(t)
    BY <2>3 DEF Prepare, Goto, SetState
  <2>4. CASE PrepareFails(t)
    BY <2>4 DEF PrepareFails, FrameFails
  <2>5. CASE Launch(t)
    BY <2>5, <1>a
  <2>6. CASE LaunchFails(t)
    BY <2>6 DEF LaunchFails, SetState, FrameFails
  <2>7. CASE RecordHandle(t)
    BY <2>7 DEF RecordHandle, Goto
  <2>8. CASE BecomeHealthy(t)
    BY <2>8 DEF BecomeHealthy, Goto, SetState
  <2>9. CASE NotReady(t)
    BY <2>9 DEF NotReady, Goto, SetState
  <2>10. CASE DropHandle(t)
    BY <2>10 DEF DropHandle, Goto
  <2>11. CASE KillUnready(t)
    BY <2>11, SMTT(30) DEF KillUnready, StopSucceeds, StopFails, FrameFails
  <2> QED
    BY <1>1, <2>1, <2>2, <2>3, <2>4, <2>5, <2>6, <2>7, <2>8, <2>9, <2>10, <2>11 DEF Frame
<1>2. CASE CommandStep
  <2>1. CASE RestartLocks
    BY <2>1 DEF RestartLocks, Invalidate, Goto, SetState
  <2>2. CASE StopAllLocks
    BY <2>2 DEF StopAllLocks, Invalidate, Goto, SetState
  <2>3. CASE StopService
    BY <2>3 DEF StopService, Goto, StopSucceeds
  <2>4. CASE StopServiceFails
    BY <2>4 DEF StopServiceFails, StopFails
  <2>5. CASE RestartCleansUp
    BY <2>5 DEF RestartCleansUp, EnterFrame
  <2>6. CASE RestartCleanupFails
    BY <2>6 DEF RestartCleanupFails, Goto
  <2>7. CASE StopAllContinues
    BY <2>7 DEF StopAllContinues, Invalidate, SetState
  <2>8. CASE StopAllReturns
    BY <2>8 DEF StopAllReturns, Goto
  <2>9. CASE RestartReturns
    BY <2>9 DEF RestartReturns, SpawnMonitor
  <2>10. CASE StartAllContinues
    BY <2>10 DEF StartAllContinues, SpawnMonitor
  <2>11. CASE StartAllReturns
    BY <2>11 DEF StartAllReturns, SpawnMonitor
  <2> QED
    BY <1>1, <1>2, <2>1, <2>2, <2>3, <2>4, <2>5, <2>6, <2>7, <2>8, <2>9, <2>10,
       <2>11 DEF CommandStep
<1>3. ASSUME NEW t \in Handles, MonitorStep(t) PROVE FreshInv'
  <2>1. CASE NoticeExit(t)
    BY <2>1 DEF NoticeExit, MonitorReturns, Goto, OwnsService, LoseProcess, SetState
  <2>2. CASE BeginBackoff(t)
    BY <2>2 DEF BeginBackoff, MonitorReturns, Goto
  <2>3. CASE GiveUp(t)
    BY <2>3, <1>b
  <2>4. CASE BackoffCancelled(t)
    BY <2>4 DEF BackoffCancelled, MonitorReturns, SetUnhealthyIfCurrent
  <2>5. CASE BackoffExpires(t)
    BY <2>5 DEF BackoffExpires, MonitorReturns, Goto
  <2>6. CASE RecoveryLocks(t)
    BY <2>6 DEF RecoveryLocks, MonitorReturns, EnterFrame
  <2>7. CASE RecoveryReturns(t)
    BY <2>7 DEF RecoveryReturns, Goto
  <2>8. CASE AdoptHandle(t)
    BY <2>8 DEF AdoptHandle, MonitorReturns, Goto
  <2>9. CASE NoticeNextExit(t)
    BY <2>9 DEF NoticeNextExit, MonitorReturns, Goto, OwnsService, LoseProcess, SetState
  <2> QED
    BY <1>1, <1>3, <2>1, <2>2, <2>3, <2>4, <2>5, <2>6, <2>7, <2>8, <2>9 DEF MonitorStep
<1>4. CASE Request
  <2>1. CASE StartAll
    BY <2>1 DEF StartAll, EnterFrame
  <2>2. CASE Publish
    BY <2>2 DEF Publish
  <2>3. CASE StopAll
    BY <2>3 DEF StopAll, Goto
  <2>4. ASSUME NEW s \in Services, Restart(s) PROVE FreshInv'
    BY <2>4 DEF Restart, Goto
  <2> QED
    BY <1>4, <2>1, <2>2, <2>3, <2>4 DEF Request
<1>5. ASSUME NEW p \in Handles, ProcessExits(p) PROVE FreshInv'
  BY <1>5 DEF ProcessExits
<1>6. CASE UNCHANGED vars
  BY <1>6 DEF vars
<1> QED
  BY <1>1, <1>2, <1>3, <1>4, <1>5, <1>6 DEF Next

(* The entries of a service are as its frame left them.                    *)
LEMMA FrameInvStep == ASSUME Inv, TypeOK', [Next]_vars PROVE FrameInv'
<1> USE ThreadFacts DEF Inv, TypeOK, FrameInv, OneSupervisor, CommandInv, LockInv,
        QuietInv, MonitorInv, RecoveryInv, FreshInv, FramePCs, Holding, Recovering,
        IsGenerationCurrent, Entry, InCharge, mgrVars, procVars, cmdVars, locals
<1>1. ASSUME NEW t \in Threads, Frame(t) PROVE FrameInv'
  <2>1. CASE CheckDependency(t)
    BY <2>1 DEF CheckDependency
  <2>2. CASE DependencyFails(t)
    BY <2>2 DEF DependencyFails, FrameFails
  <2>3. CASE Prepare(t)
    BY <2>3 DEF Prepare, Goto, SetState
  <2>4. CASE PrepareFails(t)
    BY <2>4 DEF PrepareFails, FrameFails
  <2>5. CASE Launch(t)
    BY <2>5 DEF Launch, Goto
  <2>6. CASE LaunchFails(t)
    BY <2>6 DEF LaunchFails, SetState, FrameFails
  <2>7. CASE RecordHandle(t)
    BY <2>7 DEF RecordHandle, Goto
  <2>8. CASE BecomeHealthy(t)
    BY <2>8 DEF BecomeHealthy, Goto, SetState
  <2>9. CASE NotReady(t)
    BY <2>9 DEF NotReady, Goto, SetState
  <2>10. CASE DropHandle(t)
    BY <2>10 DEF DropHandle, Goto
  <2>11. CASE KillUnready(t)
    BY <2>11 DEF KillUnready, StopSucceeds, StopFails, FrameFails
  <2> QED
    BY <1>1, <2>1, <2>2, <2>3, <2>4, <2>5, <2>6, <2>7, <2>8, <2>9, <2>10, <2>11 DEF Frame
<1>2. CASE CommandStep
  <2>1. CASE RestartLocks
    BY <2>1 DEF RestartLocks, Invalidate, Goto, SetState
  <2>2. CASE StopAllLocks
    BY <2>2 DEF StopAllLocks, Invalidate, Goto, SetState
  <2>3. CASE StopService
    BY <2>3 DEF StopService, Goto, StopSucceeds
  <2>4. CASE StopServiceFails
    BY <2>4 DEF StopServiceFails, StopFails
  <2>5. CASE RestartCleansUp
    BY <2>5 DEF RestartCleansUp, EnterFrame
  <2>6. CASE RestartCleanupFails
    BY <2>6 DEF RestartCleanupFails, Goto
  <2>7. CASE StopAllContinues
    BY <2>7 DEF StopAllContinues, Invalidate, SetState
  <2>8. CASE StopAllReturns
    BY <2>8 DEF StopAllReturns, Goto
  <2>9. CASE RestartReturns
    BY <2>9 DEF RestartReturns, SpawnMonitor
  <2>10. CASE StartAllContinues
    BY <2>10 DEF StartAllContinues, SpawnMonitor
  <2>11. CASE StartAllReturns
    BY <2>11 DEF StartAllReturns, SpawnMonitor
  <2> QED
    BY <1>1, <1>2, <2>1, <2>2, <2>3, <2>4, <2>5, <2>6, <2>7, <2>8, <2>9, <2>10,
       <2>11 DEF CommandStep
<1>3. ASSUME NEW t \in Handles, MonitorStep(t) PROVE FrameInv'
  <2>1. CASE NoticeExit(t)
    BY <2>1 DEF NoticeExit, MonitorReturns, Goto, OwnsService, LoseProcess, SetState
  <2>2. CASE BeginBackoff(t)
    BY <2>2 DEF BeginBackoff, MonitorReturns, Goto
  <2>3. CASE GiveUp(t)
    BY <2>3 DEF GiveUp, MonitorReturns, SetUnhealthyIfCurrent
  <2>4. CASE BackoffCancelled(t)
    BY <2>4 DEF BackoffCancelled, MonitorReturns, SetUnhealthyIfCurrent
  <2>5. CASE BackoffExpires(t)
    BY <2>5 DEF BackoffExpires, MonitorReturns, Goto
  <2>6. CASE RecoveryLocks(t)
    BY <2>6 DEF RecoveryLocks, MonitorReturns, EnterFrame
  <2>7. CASE RecoveryReturns(t)
    BY <2>7 DEF RecoveryReturns, Goto
  <2>8. CASE AdoptHandle(t)
    BY <2>8 DEF AdoptHandle, MonitorReturns, Goto
  <2>9. CASE NoticeNextExit(t)
    BY <2>9 DEF NoticeNextExit, MonitorReturns, Goto, OwnsService, LoseProcess, SetState
  <2> QED
    BY <1>1, <1>3, <2>1, <2>2, <2>3, <2>4, <2>5, <2>6, <2>7, <2>8, <2>9 DEF MonitorStep
<1>4. CASE Request
  <2>1. CASE StartAll
    BY <2>1 DEF StartAll, EnterFrame
  <2>2. CASE Publish
    BY <2>2 DEF Publish
  <2>3. CASE StopAll
    BY <2>3 DEF StopAll, Goto
  <2>4. ASSUME NEW s \in Services, Restart(s) PROVE FrameInv'
    BY <2>4 DEF Restart, Goto
  <2> QED
    BY <1>4, <2>1, <2>2, <2>3, <2>4 DEF Request
<1>5. ASSUME NEW p \in Handles, ProcessExits(p) PROVE FrameInv'
  BY <1>5 DEF ProcessExits
<1>6. CASE UNCHANGED vars
  BY <1>6 DEF vars
<1> QED
  BY <1>1, <1>2, <1>3, <1>4, <1>5, <1>6 DEF Next

(* The entries of a service are as its current monitor left them.          *)
LEMMA RecoveryInvStep == ASSUME Inv, TypeOK', [Next]_vars PROVE RecoveryInv'
<1> USE ThreadFacts, StartedFacts DEF Inv, TypeOK, FrameInv, OneSupervisor, MonitorInv,
        RecoveryInv, HandleInv, FramePCs, Holding, Recovering, IsGenerationCurrent,
        Entry, InCharge, mgrVars, procVars, cmdVars, locals
<1>1. ASSUME NEW t \in Threads, Frame(t) PROVE RecoveryInv'
  <2>1. CASE CheckDependency(t)
    BY <2>1 DEF CheckDependency
  <2>2. CASE DependencyFails(t)
    BY <2>2 DEF DependencyFails, FrameFails
  <2>3. CASE Prepare(t)
    BY <2>3 DEF Prepare, Goto, SetState
  <2>4. CASE PrepareFails(t)
    BY <2>4 DEF PrepareFails, FrameFails
  <2>5. CASE Launch(t)
    BY <2>5 DEF Launch, Goto
  <2>6. CASE LaunchFails(t)
    BY <2>6 DEF LaunchFails, SetState, FrameFails
  <2>7. CASE RecordHandle(t)
    BY <2>7 DEF RecordHandle, Goto
  <2>8. CASE BecomeHealthy(t)
    BY <2>8 DEF BecomeHealthy, Goto, SetState
  <2>9. CASE NotReady(t)
    BY <2>9 DEF NotReady, Goto, SetState
  <2>10. CASE DropHandle(t)
    BY <2>10 DEF DropHandle, Goto
  <2>11. CASE KillUnready(t)
    BY <2>11 DEF KillUnready, StopSucceeds, StopFails, FrameFails
  <2> QED
    BY <1>1, <2>1, <2>2, <2>3, <2>4, <2>5, <2>6, <2>7, <2>8, <2>9, <2>10, <2>11 DEF Frame
<1>2. CASE CommandStep
  <2>1. CASE RestartLocks
    BY <2>1 DEF RestartLocks, Invalidate, Goto, SetState
  <2>2. CASE StopAllLocks
    BY <2>2 DEF StopAllLocks, Invalidate, Goto, SetState
  <2>3. CASE StopService
    BY <2>3 DEF StopService, Goto, StopSucceeds
  <2>4. CASE StopServiceFails
    BY <2>4 DEF StopServiceFails, StopFails
  <2>5. CASE RestartCleansUp
    BY <2>5 DEF RestartCleansUp, EnterFrame
  <2>6. CASE RestartCleanupFails
    BY <2>6 DEF RestartCleanupFails, Goto
  <2>7. CASE StopAllContinues
    BY <2>7 DEF StopAllContinues, Invalidate, SetState
  <2>8. CASE StopAllReturns
    BY <2>8 DEF StopAllReturns, Goto
  <2>9. CASE RestartReturns
    BY <2>9 DEF RestartReturns, SpawnMonitor
  <2>10. CASE StartAllContinues
    BY <2>10 DEF StartAllContinues, SpawnMonitor
  <2>11. CASE StartAllReturns
    BY <2>11 DEF StartAllReturns, SpawnMonitor
  <2> QED
    BY <1>1, <1>2, <2>1, <2>2, <2>3, <2>4, <2>5, <2>6, <2>7, <2>8, <2>9, <2>10,
       <2>11 DEF CommandStep
<1>3. ASSUME NEW t \in Handles, MonitorStep(t) PROVE RecoveryInv'
  <2>1. CASE NoticeExit(t)
    BY <2>1 DEF NoticeExit, MonitorReturns, Goto, OwnsService, LoseProcess, SetState
  <2>2. CASE BeginBackoff(t)
    BY <2>2 DEF BeginBackoff, MonitorReturns, Goto
  <2>3. CASE GiveUp(t)
    BY <2>3 DEF GiveUp, MonitorReturns, SetUnhealthyIfCurrent
  <2>4. CASE BackoffCancelled(t)
    BY <2>4 DEF BackoffCancelled, MonitorReturns, SetUnhealthyIfCurrent
  <2>5. CASE BackoffExpires(t)
    BY <2>5 DEF BackoffExpires, MonitorReturns, Goto
  <2>6. CASE RecoveryLocks(t)
    BY <2>6 DEF RecoveryLocks, MonitorReturns, EnterFrame
  <2>7. CASE RecoveryReturns(t)
    BY <2>7 DEF RecoveryReturns, Goto
  <2>8. CASE AdoptHandle(t)
    BY <2>8 DEF AdoptHandle, MonitorReturns, Goto
  <2>9. CASE NoticeNextExit(t)
    BY <2>9 DEF NoticeNextExit, MonitorReturns, Goto, OwnsService, LoseProcess, SetState
  <2> QED
    BY <1>1, <1>3, <2>1, <2>2, <2>3, <2>4, <2>5, <2>6, <2>7, <2>8, <2>9 DEF MonitorStep
<1>4. CASE Request
  <2>1. CASE StartAll
    BY <2>1 DEF StartAll, EnterFrame
  <2>2. CASE Publish
    BY <2>2 DEF Publish
  <2>3. CASE StopAll
    BY <2>3 DEF StopAll, Goto
  <2>4. ASSUME NEW s \in Services, Restart(s) PROVE RecoveryInv'
    BY <2>4 DEF Restart, Goto
  <2> QED
    BY <1>4, <2>1, <2>2, <2>3, <2>4 DEF Request
<1>5. ASSUME NEW p \in Handles, ProcessExits(p) PROVE RecoveryInv'
  BY <1>5 DEF ProcessExits
<1>6. CASE UNCHANGED vars
  BY <1>6 DEF vars
<1> QED
  BY <1>1, <1>2, <1>3, <1>4, <1>5, <1>6 DEF Next

(* A Stopped service stays without a handle and without a current monitor. *)
LEMMA QuietInvStep == ASSUME Inv, TypeOK', [Next]_vars PROVE QuietInv'
<1> USE ThreadFacts DEF Inv, TypeOK, QuietInv, FrameInv, MonitorInv, RecoveryInv,
        CommandInv, FramePCs, Recovering, IsGenerationCurrent, Entry, mgrVars, procVars,
        cmdVars, locals
<1>1. ASSUME NEW t \in Threads, Frame(t) PROVE QuietInv'
  <2>1. CASE CheckDependency(t)
    BY <2>1 DEF CheckDependency
  <2>2. CASE DependencyFails(t)
    BY <2>2 DEF DependencyFails, FrameFails
  <2>3. CASE Prepare(t)
    BY <2>3 DEF Prepare, Goto, SetState
  <2>4. CASE PrepareFails(t)
    BY <2>4 DEF PrepareFails, FrameFails
  <2>5. CASE Launch(t)
    BY <2>5 DEF Launch, Goto
  <2>6. CASE LaunchFails(t)
    BY <2>6 DEF LaunchFails, SetState, FrameFails
  <2>7. CASE RecordHandle(t)
    BY <2>7 DEF RecordHandle, Goto
  <2>8. CASE BecomeHealthy(t)
    BY <2>8 DEF BecomeHealthy, Goto, SetState
  <2>9. CASE NotReady(t)
    BY <2>9 DEF NotReady, Goto, SetState
  <2>10. CASE DropHandle(t)
    BY <2>10 DEF DropHandle, Goto
  <2>11. CASE KillUnready(t)
    BY <2>11 DEF KillUnready, StopSucceeds, StopFails, FrameFails
  <2> QED
    BY <1>1, <2>1, <2>2, <2>3, <2>4, <2>5, <2>6, <2>7, <2>8, <2>9, <2>10, <2>11 DEF Frame
<1>2. CASE CommandStep
  <2>1. CASE RestartLocks
    BY <2>1 DEF RestartLocks, Invalidate, Goto, SetState
  <2>2. CASE StopAllLocks
    BY <2>2 DEF StopAllLocks, Invalidate, Goto, SetState
  <2>3. CASE StopService
    BY <2>3 DEF StopService, Goto, StopSucceeds
  <2>4. CASE StopServiceFails
    BY <2>4 DEF StopServiceFails, StopFails
  <2>5. CASE RestartCleansUp
    BY <2>5 DEF RestartCleansUp, EnterFrame
  <2>6. CASE RestartCleanupFails
    BY <2>6 DEF RestartCleanupFails, Goto
  <2>7. CASE StopAllContinues
    BY <2>7 DEF StopAllContinues, Invalidate, SetState
  <2>8. CASE StopAllReturns
    BY <2>8 DEF StopAllReturns, Goto
  <2>9. CASE RestartReturns
    BY <2>9 DEF RestartReturns, SpawnMonitor
  <2>10. CASE StartAllContinues
    BY <2>10 DEF StartAllContinues, SpawnMonitor
  <2>11. CASE StartAllReturns
    BY <2>11 DEF StartAllReturns, SpawnMonitor
  <2> QED
    BY <1>1, <1>2, <2>1, <2>2, <2>3, <2>4, <2>5, <2>6, <2>7, <2>8, <2>9, <2>10,
       <2>11 DEF CommandStep
<1>3. ASSUME NEW t \in Handles, MonitorStep(t) PROVE QuietInv'
  <2>1. CASE NoticeExit(t)
    BY <2>1 DEF NoticeExit, MonitorReturns, Goto, OwnsService, LoseProcess, SetState
  <2>2. CASE BeginBackoff(t)
    BY <2>2 DEF BeginBackoff, MonitorReturns, Goto
  <2>3. CASE GiveUp(t)
    BY <2>3 DEF GiveUp, MonitorReturns, SetUnhealthyIfCurrent
  <2>4. CASE BackoffCancelled(t)
    BY <2>4 DEF BackoffCancelled, MonitorReturns, SetUnhealthyIfCurrent
  <2>5. CASE BackoffExpires(t)
    BY <2>5 DEF BackoffExpires, MonitorReturns, Goto
  <2>6. CASE RecoveryLocks(t)
    BY <2>6 DEF RecoveryLocks, MonitorReturns, EnterFrame
  <2>7. CASE RecoveryReturns(t)
    BY <2>7 DEF RecoveryReturns, Goto
  <2>8. CASE AdoptHandle(t)
    BY <2>8 DEF AdoptHandle, MonitorReturns, Goto
  <2>9. CASE NoticeNextExit(t)
    BY <2>9 DEF NoticeNextExit, MonitorReturns, Goto, OwnsService, LoseProcess, SetState
  <2> QED
    BY <1>1, <1>3, <2>1, <2>2, <2>3, <2>4, <2>5, <2>6, <2>7, <2>8, <2>9 DEF MonitorStep
<1>4. CASE Request
  <2>1. CASE StartAll
    BY <2>1 DEF StartAll, EnterFrame
  <2>2. CASE Publish
    BY <2>2 DEF Publish
  <2>3. CASE StopAll
    BY <2>3 DEF StopAll, Goto
  <2>4. ASSUME NEW s \in Services, Restart(s) PROVE QuietInv'
    BY <2>4 DEF Restart, Goto
  <2> QED
    BY <1>4, <2>1, <2>2, <2>3, <2>4 DEF Request
<1>5. ASSUME NEW p \in Handles, ProcessExits(p) PROVE QuietInv'
  BY <1>5 DEF ProcessExits
<1>6. CASE UNCHANGED vars
  BY <1>6 DEF vars
<1> QED
  BY <1>1, <1>2, <1>3, <1>4, <1>5, <1>6 DEF Next

(* StopAll leaves Stopped services behind it.                              *)
LEMMA StopAllInvStep == ASSUME Inv, TypeOK', [Next]_vars PROVE StopAllInv'
<1> USE ThreadFacts, OrderFacts, CountType DEF Inv, TypeOK, StopAllInv, CommandInv,
        QuietInv, MonitorInv, FrameInv, LockInv, FramePCs, Recovering,
        IsGenerationCurrent, Entry, mgrVars, procVars, cmdVars, locals
<1>1. ASSUME NEW t \in Threads, Frame(t) PROVE StopAllInv'
  <2>1. CASE CheckDependency(t)
    BY <2>1 DEF CheckDependency
  <2>2. CASE DependencyFails(t)
    BY <2>2 DEF DependencyFails, FrameFails
  <2>3. CASE Prepare(t)
    BY <2>3 DEF Prepare, Goto, SetState
  <2>4. CASE PrepareFails(t)
    BY <2>4 DEF PrepareFails, FrameFails
  <2>5. CASE Launch(t)
    BY <2>5 DEF Launch, Goto
  <2>6. CASE LaunchFails(t)
    BY <2>6 DEF LaunchFails, SetState, FrameFails
  <2>7. CASE RecordHandle(t)
    BY <2>7 DEF RecordHandle, Goto
  <2>8. CASE BecomeHealthy(t)
    BY <2>8 DEF BecomeHealthy, Goto, SetState
  <2>9. CASE NotReady(t)
    BY <2>9 DEF NotReady, Goto, SetState
  <2>10. CASE DropHandle(t)
    BY <2>10 DEF DropHandle, Goto
  <2>11. CASE KillUnready(t)
    BY <2>11 DEF KillUnready, StopSucceeds, StopFails, FrameFails
  <2> QED
    BY <1>1, <2>1, <2>2, <2>3, <2>4, <2>5, <2>6, <2>7, <2>8, <2>9, <2>10, <2>11 DEF Frame
<1>2. CASE CommandStep
  <2>1. CASE RestartLocks
    BY <2>1 DEF RestartLocks, Invalidate, Goto, SetState
  <2>2. CASE StopAllLocks
    BY <2>2 DEF StopAllLocks, Invalidate, Goto, SetState
  <2>3. CASE StopService
    BY <2>3 DEF StopService, Goto, StopSucceeds
  <2>4. CASE StopServiceFails
    BY <2>4 DEF StopServiceFails, StopFails
  <2>5. CASE RestartCleansUp
    BY <2>5 DEF RestartCleansUp, EnterFrame
  <2>6. CASE RestartCleanupFails
    BY <2>6 DEF RestartCleanupFails, Goto
  <2>7. CASE StopAllContinues
    BY <2>7 DEF StopAllContinues, Invalidate, SetState
  <2>8. CASE StopAllReturns
    BY <2>8 DEF StopAllReturns, Goto
  <2>9. CASE RestartReturns
    BY <2>9 DEF RestartReturns, SpawnMonitor
  <2>10. CASE StartAllContinues
    BY <2>10 DEF StartAllContinues, SpawnMonitor
  <2>11. CASE StartAllReturns
    BY <2>11 DEF StartAllReturns, SpawnMonitor
  <2> QED
    BY <1>1, <1>2, <2>1, <2>2, <2>3, <2>4, <2>5, <2>6, <2>7, <2>8, <2>9, <2>10,
       <2>11 DEF CommandStep
<1>3. ASSUME NEW t \in Handles, MonitorStep(t) PROVE StopAllInv'
  <2>1. CASE NoticeExit(t)
    BY <2>1 DEF NoticeExit, MonitorReturns, Goto, OwnsService, LoseProcess, SetState
  <2>2. CASE BeginBackoff(t)
    BY <2>2 DEF BeginBackoff, MonitorReturns, Goto
  <2>3. CASE GiveUp(t)
    BY <2>3 DEF GiveUp, MonitorReturns, SetUnhealthyIfCurrent
  <2>4. CASE BackoffCancelled(t)
    BY <2>4 DEF BackoffCancelled, MonitorReturns, SetUnhealthyIfCurrent
  <2>5. CASE BackoffExpires(t)
    BY <2>5 DEF BackoffExpires, MonitorReturns, Goto
  <2>6. CASE RecoveryLocks(t)
    BY <2>6 DEF RecoveryLocks, MonitorReturns, EnterFrame
  <2>7. CASE RecoveryReturns(t)
    BY <2>7 DEF RecoveryReturns, Goto
  <2>8. CASE AdoptHandle(t)
    BY <2>8 DEF AdoptHandle, MonitorReturns, Goto
  <2>9. CASE NoticeNextExit(t)
    BY <2>9 DEF NoticeNextExit, MonitorReturns, Goto, OwnsService, LoseProcess, SetState
  <2> QED
    BY <1>1, <1>3, <2>1, <2>2, <2>3, <2>4, <2>5, <2>6, <2>7, <2>8, <2>9 DEF MonitorStep
<1>4. CASE Request
  <2>1. CASE StartAll
    BY <2>1 DEF StartAll, EnterFrame
  <2>2. CASE Publish
    BY <2>2 DEF Publish
  <2>3. CASE StopAll
    BY <2>3 DEF StopAll, Goto
  <2>4. ASSUME NEW s \in Services, Restart(s) PROVE StopAllInv'
    BY <2>4 DEF Restart, Goto
  <2> QED
    BY <1>4, <2>1, <2>2, <2>3, <2>4 DEF Request
<1>5. ASSUME NEW p \in Handles, ProcessExits(p) PROVE StopAllInv'
  BY <1>5 DEF ProcessExits
<1>6. CASE UNCHANGED vars
  BY <1>6 DEF vars
<1> QED
  BY <1>1, <1>2, <1>3, <1>4, <1>5, <1>6 DEF Next

(* At most one thread is in charge of a service.                           *)
LEMMA OneSupervisorStep == ASSUME Inv, TypeOK', [Next]_vars PROVE OneSupervisor'
<1>a. CASE StartAllContinues
  BY <1>a, StartAllContinuesOneSupervisor
<1> USE ThreadFacts DEF Inv, TypeOK, OneSupervisor, QuietInv, CommandInv, FreshInv,
        MonitorInv, HandleInv, FrameInv, LockInv, FramePCs, Holding, Recovering,
        IsGenerationCurrent, Entry, InCharge, mgrVars, procVars, cmdVars, locals
<1>1. ASSUME NEW t \in Threads, Frame(t) PROVE OneSupervisor'
  <2>1. CASE CheckDependency(t)
    BY <2>1 DEF CheckDependency
  <2>2. CASE DependencyFails(t)
    BY <2>2 DEF DependencyFails, FrameFails
  <2>3. CASE Prepare(t)
    BY <2>3 DEF Prepare, Goto, SetState
  <2>4. CASE PrepareFails(t)
    BY <2>4 DEF PrepareFails, FrameFails
  <2>5. CASE Launch(t)
    BY <2>5 DEF Launch, Goto
  <2>6. CASE LaunchFails(t)
    BY <2>6 DEF LaunchFails, SetState, FrameFails
  <2>7. CASE RecordHandle(t)
    BY <2>7 DEF RecordHandle, Goto
  <2>8. CASE BecomeHealthy(t)
    BY <2>8 DEF BecomeHealthy, Goto, SetState
  <2>9. CASE NotReady(t)
    BY <2>9 DEF NotReady, Goto, SetState
  <2>10. CASE DropHandle(t)
    BY <2>10 DEF DropHandle, Goto
  <2>11. CASE KillUnready(t)
    BY <2>11 DEF KillUnready, StopSucceeds, StopFails, FrameFails
  <2> QED
    BY <1>1, <2>1, <2>2, <2>3, <2>4, <2>5, <2>6, <2>7, <2>8, <2>9, <2>10, <2>11 DEF Frame
<1>2. CASE CommandStep
  <2>1. CASE RestartLocks
    BY <2>1 DEF RestartLocks, Invalidate, Goto, SetState
  <2>2. CASE StopAllLocks
    BY <2>2 DEF StopAllLocks, Invalidate, Goto, SetState
  <2>3. CASE StopService
    BY <2>3 DEF StopService, Goto, StopSucceeds
  <2>4. CASE StopServiceFails
    BY <2>4 DEF StopServiceFails, StopFails
  <2>5. CASE RestartCleansUp
    BY <2>5 DEF RestartCleansUp, EnterFrame
  <2>6. CASE RestartCleanupFails
    BY <2>6 DEF RestartCleanupFails, Goto
  <2>7. CASE StopAllContinues
    BY <2>7, SMTT(30) DEF StopAllContinues, Invalidate, SetState
  <2>8. CASE StopAllReturns
    BY <2>8 DEF StopAllReturns, Goto
  <2>9. CASE RestartReturns
    BY <2>9 DEF RestartReturns, SpawnMonitor
  <2>10. CASE StartAllContinues
    BY <2>10, <1>a
  <2>11. CASE StartAllReturns
    BY <2>11 DEF StartAllReturns, SpawnMonitor
  <2> QED
    BY <1>1, <1>2, <2>1, <2>2, <2>3, <2>4, <2>5, <2>6, <2>7, <2>8, <2>9, <2>10,
       <2>11 DEF CommandStep
<1>3. ASSUME NEW t \in Handles, MonitorStep(t) PROVE OneSupervisor'
  <2>1. CASE NoticeExit(t)
    BY <2>1 DEF NoticeExit, MonitorReturns, Goto, OwnsService, LoseProcess, SetState
  <2>2. CASE BeginBackoff(t)
    BY <2>2 DEF BeginBackoff, MonitorReturns, Goto
  <2>3. CASE GiveUp(t)
    BY <2>3 DEF GiveUp, MonitorReturns, SetUnhealthyIfCurrent
  <2>4. CASE BackoffCancelled(t)
    BY <2>4, SMTT(30) DEF BackoffCancelled, MonitorReturns, SetUnhealthyIfCurrent
  <2>5. CASE BackoffExpires(t)
    BY <2>5 DEF BackoffExpires, MonitorReturns, Goto
  <2>6. CASE RecoveryLocks(t)
    BY <2>6 DEF RecoveryLocks, MonitorReturns, EnterFrame
  <2>7. CASE RecoveryReturns(t)
    BY <2>7 DEF RecoveryReturns, Goto
  <2>8. CASE AdoptHandle(t)
    BY <2>8, SMTT(30) DEF AdoptHandle, MonitorReturns, Goto
  <2>9. CASE NoticeNextExit(t)
    BY <2>9 DEF NoticeNextExit, MonitorReturns, Goto, OwnsService, LoseProcess, SetState
  <2> QED
    BY <1>1, <1>3, <2>1, <2>2, <2>3, <2>4, <2>5, <2>6, <2>7, <2>8, <2>9 DEF MonitorStep
<1>4. CASE Request
  <2>1. CASE StartAll
    BY <2>1, StartedFacts, OrderFacts, CountType DEF StartAll, EnterFrame
  <2>2. CASE Publish
    BY <2>2 DEF Publish
  <2>3. CASE StopAll
    BY <2>3 DEF StopAll, Goto
  <2>4. ASSUME NEW s \in Services, Restart(s) PROVE OneSupervisor'
    BY <2>4 DEF Restart, Goto
  <2> QED
    BY <1>4, <2>1, <2>2, <2>3, <2>4 DEF Request
<1>5. ASSUME NEW p \in Handles, ProcessExits(p) PROVE OneSupervisor'
  BY <1>5 DEF ProcessExits
<1>6. CASE UNCHANGED vars
  BY <1>6 DEF vars
<1> QED
  BY <1>1, <1>2, <1>3, <1>4, <1>5, <1>6 DEF Next

(* Every Starting or Healthy service has a thread in charge.               *)
LEMMA ActiveIsSupervisedStep == ASSUME Inv, TypeOK', [Next]_vars PROVE ActiveIsSupervised'
<1>a. ASSUME NEW t \in Threads, Launch(t) PROVE ActiveIsSupervised'
  BY <1>a, LaunchSupervised
<1>b. ASSUME NEW t \in Threads, BecomeHealthy(t) PROVE ActiveIsSupervised'
  BY <1>b, BecomeHealthySupervised
<1>c. CASE RestartReturns
  BY <1>c, RestartReturnsSupervised
<1>d. CASE StartAllContinues
  BY <1>d, StartAllContinuesSupervised
<1>e. CASE StartAllReturns
  BY <1>e, StartAllReturnsSupervised
<1>f. ASSUME NEW t \in Handles, RecoveryLocks(t) PROVE ActiveIsSupervised'
  BY <1>f, RecoveryLocksSupervised
<1>g. ASSUME NEW t \in Handles, NoticeNextExit(t) PROVE ActiveIsSupervised'
  BY <1>g, NoticeNextExitSupervised
<1>h. CASE StartAll
  BY <1>h, StartAllSupervised
<1>n. ASSUME NEW t \in Handles, NoticeExit(t) PROVE ActiveIsSupervised'
  BY <1>n, NoticeExitSupervised
<1> USE ThreadFacts DEF Inv, TypeOK, ActiveIsSupervised, OneSupervisor, FrameInv,
        MonitorInv, RecoveryInv, HandleInv, FramePCs, Holding, Recovering,
        IsGenerationCurrent, Entry, InCharge, Supervised, mgrVars, procVars, cmdVars,
        locals
<1>1. ASSUME NEW t \in Threads, Frame(t) PROVE ActiveIsSupervised'
  <2>1. CASE CheckDependency(t)
    BY <2>1 DEF CheckDependency
  <2>2. CASE DependencyFails(t)
    BY <2>2 DEF DependencyFails, FrameFails
  <2>3. CASE Prepare(t)
    BY <2>3 DEF Prepare, Goto, SetState
  <2>4. CASE PrepareFails(t)
    BY <2>4 DEF PrepareFails, FrameFails
  <2>5. CASE Launch(t)
    BY <2>5, <1>a
  <2>6. CASE LaunchFails(t)
    BY <2>6, SMTT(30) DEF LaunchFails, SetState, FrameFails
  <2>7. CASE RecordHandle(t)
    BY <2>7 DEF RecordHandle, Goto
  <2>8. CASE BecomeHealthy(t)
    BY <2>8, <1>b
  <2>9. CASE NotReady(t)
    BY <2>9 DEF NotReady, Goto, SetState
  <2>10. CASE DropHandle(t)
    BY <2>10 DEF DropHandle, Goto
  <2>11. CASE KillUnready(t)
    BY <2>11 DEF KillUnready, StopSucceeds, StopFails, FrameFails
  <2> QED
    BY <1>1, <2>1, <2>2, <2>3, <2>4, <2>5, <2>6, <2>7, <2>8, <2>9, <2>10, <2>11 DEF Frame
<1>2. CASE CommandStep
  <2>1. CASE RestartLocks
    BY <2>1, SMTT(30) DEF RestartLocks, Invalidate, Goto, SetState
  <2>2. CASE StopAllLocks
    BY <2>2, SMTT(30) DEF StopAllLocks, Invalidate, Goto, SetState
  <2>3. CASE StopService
    BY <2>3 DEF StopService, Goto, StopSucceeds
  <2>4. CASE StopServiceFails
    BY <2>4 DEF StopServiceFails, StopFails
  <2>5. CASE RestartCleansUp
    BY <2>5 DEF RestartCleansUp, EnterFrame
  <2>6. CASE RestartCleanupFails
    BY <2>6 DEF RestartCleanupFails, Goto
  <2>7. CASE StopAllContinues
    BY <2>7, SMTT(30) DEF StopAllContinues, Invalidate, SetState
  <2>8. CASE StopAllReturns
    BY <2>8 DEF StopAllReturns, Goto
  <2>9. CASE RestartReturns
    BY <2>9, <1>c
  <2>10. CASE StartAllContinues
    BY <2>10, <1>d
  <2>11. CASE StartAllReturns
    BY <2>11, <1>e
  <2> QED
    BY <1>1, <1>2, <2>1, <2>2, <2>3, <2>4, <2>5, <2>6, <2>7, <2>8, <2>9, <2>10,
       <2>11 DEF CommandStep
<1>3. ASSUME NEW t \in Handles, MonitorStep(t) PROVE ActiveIsSupervised'
  <2>1. CASE NoticeExit(t)
    BY <2>1, <1>n
  <2>2. CASE BeginBackoff(t)
    BY <2>2 DEF BeginBackoff, MonitorReturns, Goto
  <2>3. CASE GiveUp(t)
    BY <2>3, SMTT(30) DEF GiveUp, MonitorReturns, SetUnhealthyIfCurrent
  <2>4. CASE BackoffCancelled(t)
    BY <2>4, SMTT(30) DEF BackoffCancelled, MonitorReturns, SetUnhealthyIfCurrent
  <2>5. CASE BackoffExpires(t)
    BY <2>5 DEF BackoffExpires, MonitorReturns, Goto
  <2>6. CASE RecoveryLocks(t)
    BY <2>6, <1>f
  <2>7. CASE RecoveryReturns(t)
    BY <2>7 DEF RecoveryReturns, Goto
  <2>8. CASE AdoptHandle(t)
    BY <2>8 DEF AdoptHandle, MonitorReturns, Goto
  <2>9. CASE NoticeNextExit(t)
    BY <2>9, <1>g
  <2> QED
    BY <1>1, <1>3, <2>1, <2>2, <2>3, <2>4, <2>5, <2>6, <2>7, <2>8, <2>9 DEF MonitorStep
<1>4. CASE Request
  <2>1. CASE StartAll
    BY <2>1, <1>h
  <2>2. CASE Publish
    BY <2>2 DEF Publish
  <2>3. CASE StopAll
    BY <2>3 DEF StopAll, Goto
  <2>4. ASSUME NEW s \in Services, Restart(s) PROVE ActiveIsSupervised'
    BY <2>4 DEF Restart, Goto
  <2> QED
    BY <1>4, <2>1, <2>2, <2>3, <2>4 DEF Request
<1>5. ASSUME NEW p \in Handles, ProcessExits(p) PROVE ActiveIsSupervised'
  BY <1>5 DEF ProcessExits
<1>6. CASE UNCHANGED vars
  BY <1>6 DEF vars
<1> QED
  BY <1>1, <1>2, <1>3, <1>4, <1>5, <1>6 DEF Next

(* Every live process is recorded or held.                                 *)
LEMMA ProcessInvStep == ASSUME Inv, TypeOK', [Next]_vars PROVE ProcessInv'
<1>a. ASSUME NEW t \in Handles, NoticeExit(t) PROVE ProcessInv'
  BY <1>a, NoticeExitProcesses
<1>b. ASSUME NEW t \in Handles, NoticeNextExit(t) PROVE ProcessInv'
  BY <1>b, NoticeNextExitProcesses
<1> USE ThreadFacts DEF Inv, TypeOK, mgrVars, procVars, cmdVars, locals
<1>1. ASSUME NEW t \in Threads, Frame(t) PROVE ProcessInv'
  <2>1. CASE CheckDependency(t)
    BY <2>1, ProcessesKept DEF CheckDependency
  <2>2. CASE DependencyFails(t)
    BY <2>2, ProcessesKept DEF DependencyFails, FrameFails
  <2>3. CASE Prepare(t)
    BY <2>3, ProcessesKept DEF Prepare, Goto, SetState
  <2>4. CASE PrepareFails(t)
    BY <2>4, ProcessesKept DEF PrepareFails, FrameFails
  <2>5. CASE Launch(t)
    BY <2>5, LaunchProcesses
  <2>6. CASE LaunchFails(t)
    BY <2>6, ProcessesKept DEF LaunchFails, SetState, FrameFails
  <2>7. CASE RecordHandle(t)
    BY <2>7, StartedFacts DEF RecordHandle, Goto, ProcessInv, Managed, HandleInv,
                  FrameInv, Entry, CommandInv, Holding
  <2>8. CASE BecomeHealthy(t)
    BY <2>8, ProcessesKept DEF BecomeHealthy, Goto, SetState
  <2>9. CASE NotReady(t)
    BY <2>9, ProcessesKept DEF NotReady, Goto, SetState
  <2>10. CASE DropHandle(t)
    BY <2>10 DEF DropHandle, Goto, ProcessInv, Managed, HandleInv,
                  FrameInv, Entry, CommandInv, Holding
  <2>11. CASE KillUnready(t)
    BY <2>11 DEF KillUnready, StopSucceeds, StopFails, FrameFails, ProcessInv, Managed,
                  HandleInv, FrameInv, Entry, CommandInv, Holding
  <2> QED
    BY <1>1, <2>1, <2>2, <2>3, <2>4, <2>5, <2>6, <2>7, <2>8, <2>9, <2>10, <2>11 DEF Frame
<1>2. CASE CommandStep
  <2>1. CASE RestartLocks
    BY <2>1, InvalidateProcesses DEF RestartLocks, Goto
  <2>2. CASE StopAllLocks
    <3>1. order[cursor] \in Services
      BY <2>2, OrderFacts DEF StopAllLocks
    <3> QED
      BY <2>2, <3>1, InvalidateProcesses DEF StopAllLocks, Goto
  <2>3. CASE StopService
    BY <2>3 DEF StopService, Goto, StopSucceeds, ProcessInv, Managed, HandleInv,
                  FrameInv, Entry, CommandInv, Holding
  <2>4. CASE StopServiceFails
    BY <2>4 DEF StopServiceFails, StopFails, ProcessInv, Managed, HandleInv,
                  FrameInv, Entry, CommandInv, Holding
  <2>5. CASE RestartCleansUp
    BY <2>5, ProcessesKept DEF RestartCleansUp, EnterFrame
  <2>6. CASE RestartCleanupFails
    BY <2>6, ProcessesKept DEF RestartCleanupFails, Goto
  <2>7. CASE StopAllContinues
    <3>1. order[cursor - 1] \in Services
      BY <2>7, OrderFacts, CountType DEF StopAllContinues
    <3> QED
      BY <2>7, <3>1, InvalidateProcesses DEF StopAllContinues
  <2>8. CASE StopAllReturns
    BY <2>8, ProcessesKept DEF StopAllReturns, Goto
  <2>9. CASE RestartReturns
    BY <2>9, ProcessesKept, StartedFacts
       DEF RestartReturns, SpawnMonitor, HandleInv, Holding
  <2>10. CASE StartAllContinues
    BY <2>10, ProcessesKept, StartedFacts
       DEF StartAllContinues, SpawnMonitor, HandleInv, Holding
  <2>11. CASE StartAllReturns
    BY <2>11, ProcessesKept, StartedFacts
       DEF StartAllReturns, SpawnMonitor, HandleInv, Holding
  <2> QED
    BY <1>1, <1>2, <2>1, <2>2, <2>3, <2>4, <2>5, <2>6, <2>7, <2>8, <2>9, <2>10,
       <2>11 DEF CommandStep
<1>3. ASSUME NEW t \in Handles, MonitorStep(t) PROVE ProcessInv'
  <2>1. CASE NoticeExit(t)
    BY <2>1, <1>a
  <2>2. CASE BeginBackoff(t)
    BY <2>2, ProcessesKept DEF BeginBackoff, MonitorReturns, Goto
  <2>3. CASE GiveUp(t)
    BY <2>3, ProcessesKept DEF GiveUp, MonitorReturns, SetUnhealthyIfCurrent
  <2>4. CASE BackoffCancelled(t)
    BY <2>4, ProcessesKept DEF BackoffCancelled, MonitorReturns, SetUnhealthyIfCurrent
  <2>5. CASE BackoffExpires(t)
    BY <2>5, ProcessesKept DEF BackoffExpires, MonitorReturns, Goto
  <2>6. CASE RecoveryLocks(t)
    BY <2>6, ProcessesKept DEF RecoveryLocks, MonitorReturns, EnterFrame
  <2>7. CASE RecoveryReturns(t)
    BY <2>7, ProcessesKept DEF RecoveryReturns, Goto
  <2>8. CASE AdoptHandle(t)
    BY <2>8, ProcessesKept DEF AdoptHandle, MonitorReturns, Goto
  <2>9. CASE NoticeNextExit(t)
    BY <2>9, <1>b
  <2> QED
    BY <1>1, <1>3, <2>1, <2>2, <2>3, <2>4, <2>5, <2>6, <2>7, <2>8, <2>9 DEF MonitorStep
<1>4. CASE Request
  <2>1. CASE StartAll
    BY <2>1, ProcessesKept, StartedFacts DEF StartAll, EnterFrame, CommandInv
  <2>2. CASE Publish
    BY <2>2, ProcessesKept DEF Publish
  <2>3. CASE StopAll
    BY <2>3, ProcessesKept DEF StopAll, Goto, CommandInv
  <2>4. ASSUME NEW s \in Services, Restart(s) PROVE ProcessInv'
    BY <2>4, ProcessesKept, StartedFacts DEF Restart, Goto, CommandInv
  <2> QED
    BY <1>4, <2>1, <2>2, <2>3, <2>4 DEF Request
<1>5. ASSUME NEW p \in Handles, ProcessExits(p) PROVE ProcessInv'
  BY <1>5 DEF ProcessExits, ProcessInv, Managed
<1>6. CASE UNCHANGED vars
  BY <1>6, ProcessesKept DEF vars
<1> QED
  BY <1>1, <1>2, <1>3, <1>4, <1>5, <1>6 DEF Next

-----------------------------------------------------------------------------
LEMMA InitInv == Init => Inv
<1> SUFFICES ASSUME Init PROVE Inv
  OBVIOUS
<1>1. TypeOK /\ (cmd \in {"StartAll", "StopAll"} => cursor \in 1..Count)
  BY InitTypeInv DEF TypeInv, CursorOK
<1> USE ThreadFacts DEF Init
<1>2. LockInv /\ CommandInv
  BY DEF LockInv, CommandInv, FramePCs, Command, NoThread
<1>3. MonitorInv /\ HandleInv
  BY <1>1 DEF MonitorInv, HandleInv, FramePCs, Holding, TypeOK
<1>4. FreshInv
  BY CountType, OrderFacts DEF FreshInv
<1>5. FrameInv /\ RecoveryInv /\ QuietInv /\ StopAllInv /\ ProcessInv
  BY DEF FrameInv, RecoveryInv, QuietInv, StopAllInv, ProcessInv, Managed
<1>6. OneSupervisor /\ ActiveIsSupervised
  BY DEF OneSupervisor, ActiveIsSupervised, Supervised, InCharge, FramePCs, Recovering
<1> QED
  BY <1>1, <1>2, <1>3, <1>4, <1>5, <1>6 DEF Inv

LEMMA NextInv == Inv /\ [Next]_vars => Inv'
<1> SUFFICES ASSUME Inv, [Next]_vars PROVE Inv'
  OBVIOUS
<1>1. TypeInv'
  BY NextTypeInv DEF Inv, TypeInv, CursorOK
<1>2. TypeOK' /\ (cmd \in {"StartAll", "StopAll"} => cursor \in 1..Count)'
  BY <1>1 DEF TypeInv, CursorOK
<1>3. LockInv' /\ CommandInv' /\ MonitorInv' /\ HandleInv' /\ FreshInv' /\ FrameInv'
  BY <1>2, LockInvStep, CommandInvStep, MonitorInvStep, HandleInvStep, FreshInvStep,
     FrameInvStep
<1>4. /\ RecoveryInv' /\ QuietInv' /\ StopAllInv' /\ OneSupervisor'
      /\ ActiveIsSupervised' /\ ProcessInv'
  BY <1>2, RecoveryInvStep, QuietInvStep, StopAllInvStep, OneSupervisorStep,
     ActiveIsSupervisedStep, ProcessInvStep
<1> QED
  BY <1>2, <1>3, <1>4 DEF Inv

(* The inductive invariant holds in every reachable state.                 *)
THEOREM InvCorrect == Spec => []Inv
<1> QED
  BY InitInv, NextInv, PTL DEF Spec

(* No two threads are ever in charge of one service.                       *)
THEOREM OneSupervisorHolds == Spec => []OneSupervisor
<1>1. Inv => OneSupervisor
  BY DEF Inv
<1> QED
  BY <1>1, InvCorrect, PTL

(* No Starting or Healthy service is left without a thread in charge.      *)
THEOREM ActiveIsSupervisedHolds == Spec => []ActiveIsSupervised
<1>1. Inv => ActiveIsSupervised
  BY DEF Inv
<1> QED
  BY <1>1, InvCorrect, PTL

(* Nothing but a failed Stop leaks a process.                              *)
THEOREM NoOrphanHolds == Spec => []NoOrphan
<1>1. Inv => NoOrphan
  BY DEF Inv, ProcessInv, NoOrphan
<1> QED
  BY <1>1, InvCorrect, PTL

(* A Stopped service has no live process, unless the command is stopping   *)
(* it at this moment, or failed to.                                        *)
LEMMA StoppedHasNoProcess ==
  ASSUME Inv, NEW p \in Managed, state[svc[p]] = "stopped"
  PROVE  pc[Command] = "stop" /\ svc[Command] = svc[p] /\ h[Command] = p
<1>1. p \in Handles /\ p # NoHandle /\ svc[p] \in Services
  BY ThreadFacts, StartedFacts DEF Inv, TypeOK, Managed
<1>2. PICK t \in Threads :
        h[t] = p /\ pc[t] \in {"record", "kill", "stop"} /\ svc[t] = svc[p]
  BY <1>1 DEF Inv, ProcessInv, QuietInv
<1>3. pc[t] = "stop"
  BY <1>2 DEF Inv, FrameInv, Entry
<1>4. t = Command
  BY <1>3, ThreadFacts DEF Inv, MonitorInv
<1> QED
  BY <1>2, <1>3, <1>4

(* After Down, or an Up that gave up, everything is Stopped and nothing    *)
(* runs, whatever recoveries were in progress.                             *)
THEOREM DownStopsEverythingHolds == Spec => []DownStopsEverything
<1>1. Inv => DownStopsEverything
  <2> SUFFICES ASSUME Inv, cmd = "none", phase \in {"down", "abandoned"}
               PROVE  /\ Managed = {}
                      /\ \A s \in Services : state[s] = "stopped" /\ handles[s] = NoHandle
    BY DEF DownStopsEverything
  <2>1. \A s \in Services : state[s] = "stopped" /\ handles[s] = NoHandle
    BY DEF Inv, StopAllInv, QuietInv
  <2>2. ASSUME NEW p \in Managed PROVE FALSE
    <3>1. svc[p] \in Services
      BY ThreadFacts, StartedFacts DEF Inv, TypeOK, Managed
    <3>2. pc[Command] = "idle"
      BY DEF Inv, CommandInv
    <3> QED
      BY <2>1, <3>1, <3>2, StoppedHasNoProcess
  <2> QED
    BY <2>1, <2>2
<1> QED
  BY <1>1, InvCorrect, PTL

(* StopAll stops a service only after everything that depends on it.       *)
THEOREM StopsDependentsFirstHolds == Spec => []StopsDependentsFirst
<1>1. Inv => StopsDependentsFirst
  <2> SUFFICES ASSUME Inv, cmd = "StopAll", pc[Command] = "stop",
                      NEW u \in Services, svc[Command] \in Deps[u]
               PROVE  state[u] = "stopped" /\ LiveProcesses(u) = {}
    BY DEF StopsDependentsFirst
  <2>1. order \in Orders /\ cursor \in 1..Count /\ svc[Command] = order[cursor]
    BY DEF Inv, TypeOK, CommandInv
  <2>2. PICK i \in 1..Count : order[i] = u
    BY <2>1, OrderFacts
  <2>3. PICK j \in 1..(i-1) : order[j] = svc[Command]
    BY <2>1, <2>2 DEF Orders
  <2>4. j = cursor
    <3>1. j \in 1..Count
      BY CountType, <2>2, <2>3
    <3> QED
      BY <3>1, <2>1, <2>3, OrderFacts
  <2>5. i > cursor /\ u # svc[Command]
    BY <2>1, <2>2, <2>3, <2>4, OrderFacts, CountType
  <2>6. state[u] = "stopped"
    BY <2>2, <2>5, <2>1, CountType DEF Inv, StopAllInv
  <2>7. LiveProcesses(u) = {}
    BY <2>5, <2>6, StoppedHasNoProcess DEF LiveProcesses
  <2> QED
    BY <2>6, <2>7
<1> QED
  BY <1>1, InvCorrect, PTL

(* A service never has two live processes.                                 *)
THEOREM OneLiveProcessHolds == Spec => []OneLiveProcess
<1>1. Inv => OneLiveProcess
  <2> SUFFICES ASSUME Inv, NEW p \in Managed, NEW q \in Managed, svc[p] = svc[q]
               PROVE  p = q
    BY DEF OneLiveProcess
  <2> DEFINE Held(x, t) ==
        h[t] = x /\ pc[t] \in {"record", "kill", "stop"} /\ svc[t] = svc[x]
  <2>1. svc[p] \in Services /\ p # NoHandle /\ q # NoHandle
    BY ThreadFacts, StartedFacts DEF Inv, TypeOK, Managed
  <2>2. ASSUME NEW t \in Threads, pc[t] \in {"record", "kill", "stop"}
        PROVE  handles[svc[t]] = NoHandle
    <3>1. CASE pc[t] = "stop"
      BY <3>1, ThreadFacts DEF Inv, TypeOK, MonitorInv, CommandInv, QuietInv
    <3>2. CASE pc[t] \in {"record", "kill"}
      BY <3>2 DEF Inv, FrameInv, Entry
    <3> QED
      BY <2>2, <3>1, <3>2
  <2>3. \A x \in {p, q} : handles[svc[p]] = x \/ \E t \in Threads : Held(x, t)
    BY DEF Inv, ProcessInv
  <2>4. CASE handles[svc[p]] # NoHandle
    <3>1. ~ \E t \in Threads : Held(p, t) \/ Held(q, t)
      BY <2>2, <2>4
    <3> QED
      BY <2>3, <3>1
  <2>5. CASE handles[svc[p]] = NoHandle
    <3>1. PICK t \in Threads : Held(p, t)
      BY <2>1, <2>3, <2>5
    <3>2. PICK u \in Threads : Held(q, u)
      BY <2>1, <2>3, <2>5
    <3>3. CASE pc[t] # "stop" /\ pc[u] # "stop"
      <4>1. InCharge(t, svc[p]) /\ InCharge(u, svc[p])
        BY <3>1, <3>2, <3>3 DEF InCharge, FramePCs
      <4> QED
        BY <3>1, <3>2, <4>1, <2>1 DEF Inv, OneSupervisor
    <3>4. CASE pc[t] = "stop" \/ pc[u] = "stop"
      <4>1. state[svc[p]] = "stopped"
        BY <3>1, <3>2, <3>4, ThreadFacts DEF Inv, MonitorInv, CommandInv
      <4> QED
        BY <4>1, StoppedHasNoProcess
    <3> QED
      BY <3>3, <3>4
  <2> QED
    BY <2>4, <2>5
<1> QED
  BY <1>1, InvCorrect, PTL

(* startReadyMode takes a service out of Stopped only for a command.       *)
LEMMA FrameLeavesStopped ==
  ASSUME Inv, NEW t \in Threads, Frame(t), NEW s \in Services,
         state[s] = "stopped", state'[s] # "stopped"
  PROVE  pc[Command] \in FramePCs /\ svc[Command] = s
<1>1. pc[t] \in FramePCs
  BY DEF Frame, CheckDependency, DependencyFails, Prepare, PrepareFails, Launch,
         LaunchFails, RecordHandle, BecomeHealthy, NotReady, DropHandle, KillUnready, Goto,
         FramePCs
<1>2. \/ UNCHANGED state
      \/ \E v \in States : state' = [state EXCEPT ![svc[t]] = v]
  BY DEF Frame, CheckDependency, DependencyFails, Prepare, PrepareFails, Launch,
         LaunchFails, RecordHandle, BecomeHealthy, NotReady, DropHandle, KillUnready,
         SetState, mgrVars,
         States
<1>3. svc[t] = s
  BY <1>2 DEF Inv, TypeOK
<1>4. t \notin Handles
  BY <1>1, <1>3 DEF Inv, MonitorInv, QuietInv, Recovering
<1> QED
  BY <1>1, <1>3, <1>4, ThreadFacts

(* A monitor takes no service out of Stopped: its generation is stale.     *)
LEMMA MonitorKeepsStopped ==
  ASSUME Inv, NEW t \in Handles, MonitorStep(t), ~Frame(t), NEW s \in Services,
         state[s] = "stopped"
  PROVE  state'[s] = "stopped"
<1> USE DEF Inv, TypeOK
<1>1. svc[t] = s /\ pc[t] \in Recovering => ~IsGenerationCurrent(t)
  BY DEF QuietInv
<1>2. svc[t] = s => ~OwnsService(t)
  BY DEF OwnsService
<1>3. LoseProcess(t) /\ svc[t] # s => state'[s] = "stopped"
  BY DEF LoseProcess, SetState
<1>4. CASE NoticeExit(t)
  BY <1>2, <1>3, <1>4 DEF NoticeExit, mgrVars
<1>5. CASE NoticeNextExit(t)
  BY <1>2, <1>3, <1>5 DEF NoticeNextExit, mgrVars
<1>6. pc[t] \in {"loop", "backoff"} /\ SetUnhealthyIfCurrent(t) => state'[s] = "stopped"
  BY <1>1 DEF SetUnhealthyIfCurrent, Recovering
<1>7. CASE GiveUp(t)
  BY <1>6, <1>7 DEF GiveUp
<1>8. CASE BackoffCancelled(t)
  BY <1>6, <1>8 DEF BackoffCancelled
<1>9. CASE BeginBackoff(t) \/ BackoffExpires(t) \/ RecoveryLocks(t) \/ RecoveryReturns(t)
           \/ AdoptHandle(t)
  BY <1>9 DEF BeginBackoff, BackoffExpires, RecoveryLocks, RecoveryReturns, AdoptHandle,
              mgrVars
<1> QED
  BY <1>4, <1>5, <1>7, <1>8, <1>9 DEF MonitorStep

(* Only a command that starts a service takes it out of Stopped.           *)
LEMMA LeavesStopped ==
  ASSUME Inv, Next, NEW s \in Services, state[s] = "stopped", state'[s] # "stopped"
  PROVE  pc[Command] \in FramePCs /\ svc[Command] = s
<1> USE DEF mgrVars
<1>1. ASSUME NEW t \in Threads, Frame(t)
      PROVE  pc[Command] \in FramePCs /\ svc[Command] = s
  BY <1>1, FrameLeavesStopped
<1>2. ASSUME NEW t \in Handles, MonitorStep(t), ~Frame(t) PROVE FALSE
  BY <1>2, MonitorKeepsStopped
<1>3. ASSUME NEW r \in Services, SetState(r, "stopped") PROVE FALSE
  BY <1>3 DEF SetState, Inv, TypeOK
<1>4. ASSUME CommandStep, ~Frame(Command) PROVE FALSE
  <2>1. CASE RestartLocks \/ StopAllLocks \/ StopAllContinues
    <3>1. svc[Command] \in Services
      BY ThreadFacts DEF Inv, TypeOK
    <3>2. cmd = "StopAll" => order[cursor] \in Services
      BY OrderFacts DEF Inv, TypeOK
    <3>3. StopAllContinues => order[cursor - 1] \in Services
      BY OrderFacts, CountType DEF Inv, TypeOK, StopAllContinues
    <3> QED
      BY <1>3, <2>1, <3>1, <3>2, <3>3
         DEF RestartLocks, StopAllLocks, StopAllContinues, Invalidate
  <2>2. CASE \/ StopService \/ StopServiceFails \/ RestartCleansUp \/ RestartCleanupFails
             \/ StopAllReturns \/ RestartReturns \/ StartAllContinues \/ StartAllReturns
    BY <2>2 DEF StopService, StopServiceFails, RestartCleansUp, RestartCleanupFails,
                StopAllReturns, RestartReturns, StartAllContinues, StartAllReturns
  <2> QED
    BY <1>4, <2>1, <2>2 DEF CommandStep
<1>5. ASSUME Request PROVE FALSE
  BY <1>5 DEF Request, StartAll, Publish, StopAll, Restart
<1>6. ASSUME NEW p \in Handles, ProcessExits(p) PROVE FALSE
  BY <1>6 DEF ProcessExits
<1>7. Command \in Threads /\ Handles \subseteq Threads
  BY ThreadFacts
<1> QED
  BY <1>1, <1>2, <1>4, <1>5, <1>6, <1>7 DEF Next

(* Spec => StoppedStaysStopped: monitors of ended generations never write  *)
(* the state of a Stopped service (setStateIfGenerationCurrent, monitor).  *)
THEOREM StoppedStaysStoppedHolds == Spec => StoppedStaysStopped
<1>1. Inv /\ [Next]_vars =>
        [\A s \in Services : state[s] = "stopped" /\ state'[s] # "stopped" =>
           pc[Command] \in FramePCs /\ svc[Command] = s]_vars
  BY LeavesStopped
<1> QED
  BY <1>1, InvCorrect, PTL DEF Spec, StoppedStaysStopped

=============================================================================

------------------------- MODULE SupervisorRefinement -------------------------
(***************************************************************************)
(* The Manager implements ServiceLifecycle, for every composition and every *)
(* budget.  A process whose Stop has failed is given up: to the abstract    *)
(* view it is gone.  The step of the proof that needs the inductive         *)
(* invariant is that a thread which launches a process, starts a service,   *)
(* or reports one lost, leaves no other process of that service behind.     *)
(***************************************************************************)
EXTENDS SupervisorSafety

(* A process that is not given up is the recorded one, or the thread that  *)
(* is to record or to stop it is in charge of its service.                 *)
LEMMA LiveIsKnown ==
  ASSUME Inv, NEW p \in Managed
  PROVE  /\ p \in 1..started /\ p \in Handles /\ svc[p] \in Services
         /\ \/ handles[svc[p]] = p
            \/ \E t \in Threads :
                 h[t] = p /\ pc[t] \in {"record", "kill", "stop"} /\ svc[t] = svc[p]
BY StartedFacts, ThreadFacts DEF Inv, ProcessInv, TypeOK, Managed

(* Before a start there is no process of the service.                      *)
LEMMA NothingBeforeStart ==
  ASSUME Inv, NEW t \in Threads, pc[t] \in {"deps", "launch"}
  PROVE  svc[t] \notin Running
<1> SUFFICES ASSUME NEW p \in Managed, svc[p] = svc[t] PROVE FALSE
  BY DEF Running, LiveProcesses
<1>1. handles[svc[t]] = NoHandle
  BY DEF Inv, FrameInv, Entry
<1>2. handles[svc[p]] # p
  BY <1>1, LiveIsKnown, ThreadFacts
<1>3. PICK u \in Threads : pc[u] \in {"record", "kill", "stop"} /\ svc[u] = svc[t]
  BY <1>2, LiveIsKnown
<1>4. u # t
  BY <1>3
<1>5. CASE pc[u] = "stop"
  <2>1. u = Command /\ lifecycleMu = Command
    BY <1>5, ThreadFacts DEF Inv, MonitorInv, LockInv
  <2> QED
    BY <1>4, <2>1, ThreadFacts DEF Inv, LockInv, FramePCs
<1>6. CASE pc[u] # "stop"
  BY <1>3, <1>4, <1>6 DEF Inv, OneSupervisor, InCharge, FramePCs, TypeOK
<1> QED
  BY <1>5, <1>6

(* A recorded process of a Healthy service that has exited was its only one. *)
LEMMA NothingBehindTheDead ==
  ASSUME Inv, NEW s \in Services, state[s] = "healthy", handles[s] \notin Managed
  PROVE  s \notin Running
<1> SUFFICES ASSUME NEW p \in Managed, svc[p] = s PROVE FALSE
  BY DEF Running, LiveProcesses
<1>1. PICK u \in Threads : pc[u] \in {"record", "kill", "stop"} /\ svc[u] = s
  BY LiveIsKnown
<1>2. pc[u] = "stop" => u = Command
  BY ThreadFacts DEF Inv, MonitorInv
<1> QED
  BY <1>1, <1>2 DEF Inv, FrameInv, CommandInv, Entry

-----------------------------------------------------------------------------
(* What a step does to the two variables of the abstract view.             *)

(* Nothing.                                                                *)
LEMMA NothingChanges ==
  ASSUME UNCHANGED <<state, Managed>>, \A p \in Managed : svc'[p] = svc[p]
  PROVE  [Lifecycle!Next]_(Lifecycle!lifecycle)
BY DEF Running, LiveProcesses, Lifecycle!lifecycle

(* One process is gone, if it was not gone already.                         *)
LEMMA ProcessGone ==
  ASSUME Inv, NEW p, Managed' = Managed \ {p}, UNCHANGED <<state, svc>>
  PROVE  [Lifecycle!Next]_(Lifecycle!lifecycle)
<1>1. CASE p \notin Managed
  BY <1>1, NothingChanges
<1>2. CASE p \in Managed
  <2>1. svc[p] \in Services /\ svc[p] \in Running
    BY <1>2, LiveIsKnown DEF Running, LiveProcesses
  <2>2. \A s \in Services : s # svc[p] => LiveProcesses(s)' = LiveProcesses(s)
    BY DEF LiveProcesses
  <2>3. /\ Running' \subseteq Services /\ Running \subseteq Services
        /\ \A s \in Services : s # svc[p] => (s \in Running' <=> s \in Running)
    BY <2>2 DEF Running
  <2>4. Running' = Running \/ Running' = Running \ {svc[p]}
    BY <2>1, <2>3
  <2> QED
    BY <2>1, <2>4 DEF Lifecycle!Next, Lifecycle!Exit, Lifecycle!lifecycle
<1> QED
  BY <1>1, <1>2

(* The state of one service changes as the life cycle allows.              *)
LEMMA StateMoves ==
  ASSUME NEW s \in Services, NEW v, SetState(s, v), UNCHANGED Managed,
         \A p \in Managed : svc'[p] = svc[p],
         \/ v = "starting" /\ state[s] \in {"absent", "stopped", "unhealthy"} /\ s \notin Running
         \/ v = "healthy" /\ state[s] = "starting"
         \/ v = "unhealthy" /\ state[s] = "starting"
         \/ v = "unhealthy" /\ state[s] = "healthy" /\ s \notin Running
         \/ v = "stopped" /\ state[s] \in States
  PROVE  [Lifecycle!Next]_(Lifecycle!lifecycle)
<1>1. Running' = Running
  BY DEF Running, LiveProcesses
<1>2. state' = [state EXCEPT ![s] = v]
  BY DEF SetState
<1> QED
  BY <1>1, <1>2 DEF Lifecycle!Next, Lifecycle!Begin, Lifecycle!Ready, Lifecycle!Fail,
     Lifecycle!Lose, Lifecycle!Stop, Lifecycle!Move, States

LEMMA LaunchImplements ==
  ASSUME Inv, NEW t \in Threads, Launch(t)
  PROVE  [Lifecycle!Next]_(Lifecycle!lifecycle)
<1>1. /\ started + 1 \in Handles /\ started \in Nat
      /\ alive \subseteq 1..started /\ unstopped \subseteq 1..started
  BY SupervisorAssumption DEF Launch, Inv, TypeOK, Handles
<1>2. /\ started + 1 \notin Managed /\ Managed' = Managed \cup {started + 1}
      /\ UNCHANGED state /\ pc[t] = "launch"
      /\ svc' = [svc EXCEPT ![started + 1] = svc[t]]
  BY <1>1 DEF Launch, Goto, mgrVars, Managed
<1>3. svc[t] \in Services /\ svc \in [Threads -> Services] /\ started + 1 \in Threads
  BY <1>1, ThreadFacts DEF Inv, TypeOK
<1>4. \A s \in Services : LiveProcesses(s)' =
        IF s = svc[t] THEN LiveProcesses(s) \cup {started + 1} ELSE LiveProcesses(s)
  BY <1>1, <1>2, <1>3 DEF LiveProcesses
<1>5. Running' = Running \cup {svc[t]}
  BY <1>3, <1>4 DEF Running
<1>6. svc[t] \notin Running /\ state[svc[t]] = "starting"
  BY <1>2, NothingBeforeStart DEF Inv, FrameInv, Entry
<1> QED
  BY <1>2, <1>3, <1>5, <1>6 DEF Lifecycle!Next, Lifecycle!Launch, Lifecycle!lifecycle

-----------------------------------------------------------------------------
(* Every step of the Manager.                                              *)

LEMMA FrameImplements ==
  ASSUME Inv, NEW t \in Threads, Frame(t)
  PROVE  [Lifecycle!Next]_(Lifecycle!lifecycle)
<1> USE DEF mgrVars, procVars, locals, Managed
<1>1. svc[t] \in Services
  BY DEF Inv, TypeOK
<1>2. CASE CheckDependency(t) \/ DependencyFails(t) \/ PrepareFails(t) \/ RecordHandle(t)
           \/ DropHandle(t)
  BY <1>2, NothingChanges
     DEF CheckDependency, DependencyFails, PrepareFails, RecordHandle, DropHandle
<1>3. CASE Prepare(t)
  <2>1. pc[t] = "deps" /\ state[svc[t]] \in {"absent", "stopped", "unhealthy"}
    BY <1>3 DEF Prepare, Goto, Inv, FrameInv
  <2> QED
    BY <1>1, <1>3, <2>1, NothingBeforeStart, StateMoves DEF Prepare
<1>4. CASE LaunchFails(t) \/ NotReady(t) \/ BecomeHealthy(t)
  <2>1. state[svc[t]] = "starting"
    BY <1>4 DEF LaunchFails, NotReady, BecomeHealthy, Goto, Inv, FrameInv, Entry
  <2> QED
    BY <1>1, <1>4, <2>1, StateMoves DEF LaunchFails, NotReady, BecomeHealthy
<1>5. CASE KillUnready(t)
  BY <1>5, ProcessGone DEF KillUnready, StopSucceeds, StopFails
<1> QED
  BY <1>2, <1>3, <1>4, <1>5, LaunchImplements DEF Frame

LEMMA CommandImplements ==
  ASSUME Inv, CommandStep
  PROVE  [Lifecycle!Next]_(Lifecycle!lifecycle)
<1> USE DEF mgrVars, procVars, locals, Managed
<1>1. /\ Command \in Threads /\ svc[Command] \in Services
      /\ \A s \in Services : state[s] \in States
  BY ThreadFacts, StartedFacts DEF Inv, TypeOK
<1>2. \A p \in Managed : p \in Threads /\ p # Command
  BY <1>1, LiveIsKnown, ThreadFacts
<1>3. svc \in [Threads -> Services]
  BY DEF Inv, TypeOK
<1>4. CASE RestartLocks \/ StopAllLocks \/ StopAllContinues
  <2>1. cmd = "StopAll" => order[cursor] \in Services
    BY OrderFacts DEF Inv, TypeOK
  <2>2. StopAllContinues => order[cursor - 1] \in Services
    BY OrderFacts, CountType DEF Inv, TypeOK, StopAllContinues
  <2>3. PICK s \in Services : SetState(s, "stopped")
    BY <1>1, <1>4, <2>1, <2>2 DEF RestartLocks, StopAllLocks, StopAllContinues, Invalidate
  <2>4. UNCHANGED Managed /\ \A p \in Managed : svc'[p] = svc[p]
    BY <1>2, <1>3, <1>4 DEF RestartLocks, StopAllLocks, StopAllContinues
  <2> QED
    BY <1>1, <2>3, <2>4, StateMoves
<1>5. CASE StopService \/ StopServiceFails
  BY <1>5, ProcessGone DEF StopService, StopServiceFails, StopSucceeds, StopFails
<1>6. CASE RestartCleansUp \/ RestartCleanupFails \/ StopAllReturns
           \/ RestartReturns \/ StartAllContinues \/ StartAllReturns
  <2>1. UNCHANGED <<state, Managed>> /\ \A p \in Managed : svc'[p] = svc[p]
    BY <1>2, <1>3, <1>6
       DEF RestartCleansUp, EnterFrame, RestartCleanupFails,
           StopAllReturns, RestartReturns, StartAllContinues, StartAllReturns
  <2> QED
    BY <2>1, NothingChanges
<1>7. CASE Frame(Command)
  BY <1>1, <1>7, FrameImplements
<1> QED
  BY <1>4, <1>5, <1>6, <1>7 DEF CommandStep

LEMMA MonitorImplements ==
  ASSUME Inv, NEW t \in Handles, MonitorStep(t)
  PROVE  [Lifecycle!Next]_(Lifecycle!lifecycle)
<1> USE DEF mgrVars, procVars, locals, Managed
<1>1. t \in Threads /\ svc[t] \in Services
  BY ThreadFacts DEF Inv, TypeOK
<1>2. CASE NoticeExit(t) \/ NoticeNextExit(t)
  <2>1. UNCHANGED <<Managed, svc>> /\ h[t] \notin Managed
    BY <1>2 DEF NoticeExit, NoticeNextExit, MonitorReturns
  <2>2. CASE UNCHANGED state
    BY <2>1, <2>2, NothingChanges
  <2>3. CASE OwnsService(t) /\ LoseProcess(t)
    <3>1. svc[t] \notin Running /\ state[svc[t]] = "healthy"
      BY <1>1, <2>1, <2>3, NothingBehindTheDead DEF OwnsService
    <3> QED
      BY <1>1, <2>1, <2>3, <3>1, StateMoves DEF LoseProcess
  <2> QED
    BY <1>2, <2>2, <2>3 DEF NoticeExit, NoticeNextExit
<1>3. CASE GiveUp(t) \/ BackoffCancelled(t)
  <2>1. pc[t] \in {"loop", "backoff"} /\ SetUnhealthyIfCurrent(t) /\ UNCHANGED <<Managed, svc>>
    BY <1>3 DEF GiveUp, BackoffCancelled, MonitorReturns
  <2>2. IsGenerationCurrent(t) => state[svc[t]] = "unhealthy"
    BY <2>1 DEF Inv, RecoveryInv, Entry
  <2>3. UNCHANGED state
    BY <1>1, <2>1, <2>2 DEF SetUnhealthyIfCurrent, Inv, TypeOK
  <2> QED
    BY <2>1, <2>3, NothingChanges
<1>4. CASE BeginBackoff(t) \/ BackoffExpires(t) \/ RecoveryLocks(t) \/ RecoveryReturns(t)
           \/ AdoptHandle(t)
  <2>1. UNCHANGED <<state, Managed>> /\ \A p \in Managed : svc'[p] = svc[p]
    BY <1>1, <1>4
       DEF BeginBackoff, BackoffExpires, RecoveryLocks, EnterFrame, RecoveryReturns,
           AdoptHandle, MonitorReturns, Inv, TypeOK
  <2> QED
    BY <2>1, NothingChanges
<1> QED
  BY <1>1, <1>2, <1>3, <1>4, FrameImplements DEF MonitorStep

LEMMA NextImplements ==
  ASSUME Inv, [Next]_vars
  PROVE  [Lifecycle!Next]_(Lifecycle!lifecycle)
<1> USE DEF mgrVars, procVars, locals, Managed
<1>1. ASSUME NEW p \in Handles, ProcessExits(p)
      PROVE  [Lifecycle!Next]_(Lifecycle!lifecycle)
  BY <1>1, ProcessGone DEF ProcessExits
<1>2. CASE Request
  <2>1. \A p \in Managed : p \in Threads /\ p # Command
    BY LiveIsKnown, ThreadFacts
  <2>2. UNCHANGED <<state, Managed>> /\ \A p \in Managed : svc'[p] = svc[p]
    BY <1>2, <2>1 DEF Request, StartAll, EnterFrame, Publish, StopAll, Restart, Inv, TypeOK
  <2> QED
    BY <2>2, NothingChanges
<1>3. CASE UNCHANGED vars
  BY <1>3, NothingChanges DEF vars
<1> QED
  BY <1>1, <1>2, <1>3, CommandImplements, MonitorImplements DEF Next

LEMMA InitImplements == Init => Lifecycle!Init
BY DEF Init, Lifecycle!Init, Running, LiveProcesses, Managed

(* What the Manager reports of each service and the processes it runs and  *)
(* has not given up behave as ServiceLifecycle says, whatever StartAll,    *)
(* Restart, StopAll and the recoveries do at once.                         *)
THEOREM ImplementsLifecycleHolds == Spec => ImplementsLifecycle
<1>1. Inv /\ [Next]_vars => [Lifecycle!Next]_(Lifecycle!lifecycle)
  BY NextImplements
<1> QED
  BY <1>1, InitImplements, InvCorrect, PTL DEF Spec, ImplementsLifecycle, Lifecycle!Spec

=============================================================================

---------------------------- MODULE SupervisorBudget ----------------------------
(***************************************************************************)
(* Automatic recovery is bounded: LaunchesWithinBudget, for every          *)
(* composition, restart budget and number of commands.                     *)
(*                                                                          *)
(* The loop that counts restarts is local to a monitor, and every launch   *)
(* may leave a monitor behind; what bounds the launches of a service is    *)
(* that one thread is in charge of it (OneSupervisor), that it has         *)
(* launched no more than its own loop has counted (SpentInv), and that a   *)
(* command always begins a generation in which nothing was launched yet.   *)
(***************************************************************************)
EXTENDS SupervisorSafety

-----------------------------------------------------------------------------
(* The launches of a service in a generation.                              *)

(* They are processes, of which there are finitely many.                   *)
LEMMA LaunchesFinite ==
  ASSUME TypeOK, NEW s \in Services, NEW g \in Nat
  PROVE  /\ IsFiniteSet({q \in 1..started : svc[q] = s /\ born[q] = g})
         /\ launched[s][g] = Cardinality({q \in 1..started : svc[q] = s /\ born[q] = g})
         /\ launched[s][g] \in Nat
<1>1. IsFiniteSet(1..started)
  BY FS_Interval DEF TypeOK
<1>2. IsFiniteSet({q \in 1..started : svc[q] = s /\ born[q] = g})
  BY <1>1, FS_Subset
<1>3. launched[s][g] = Cardinality({q \in 1..started : svc[q] = s /\ born[q] = g})
  BY DEF launched
<1> QED
  BY <1>2, <1>3, FS_CardinalityType

(* A generation none of whose processes exists has none.                   *)
LEMMA NothingLaunched ==
  ASSUME TypeOK, NEW s \in Services, NEW g \in Nat,
         \A q \in 1..started : svc[q] = s => born[q] # g
  PROVE  launched[s][g] = 0
<1>1. {q \in 1..started : svc[q] = s /\ born[q] = g} = {}
  OBVIOUS
<1> QED
  BY <1>1, LaunchesFinite, FS_EmptySet

(* Only a launch adds to them.                                             *)
LEMMA LaunchesKept ==
  ASSUME TypeOK, UNCHANGED <<started, born>>, \A p \in Handles : svc'[p] = svc[p]
  PROVE  launched' = launched
<1>1. ASSUME NEW s \in Services, NEW g \in Nat
      PROVE  {q \in 1..started' : svc'[q] = s /\ born'[q] = g}
               = {q \in 1..started : svc[q] = s /\ born[q] = g}
  BY StartedFacts
<1> QED
  BY <1>1 DEF launched

(* It adds one, to the current generation of the service it is for.        *)
LEMMA LaunchAddsOne ==
  ASSUME Inv, NEW t \in Threads, Launch(t)
  PROVE  \A s \in Services, g \in Nat :
           launched'[s][g] = IF s = svc[t] /\ g = generation[s] THEN launched[s][g] + 1
                             ELSE launched[s][g]
<1>1. started + 1 \in Handles /\ started' = started + 1 /\ started \in Nat
  BY SupervisorAssumption DEF Launch, Inv, TypeOK, Handles
<1>0. /\ 1..started' = 1..started \cup {started + 1} /\ started + 1 \notin 1..started
      /\ 1..started \subseteq Handles /\ \A q \in 1..started : q # started + 1
  BY <1>1, StartedFacts DEF Inv
<1>2. /\ svc'[started + 1] = svc[t] /\ born'[started + 1] = generation[svc[t]]
      /\ \A q \in 1..started : svc'[q] = svc[q] /\ born'[q] = born[q]
  BY <1>0, <1>1, ThreadFacts DEF Launch, Inv, TypeOK
<1> SUFFICES ASSUME NEW s \in Services, NEW g \in Nat
             PROVE  launched'[s][g] = IF s = svc[t] /\ g = generation[s]
                                      THEN launched[s][g] + 1 ELSE launched[s][g]
  OBVIOUS
<1> DEFINE old == {q \in 1..started : svc[q] = s /\ born[q] = g}
           new == {q \in 1..started' : svc'[q] = s /\ born'[q] = g}
<1>3. launched[s][g] = Cardinality(old) /\ IsFiniteSet(old)
  BY LaunchesFinite DEF Inv
<1>4. launched'[s][g] = Cardinality(new)
  BY DEF launched
<1>5. CASE s = svc[t] /\ g = generation[s]
  <2>1. new = old \cup {started + 1} /\ started + 1 \notin old
    BY <1>0, <1>2, <1>5
  <2> HIDE DEF old, new
  <2>2. Cardinality(new) = Cardinality(old) + 1
    BY <2>1, <1>3, FS_AddElement
  <2> QED
    BY <2>2, <1>3, <1>4, <1>5
<1>6. CASE ~(s = svc[t] /\ g = generation[s])
  <2>1. new = old
    BY <1>0, <1>2, <1>6
  <2> QED
    BY <2>1, <1>3, <1>4, <1>6
<1> QED
  BY <1>5, <1>6

-----------------------------------------------------------------------------
(* The steps.                                                              *)

(* A step that launches nothing; it takes no generation back.              *)
Quietly ==
  /\ UNCHANGED <<started, born>> /\ \A p \in Handles : svc'[p] = svc[p]
  /\ \A s \in Services : generation'[s] >= generation[s]

(* Every step is one of these or a launch.                                 *)
LEMMA StepIsQuiet ==
  ASSUME Inv, TypeOK', [Next]_vars
  PROVE  Quietly \/ \E u \in Threads : Launch(u)
<1> USE ThreadFacts DEF Inv, TypeOK, Quietly, mgrVars, procVars, cmdVars, locals
<1>1. ASSUME NEW t \in Threads, Frame(t) PROVE Quietly \/ \E u \in Threads : Launch(u)
  <2>1. CASE CheckDependency(t)
    BY <2>1 DEF CheckDependency
  <2>2. CASE DependencyFails(t)
    BY <2>2 DEF DependencyFails, FrameFails
  <2>3. CASE Prepare(t)
    BY <2>3 DEF Prepare, Goto, SetState
  <2>4. CASE PrepareFails(t)
    BY <2>4 DEF PrepareFails, FrameFails
  <2>5. CASE Launch(t)
    BY <2>5
  <2>6. CASE LaunchFails(t)
    BY <2>6 DEF LaunchFails, SetState, FrameFails
  <2>7. CASE RecordHandle(t)
    BY <2>7 DEF RecordHandle, Goto
  <2>8. CASE BecomeHealthy(t)
    BY <2>8 DEF BecomeHealthy, Goto, SetState
  <2>9. CASE NotReady(t)
    BY <2>9 DEF NotReady, Goto, SetState
  <2>10. CASE DropHandle(t)
    BY <2>10 DEF DropHandle, Goto
  <2>11. CASE KillUnready(t)
    BY <2>11 DEF KillUnready, StopSucceeds, StopFails, FrameFails
  <2> QED
    BY <1>1, <2>1, <2>2, <2>3, <2>4, <2>5, <2>6, <2>7, <2>8, <2>9, <2>10, <2>11 DEF Frame
<1>2. CASE CommandStep
  <2>1. CASE RestartLocks
    BY <2>1 DEF RestartLocks, Invalidate, Goto, SetState
  <2>2. CASE StopAllLocks
    BY <2>2 DEF StopAllLocks, Invalidate, Goto, SetState
  <2>3. CASE StopService
    BY <2>3 DEF StopService, Goto, StopSucceeds
  <2>4. CASE StopServiceFails
    BY <2>4 DEF StopServiceFails, StopFails
  <2>5. CASE RestartCleansUp
    BY <2>5 DEF RestartCleansUp, EnterFrame
  <2>6. CASE RestartCleanupFails
    BY <2>6 DEF RestartCleanupFails, Goto
  <2>7. CASE StopAllContinues
    BY <2>7 DEF StopAllContinues, Invalidate, SetState
  <2>8. CASE StopAllReturns
    BY <2>8 DEF StopAllReturns, Goto
  <2>9. CASE RestartReturns
    BY <2>9 DEF RestartReturns, SpawnMonitor
  <2>10. CASE StartAllContinues
    BY <2>10 DEF StartAllContinues, SpawnMonitor
  <2>11. CASE StartAllReturns
    BY <2>11 DEF StartAllReturns, SpawnMonitor
  <2> QED
    BY <1>1, <1>2, <2>1, <2>2, <2>3, <2>4, <2>5, <2>6, <2>7, <2>8, <2>9, <2>10,
       <2>11 DEF CommandStep
<1>3. ASSUME NEW t \in Handles, MonitorStep(t) PROVE Quietly \/ \E u \in Threads : Launch(u)
  <2>1. CASE NoticeExit(t)
    BY <2>1 DEF NoticeExit, MonitorReturns, Goto, OwnsService, LoseProcess, SetState
  <2>2. CASE BeginBackoff(t)
    BY <2>2 DEF BeginBackoff, MonitorReturns, Goto
  <2>3. CASE GiveUp(t)
    BY <2>3 DEF GiveUp, MonitorReturns, SetUnhealthyIfCurrent
  <2>4. CASE BackoffCancelled(t)
    BY <2>4 DEF BackoffCancelled, MonitorReturns, SetUnhealthyIfCurrent
  <2>5. CASE BackoffExpires(t)
    BY <2>5 DEF BackoffExpires, MonitorReturns, Goto
  <2>6. CASE RecoveryLocks(t)
    BY <2>6 DEF RecoveryLocks, MonitorReturns, EnterFrame
  <2>7. CASE RecoveryReturns(t)
    BY <2>7 DEF RecoveryReturns, Goto
  <2>8. CASE AdoptHandle(t)
    BY <2>8 DEF AdoptHandle, MonitorReturns, Goto
  <2>9. CASE NoticeNextExit(t)
    BY <2>9 DEF NoticeNextExit, MonitorReturns, Goto, OwnsService, LoseProcess, SetState
  <2> QED
    BY <1>1, <1>3, <2>1, <2>2, <2>3, <2>4, <2>5, <2>6, <2>7, <2>8, <2>9 DEF MonitorStep
<1>4. CASE Request
  <2>1. CASE StartAll
    BY <2>1 DEF StartAll, EnterFrame
  <2>2. CASE Publish
    BY <2>2 DEF Publish
  <2>3. CASE StopAll
    BY <2>3 DEF StopAll, Goto
  <2>4. ASSUME NEW s \in Services, Restart(s) PROVE Quietly \/ \E u \in Threads : Launch(u)
    BY <2>4 DEF Restart, Goto
  <2> QED
    BY <1>4, <2>1, <2>2, <2>3, <2>4 DEF Request
<1>5. ASSUME NEW p \in Handles, ProcessExits(p)
      PROVE  Quietly \/ \E u \in Threads : Launch(u)
  BY <1>5 DEF ProcessExits
<1>6. CASE UNCHANGED vars
  BY <1>6 DEF vars
<1> QED
  BY <1>1, <1>2, <1>3, <1>4, <1>5, <1>6 DEF Next

(* A process is launched in the current generation of its service.         *)
LEMMA BornInvStep == ASSUME Inv, TypeOK', BornInv, [Next]_vars PROVE BornInv'
<1>1. CASE Quietly
  <2>1. \A p \in 1..started : p \in Handles /\ p \in Threads /\ svc[p] \in Services
    BY StartedFacts, ThreadFacts DEF Inv, TypeOK
  <2>2. ASSUME NEW p \in 1..started PROVE born'[p] <= generation'[svc'[p]]
    <3>1. /\ born'[p] = born[p] /\ svc'[p] = svc[p] /\ born[p] <= generation[svc[p]]
          /\ generation'[svc[p]] >= generation[svc[p]]
      BY <1>1, <2>1 DEF Quietly, BornInv
    <3>2. born[p] \in Nat /\ generation[svc[p]] \in Nat /\ generation'[svc[p]] \in Nat
      BY <2>1 DEF Inv, TypeOK
    <3> QED
      BY <3>1, <3>2
  <2> QED
    BY <1>1, <2>2 DEF Quietly, BornInv
<1>2. ASSUME NEW t \in Threads, Launch(t) PROVE BornInv'
  <2>1. started + 1 \in Handles /\ started' = started + 1 /\ started \in Nat
    BY <1>2, SupervisorAssumption DEF Launch, Inv, TypeOK, Handles
  <2>2. \A p \in 1..started' : p = started + 1 \/ p \in 1..started
    BY <2>1
  <2>3. /\ UNCHANGED generation /\ svc[t] \in Services /\ generation[svc[t]] \in Nat
        /\ svc'[started + 1] = svc[t] /\ born'[started + 1] = generation[svc[t]]
        /\ \A q \in 1..started : svc'[q] = svc[q] /\ born'[q] = born[q]
    BY <1>2, <2>1, ThreadFacts, StartedFacts DEF Launch, Inv, TypeOK, mgrVars
  <2> QED
    BY <2>1, <2>2, <2>3 DEF BornInv
<1> QED
  BY <1>1, <1>2, StepIsQuiet

(* A generation that is begun has launched nothing.                        *)
LEMMA NewGenerationIsEmpty ==
  ASSUME Inv, BornInv, NEW s \in Services PROVE launched[s][generation[s] + 1] = 0
<1>1. /\ generation[s] + 1 \in Nat
      /\ \A q \in 1..started : svc[q] = s => born[q] # generation[s] + 1
  BY StartedFacts DEF Inv, TypeOK, BornInv
<1> QED
  BY <1>1, NothingLaunched DEF Inv

(* Neither has a service that StartAll has yet to reach.                   *)
LEMMA UnreachedIsEmpty ==
  ASSUME Inv, NEW i \in 1..Count, i > cursor, phase \in {"new", "starting"}
  PROVE  launched[order[i]][generation[order[i]]] = 0
<1>1. order[i] \in Services /\ generation[order[i]] \in Nat
      /\ \A q \in 1..started : svc[q] # order[i]
  BY OrderFacts DEF Inv, TypeOK, FreshInv
<1> QED
  BY <1>1, NothingLaunched DEF Inv

(* A monitor counts every turn of its loop.                                *)
LEMMA RestartsInvStep ==
  ASSUME Inv, TypeOK', RestartsInv, [Next]_vars PROVE RestartsInv'
<1> USE ThreadFacts, SupervisorAssumption
        DEF Inv, TypeOK, RestartsInv, CommandInv, MonitorInv, HandleInv, FramePCs, Holding,
            Recovering, mgrVars, procVars, cmdVars, locals
<1>1. ASSUME NEW t \in Threads, Frame(t) PROVE RestartsInv'
  <2>1. CASE CheckDependency(t)
    BY <2>1 DEF CheckDependency
  <2>2. CASE DependencyFails(t)
    BY <2>2 DEF DependencyFails, FrameFails
  <2>3. CASE Prepare(t)
    BY <2>3 DEF Prepare, Goto, SetState
  <2>4. CASE PrepareFails(t)
    BY <2>4 DEF PrepareFails, FrameFails
  <2>5. CASE Launch(t)
    BY <2>5 DEF Launch, Goto
  <2>6. CASE LaunchFails(t)
    BY <2>6 DEF LaunchFails, SetState, FrameFails
  <2>7. CASE RecordHandle(t)
    BY <2>7 DEF RecordHandle, Goto
  <2>8. CASE BecomeHealthy(t)
    BY <2>8 DEF BecomeHealthy, Goto, SetState
  <2>9. CASE NotReady(t)
    BY <2>9 DEF NotReady, Goto, SetState
  <2>10. CASE DropHandle(t)
    BY <2>10 DEF DropHandle, Goto
  <2>11. CASE KillUnready(t)
    BY <2>11 DEF KillUnready, StopSucceeds, StopFails, FrameFails
  <2> QED
    BY <1>1, <2>1, <2>2, <2>3, <2>4, <2>5, <2>6, <2>7, <2>8, <2>9, <2>10, <2>11 DEF Frame
<1>2. CASE CommandStep
  <2>1. CASE RestartLocks
    BY <2>1 DEF RestartLocks, Invalidate, Goto, SetState
  <2>2. CASE StopAllLocks
    BY <2>2 DEF StopAllLocks, Invalidate, Goto, SetState
  <2>3. CASE StopService
    BY <2>3 DEF StopService, Goto, StopSucceeds
  <2>4. CASE StopServiceFails
    BY <2>4 DEF StopServiceFails, StopFails
  <2>5. CASE RestartCleansUp
    BY <2>5 DEF RestartCleansUp, EnterFrame
  <2>6. CASE RestartCleanupFails
    BY <2>6 DEF RestartCleanupFails, Goto
  <2>7. CASE StopAllContinues
    BY <2>7 DEF StopAllContinues, Invalidate, SetState
  <2>8. CASE StopAllReturns
    BY <2>8 DEF StopAllReturns, Goto
  <2>9. CASE RestartReturns
    BY <2>9 DEF RestartReturns, SpawnMonitor
  <2>10. CASE StartAllContinues
    BY <2>10 DEF StartAllContinues, SpawnMonitor
  <2>11. CASE StartAllReturns
    BY <2>11 DEF StartAllReturns, SpawnMonitor
  <2> QED
    BY <1>1, <1>2, <2>1, <2>2, <2>3, <2>4, <2>5, <2>6, <2>7, <2>8, <2>9, <2>10,
       <2>11 DEF CommandStep
<1>3. ASSUME NEW t \in Handles, MonitorStep(t) PROVE RestartsInv'
  <2>1. CASE NoticeExit(t)
    BY <2>1 DEF NoticeExit, MonitorReturns, Goto, OwnsService, LoseProcess, SetState
  <2>2. CASE BeginBackoff(t)
    BY <2>2 DEF BeginBackoff, MonitorReturns, Goto
  <2>3. CASE GiveUp(t)
    BY <2>3 DEF GiveUp, MonitorReturns, SetUnhealthyIfCurrent
  <2>4. CASE BackoffCancelled(t)
    BY <2>4 DEF BackoffCancelled, MonitorReturns, SetUnhealthyIfCurrent
  <2>5. CASE BackoffExpires(t)
    BY <2>5 DEF BackoffExpires, MonitorReturns, Goto
  <2>6. CASE RecoveryLocks(t)
    BY <2>6 DEF RecoveryLocks, MonitorReturns, EnterFrame
  <2>7. CASE RecoveryReturns(t)
    BY <2>7 DEF RecoveryReturns, Goto
  <2>8. CASE AdoptHandle(t)
    BY <2>8 DEF AdoptHandle, MonitorReturns, Goto
  <2>9. CASE NoticeNextExit(t)
    BY <2>9 DEF NoticeNextExit, MonitorReturns, Goto, OwnsService, LoseProcess, SetState
  <2> QED
    BY <1>1, <1>3, <2>1, <2>2, <2>3, <2>4, <2>5, <2>6, <2>7, <2>8, <2>9 DEF MonitorStep
<1>4. CASE Request
  <2>1. CASE StartAll
    BY <2>1 DEF StartAll, EnterFrame
  <2>2. CASE Publish
    BY <2>2 DEF Publish
  <2>3. CASE StopAll
    BY <2>3 DEF StopAll, Goto
  <2>4. ASSUME NEW s \in Services, Restart(s) PROVE RestartsInv'
    BY <2>4 DEF Restart, Goto
  <2> QED
    BY <1>4, <2>1, <2>2, <2>3, <2>4 DEF Request
<1>5. ASSUME NEW p \in Handles, ProcessExits(p) PROVE RestartsInv'
  BY <1>5 DEF ProcessExits
<1>6. CASE UNCHANGED vars
  BY <1>6 DEF vars
<1> QED
  BY <1>1, <1>2, <1>3, <1>4, <1>5, <1>6 DEF Next

(* A launch is counted by the thread in charge.                            *)
LEMMA LaunchSpent ==
  ASSUME Inv, TypeOK', SpentInv, NEW t \in Threads, Launch(t) PROVE SpentInv'
<1> USE DEF Inv, TypeOK
<1>1. started + 1 \in Handles /\ pc[started + 1] = "idle"
  BY SupervisorAssumption DEF Launch, Handles, MonitorInv
<1>2. /\ UNCHANGED <<handles, generation, gen, restarts>>
      /\ pc' = [pc EXCEPT ![t] = "record"] /\ pc[t] = "launch" /\ started + 1 # t
      /\ \A u \in Threads : u # started + 1 => svc'[u] = svc[u]
  BY <1>1, ThreadFacts DEF Launch, Goto, mgrVars, locals
<1>3. \A s \in Services :
        /\ s # svc[t] => launched'[s][generation'[s]] = launched[s][generation[s]]
        /\ s = svc[t] => launched'[s][generation'[s]] = launched[s][generation[s]] + 1
  BY <1>2, LaunchAddsOne
<1>4. \A s \in Services : launched[s][generation[s]] \in Nat
  BY LaunchesFinite
<1>5. ASSUME NEW u \in Threads, NEW s \in Services, InCharge(u, s)'
      PROVE  launched'[s][generation'[s]] <= Spent(u)'
  <2>1. u # started + 1 /\ svc[u] = s /\ InCharge(u, s)
    BY <1>1, <1>2, <1>5, ThreadFacts DEF InCharge, FramePCs, Recovering, IsGenerationCurrent
  <2>2. launched[s][generation[s]] <= Spent(u)
    BY <2>1 DEF SpentInv
  <2>3. CASE u = t
    BY <1>2, <1>3, <1>4, <2>1, <2>2, <2>3 DEF Spent, Holding
  <2>4. CASE u # t
    <3>1. s # svc[t]
      BY <1>2, <2>1, <2>4 DEF OneSupervisor, InCharge, FramePCs
    <3> QED
      BY <1>2, <1>3, <2>2, <2>4, <3>1 DEF Spent
  <2> QED
    BY <2>3, <2>4
<1>6. ASSUME pc'[Command] \in {"stop", "cleanup"}
      PROVE  launched'[svc'[Command]][generation'[svc'[Command]]] = 0
  <2>1. t # Command /\ pc[Command] \in {"stop", "cleanup"} /\ t \in Handles
    BY <1>2, <1>6, ThreadFacts
  <2>2. lifecycleMu = Command /\ lifecycleMu = t
    BY <1>2, <2>1 DEF LockInv, FramePCs
  <2> QED
    BY <2>1, <2>2
<1> QED
  BY <1>5, <1>6 DEF SpentInv

(* A step that launches nothing leaves the counts alone.                   *)
LEMMA QuietSpent ==
  ASSUME TypeOK, Quietly PROVE launched' = launched
BY LaunchesKept DEF Quietly

(* A monitor that returns is in charge of nothing.                         *)
LEMMA ReturnsSpent ==
  ASSUME Inv, SpentInv, NEW t \in Handles, MonitorReturns(t),
         UNCHANGED <<handles, generation>>, launched' = launched
  PROVE  SpentInv'
<1>1. /\ pc' = [pc EXCEPT ![t] = "done"] /\ UNCHANGED svc /\ t # Command
      /\ \A u \in Threads : u # t => restarts'[u] = restarts[u] /\ gen'[u] = gen[u]
  BY ThreadFacts DEF MonitorReturns, Inv, TypeOK
<1> QED
  BY <1>1, ThreadFacts
     DEF SpentInv, Spent, InCharge, FramePCs, Recovering, IsGenerationCurrent, Inv, TypeOK

(* On the way to a launch a monitor has its turn still to spend.           *)
LEMMA WayToLaunchSpent ==
  ASSUME Inv, SpentInv, NEW t \in Handles, pc[t] \in {"loop", "backoff", "lock"},
         NEW v \in {"backoff", "lock", "deps"}, pc' = [pc EXCEPT ![t] = v],
         IsGenerationCurrent(t),
         UNCHANGED <<handles, generation, svc, gen, restarts>>, launched' = launched
  PROVE  SpentInv'
<1>1. t # Command /\ t \in Threads
  BY ThreadFacts
<1>2. \A u \in Threads : Spent(u)' = Spent(u)
  BY <1>1 DEF Spent, Holding, Inv, TypeOK
<1>3. \A u \in Threads : \A s \in Services : InCharge(u, s)' => InCharge(u, s)
  BY <1>1 DEF InCharge, FramePCs, Recovering, IsGenerationCurrent, Inv, TypeOK
<1> QED
  BY <1>1, <1>2, <1>3, ThreadFacts DEF SpentInv, Inv, TypeOK

(* A service that is invalidated begins a generation with no launches.     *)
LEMMA InvalidatedSpent ==
  ASSUME Inv, SpentInv, BornInv, NEW r \in Services,
         svc' = [svc EXCEPT ![Command] = r], pc' = [pc EXCEPT ![Command] = "stop"],
         handles' = [handles EXCEPT ![r] = NoHandle],
         generation' = [generation EXCEPT ![r] = @ + 1],
         UNCHANGED <<gen, restarts>>, launched' = launched
  PROVE  SpentInv'
<1> USE ThreadFacts DEF Inv, TypeOK
<1>1. /\ launched'[r][generation'[r]] = 0 /\ svc'[Command] = r
      /\ \A s \in Services : s # r => launched'[s][generation'[s]] = launched[s][generation[s]]
  BY NewGenerationIsEmpty
<1>2. \A u \in Threads : Spent(u)' \in Nat /\ (u # Command => Spent(u)' = Spent(u))
  BY DEF Spent, Holding
<1>3. ASSUME NEW u \in Threads, NEW s \in Services, InCharge(u, s)', s # r
      PROVE  u # Command /\ InCharge(u, s)
  BY <1>3 DEF InCharge, FramePCs, Recovering, IsGenerationCurrent
<1>4. ASSUME NEW u \in Threads, NEW s \in Services, InCharge(u, s)'
      PROVE  launched'[s][generation'[s]] <= Spent(u)'
  <2>1. CASE s = r
    BY <1>1, <1>2, <2>1
  <2>2. CASE s # r
    BY <1>1, <1>2, <1>3, <1>4, <2>2 DEF SpentInv
  <2> QED
    BY <2>1, <2>2
<1> QED
  BY <1>1, <1>4 DEF SpentInv

(* The command turns to a service whose generation has no launches, or has *)
(* nothing to do with a service.                                           *)
LEMMA CommandTurnsSpent ==
  ASSUME Inv, SpentInv, pc[Command] \in {"idle", "notify", "cleanup"},
         NEW r \in Services, NEW v \in {"deps", "lock"},
         svc' = [svc EXCEPT ![Command] = r], pc' = [pc EXCEPT ![Command] = v],
         v = "deps" => launched[r][generation[r]] = 0,
         UNCHANGED <<handles, generation, gen, restarts>>, launched' = launched
  PROVE  SpentInv'
<1> USE ThreadFacts DEF Inv, TypeOK
<1>1. \A u \in Threads : Spent(u)' \in Nat /\ (u # Command => Spent(u)' = Spent(u))
  BY DEF Spent, Holding
<1>2. ASSUME NEW u \in Threads, NEW s \in Services, InCharge(u, s)'
      PROVE  \/ u = Command /\ s = r /\ v = "deps"
             \/ u # Command /\ InCharge(u, s)
  <2>1. CASE u = Command
    <3>1. pc'[Command] = v /\ svc'[Command] = r
      OBVIOUS
    <3>2. svc'[Command] = s /\ pc'[Command] \in FramePCs \cup {"watch"}
      BY <1>2, <2>1 DEF InCharge
    <3>3. v = "deps"
      BY <3>1, <3>2 DEF FramePCs
    <3> QED
      BY <2>1, <3>1, <3>2, <3>3
  <2>2. CASE u # Command
    <3>1. pc'[u] = pc[u] /\ svc'[u] = svc[u] /\ gen'[u] = gen[u]
      BY <2>2
    <3> QED
      BY <1>2, <2>2, <3>1 DEF InCharge, IsGenerationCurrent
  <2> QED
    BY <2>1, <2>2
<1>3. ASSUME NEW u \in Threads, NEW s \in Services, InCharge(u, s)'
      PROVE  launched'[s][generation'[s]] <= Spent(u)'
  <2>1. CASE u = Command /\ s = r /\ v = "deps"
    BY <1>1, <2>1
  <2>2. CASE u # Command /\ InCharge(u, s)
    BY <1>1, <2>2 DEF SpentInv
  <2> QED
    BY <1>2, <1>3, <2>1, <2>2
<1> QED
  BY <1>3 DEF SpentInv

(* The thread in charge has counted what was launched.                     *)
LEMMA SpentInvStep ==
  ASSUME Inv, TypeOK', BornInv, RestartsInv, SpentInv, [Next]_vars PROVE SpentInv'
<1> USE ThreadFacts
        DEF Inv, TypeOK, SpentInv, Spent, RestartsInv, CommandInv, MonitorInv, HandleInv,
            LockInv, FramePCs, Holding, Recovering, InCharge, IsGenerationCurrent,
            mgrVars, procVars, cmdVars, locals
<1>0. /\ \A s \in Services, g \in Nat : launched[s][g] \in Nat
      /\ \A s \in Services : launched[s][generation[s] + 1] = 0
      /\ \A i \in 1..Count : i > cursor /\ phase \in {"new", "starting"} =>
           launched[order[i]][generation[order[i]]] = 0
  BY LaunchesFinite, NewGenerationIsEmpty, UnreachedIsEmpty
<1>1. ASSUME NEW t \in Threads, Frame(t) PROVE SpentInv'
  <2>1. CASE CheckDependency(t)
    BY <1>0, LaunchesKept, <2>1 DEF CheckDependency
  <2>2. CASE DependencyFails(t)
    <3>1. /\ pc[t] = "deps" /\ FrameFails(t) /\ launched' = launched
          /\ UNCHANGED <<handles, generation, svc, gen>>
      BY <2>2, LaunchesKept DEF DependencyFails
    <3> QED
      BY <1>0, <3>1 DEF FrameFails
  <2>3. CASE Prepare(t)
    BY <1>0, LaunchesKept, <2>3 DEF Prepare, Goto, SetState
  <2>4. CASE PrepareFails(t)
    BY <1>0, LaunchesKept, <2>4 DEF PrepareFails, FrameFails
  <2>5. CASE Launch(t)
    BY <2>5, LaunchSpent
  <2>6. CASE LaunchFails(t)
    BY <1>0, LaunchesKept, <2>6 DEF LaunchFails, SetState, FrameFails
  <2>7. CASE RecordHandle(t)
    BY <1>0, LaunchesKept, <2>7 DEF RecordHandle, Goto
  <2>8. CASE BecomeHealthy(t)
    BY <1>0, LaunchesKept, <2>8 DEF BecomeHealthy, Goto, SetState
  <2>9. CASE NotReady(t)
    BY <1>0, LaunchesKept, <2>9 DEF NotReady, Goto, SetState
  <2>10. CASE DropHandle(t)
    BY <1>0, LaunchesKept, <2>10 DEF DropHandle, Goto
  <2>11. CASE KillUnready(t)
    BY <1>0, LaunchesKept, <2>11 DEF KillUnready, StopSucceeds, StopFails, FrameFails
  <2> QED
    BY <1>1, <2>1, <2>2, <2>3, <2>4, <2>5, <2>6, <2>7, <2>8, <2>9, <2>10, <2>11 DEF Frame
<1>2. CASE CommandStep
  <2>1. CASE RestartLocks
    <3> DEFINE r == svc[Command]
    <3>1. /\ svc' = [svc EXCEPT ![Command] = r] /\ pc' = [pc EXCEPT ![Command] = "stop"]
          /\ handles' = [handles EXCEPT ![r] = NoHandle] /\ r \in Services
          /\ generation' = [generation EXCEPT ![r] = @ + 1] /\ UNCHANGED <<gen, restarts>>
      BY <2>1 DEF RestartLocks, Invalidate, Goto
    <3>2. launched' = launched
      BY <2>1, LaunchesKept DEF RestartLocks
    <3> HIDE DEF r
    <3> QED
      BY <3>1, <3>2, InvalidatedSpent
  <2>2. CASE StopAllLocks
    <3> DEFINE r == order[cursor]
    <3>1. r \in Services /\ generation[r] \in Nat
      BY <2>2, OrderFacts, CountType DEF StopAllLocks
    <3>2. /\ svc' = [svc EXCEPT ![Command] = r] /\ pc' = [pc EXCEPT ![Command] = "stop"]
          /\ handles' = [handles EXCEPT ![r] = NoHandle]
          /\ generation' = [generation EXCEPT ![r] = @ + 1] /\ UNCHANGED <<gen, restarts>>
      BY <2>2 DEF StopAllLocks, Invalidate, Goto
    <3>3. launched' = launched
      BY <2>2, <3>2, LaunchesKept DEF StopAllLocks
    <3> HIDE DEF r
    <3> QED
      BY <3>1, <3>2, <3>3, InvalidatedSpent
  <2>3. CASE StopService
    BY <1>0, LaunchesKept, <2>3 DEF StopService, Goto, StopSucceeds
  <2>4. CASE StopServiceFails
    BY <1>0, LaunchesKept, <2>4 DEF StopServiceFails, StopFails
  <2>5. CASE RestartCleansUp
    <3>1. /\ pc[Command] = "cleanup" /\ pc' = [pc EXCEPT ![Command] = "deps"]
          /\ svc' = svc /\ UNCHANGED <<handles, generation, gen, restarts>>
      BY <2>5 DEF RestartCleansUp, EnterFrame
    <3>2. launched' = launched
      BY <2>5, <3>1, LaunchesKept DEF RestartCleansUp
    <3>3. svc' = [svc EXCEPT ![Command] = svc[Command]] /\ svc[Command] \in Services
      BY <3>1
    <3> QED
      BY <3>1, <3>2, <3>3, CommandTurnsSpent
  <2>6. CASE RestartCleanupFails
    BY <1>0, LaunchesKept, <2>6 DEF RestartCleanupFails, Goto
  <2>7. CASE StopAllContinues
    <3> DEFINE r == order[cursor - 1]
    <3>1. r \in Services /\ generation[r] \in Nat
      BY <2>7, OrderFacts, CountType DEF StopAllContinues
    <3>2. /\ svc' = [svc EXCEPT ![Command] = r] /\ pc' = [pc EXCEPT ![Command] = "stop"]
          /\ handles' = [handles EXCEPT ![r] = NoHandle]
          /\ generation' = [generation EXCEPT ![r] = @ + 1] /\ UNCHANGED <<gen, restarts>>
      BY <2>7 DEF StopAllContinues, Invalidate
    <3>3. launched' = launched
      BY <2>7, <3>2, LaunchesKept DEF StopAllContinues
    <3> HIDE DEF r
    <3> QED
      BY <3>1, <3>2, <3>3, InvalidatedSpent
  <2>8. CASE StopAllReturns
    BY <1>0, LaunchesKept, <2>8 DEF StopAllReturns, Goto
  <2>9. CASE RestartReturns
    BY <1>0, LaunchesKept, <2>9 DEF RestartReturns, SpawnMonitor
  <2>10. CASE StartAllContinues
    <3> DEFINE r == order[cursor + 1]
               p == h[Command]
    <3>1. /\ r \in Services /\ launched[r][generation[r]] = 0
          /\ p \in Handles /\ svc[p] = svc[Command] /\ pc[p] = "idle" /\ restarts[p] = 0
      BY <1>0, <2>10, OrderFacts, CountType, StartedFacts
         DEF StartAllContinues, SpawnMonitor
    <3>2. /\ svc' = [svc EXCEPT ![Command] = r] /\ pc[Command] = "notify"
          /\ pc' = [pc EXCEPT ![Command] = "deps", ![p] = "watch"]
          /\ UNCHANGED <<handles, generation, gen, restarts>>
      BY <2>10 DEF StartAllContinues, SpawnMonitor
    <3>3. launched' = launched
      BY <2>10, <3>2, LaunchesKept DEF StartAllContinues
    <3> HIDE DEF r, p
    <3>4. launched[svc[p]][generation[svc[p]]] <= 1 /\ p # Command
      BY <3>1, <3>2
    <3>5. ASSUME NEW u \in Threads, NEW s \in Services, InCharge(u, s)'
          PROVE  launched[s][generation[s]] <= Spent(u)'
      <4>1. CASE u = Command
        BY <1>0, <3>1, <3>2, <3>4, <3>5, <4>1
      <4>2. CASE u = p
        BY <1>0, <3>1, <3>2, <3>4, <3>5, <4>2
      <4>3. CASE u \notin {p, Command}
        <5>1. /\ pc'[u] = pc[u] /\ svc'[u] = svc[u] /\ gen'[u] = gen[u]
              /\ restarts'[u] = restarts[u]
          BY <3>1, <3>2, <4>3
        <5> QED
          BY <3>2, <3>5, <4>3, <5>1
      <4> QED
        BY <4>1, <4>2, <4>3
    <3> QED
      BY <3>1, <3>2, <3>3, <3>4, <3>5
  <2>11. CASE StartAllReturns
    BY <1>0, LaunchesKept, <2>11 DEF StartAllReturns, SpawnMonitor
  <2> QED
    BY <1>1, <1>2, <2>1, <2>2, <2>3, <2>4, <2>5, <2>6, <2>7, <2>8, <2>9, <2>10,
       <2>11 DEF CommandStep
<1>3. ASSUME NEW t \in Handles, MonitorStep(t) PROVE SpentInv'
  <2>1. CASE NoticeExit(t)
    <3>1. launched' = launched /\ UNCHANGED <<svc, generation>> /\ pc[t] = "watch"
      BY <2>1, LaunchesKept DEF NoticeExit, MonitorReturns, LoseProcess
    <3>2. CASE OwnsService(t) /\ LoseProcess(t)
      <4>1. /\ handles[svc[t]] = t /\ pc' = [pc EXCEPT ![t] = "loop"]
            /\ UNCHANGED restarts
            /\ handles' = [handles EXCEPT ![svc[t]] = NoHandle]
            /\ gen' = [gen EXCEPT ![t] = generation[svc[t]]]
        BY <2>1, <3>1, <3>2 DEF NoticeExit, OwnsService, LoseProcess, Goto, MonitorReturns
      <4> QED
        BY <1>0, <3>1, <4>1
    <3>3. CASE MonitorReturns(t) /\ UNCHANGED mgrVars
      BY <3>1, <3>3, ReturnsSpent
    <3> QED
      BY <2>1, <3>2, <3>3 DEF NoticeExit
  <2>2. CASE BeginBackoff(t)
    <3>1. launched' = launched /\ UNCHANGED <<handles, generation>> /\ pc[t] = "loop"
      BY <2>2, LaunchesKept DEF BeginBackoff, MonitorReturns
    <3>2. \/ MonitorReturns(t)
          \/ /\ IsGenerationCurrent(t) /\ pc' = [pc EXCEPT ![t] = "backoff"]
             /\ UNCHANGED <<svc, gen, restarts>>
      BY <2>2 DEF BeginBackoff, Goto
    <3> QED
      BY <3>1, <3>2, ReturnsSpent, WayToLaunchSpent
  <2>3. CASE GiveUp(t)
    BY <2>3, LaunchesKept, ReturnsSpent DEF GiveUp, MonitorReturns
  <2>4. CASE BackoffCancelled(t)
    BY <2>4, LaunchesKept, ReturnsSpent DEF BackoffCancelled, MonitorReturns
  <2>5. CASE BackoffExpires(t)
    <3>1. launched' = launched /\ UNCHANGED <<handles, generation>> /\ pc[t] = "backoff"
      BY <2>5, LaunchesKept DEF BackoffExpires, MonitorReturns
    <3>2. \/ MonitorReturns(t)
          \/ /\ IsGenerationCurrent(t) /\ pc' = [pc EXCEPT ![t] = "lock"]
             /\ UNCHANGED <<svc, gen, restarts>>
      BY <2>5 DEF BackoffExpires, Goto
    <3> QED
      BY <3>1, <3>2, ReturnsSpent, WayToLaunchSpent
  <2>6. CASE RecoveryLocks(t)
    <3>1. launched' = launched /\ UNCHANGED <<handles, generation>> /\ pc[t] = "lock"
      BY <2>6, LaunchesKept DEF RecoveryLocks, MonitorReturns, EnterFrame
    <3>2. \/ MonitorReturns(t)
          \/ /\ IsGenerationCurrent(t) /\ pc' = [pc EXCEPT ![t] = "deps"]
             /\ UNCHANGED <<svc, gen, restarts>>
      BY <2>6 DEF RecoveryLocks, EnterFrame
    <3> QED
      BY <3>1, <3>2, ReturnsSpent, WayToLaunchSpent
  <2>7. CASE RecoveryReturns(t)
    BY <1>0, LaunchesKept, <2>7 DEF RecoveryReturns, Goto
  <2>8. CASE AdoptHandle(t)
    <3>1. launched' = launched /\ UNCHANGED <<svc, handles, generation>> /\ pc[t] = "adopt"
      BY <2>8, LaunchesKept DEF AdoptHandle, MonitorReturns
    <3>2. \/ pc' = [pc EXCEPT ![t] = "rewatch"] /\ UNCHANGED <<gen, restarts>>
          \/ MonitorReturns(t)
      BY <2>8 DEF AdoptHandle, Goto
    <3> QED
      BY <1>0, <3>1, <3>2 DEF MonitorReturns
  <2>9. CASE NoticeNextExit(t)
    <3>1. launched' = launched /\ UNCHANGED <<svc, generation>> /\ pc[t] = "rewatch"
      BY <2>9, LaunchesKept DEF NoticeNextExit, MonitorReturns, LoseProcess
    <3>2. CASE /\ IsGenerationCurrent(t) /\ LoseProcess(t) /\ Goto(t, "rewatch", "loop")
               /\ restarts' = [restarts EXCEPT ![t] = @ + 1] /\ UNCHANGED gen
      <4>1. /\ pc' = [pc EXCEPT ![t] = "loop"] /\ UNCHANGED gen
            /\ handles' = [handles EXCEPT ![svc[t]] = NoHandle]
            /\ restarts' = [restarts EXCEPT ![t] = @ + 1]
        BY <3>2 DEF Goto, LoseProcess
      <4>2. launched[svc[t]][generation[svc[t]]] <= 2 + restarts[t]
        BY <3>1, <3>2
      <4> QED
        BY <1>0, <3>1, <4>1, <4>2
    <3>3. CASE MonitorReturns(t) /\ UNCHANGED mgrVars
      BY <3>1, <3>3, ReturnsSpent
    <3> QED
      BY <2>9, <3>2, <3>3 DEF NoticeNextExit
  <2> QED
    BY <1>1, <1>3, <2>1, <2>2, <2>3, <2>4, <2>5, <2>6, <2>7, <2>8, <2>9 DEF MonitorStep
<1>4. CASE Request
  <2>1. CASE StartAll
    <3>1. order[1] \in Services /\ launched[order[1]][generation[order[1]]] = 0
      BY <1>0, <2>1, OrderFacts, CountType DEF StartAll
    <3>2. /\ svc' = [svc EXCEPT ![Command] = order[1]] /\ pc[Command] = "idle"
          /\ pc' = [pc EXCEPT ![Command] = "deps"]
          /\ UNCHANGED <<handles, generation, gen, restarts>>
      BY <2>1 DEF StartAll, EnterFrame
    <3>3. launched' = launched
      BY <2>1, <3>2, LaunchesKept DEF StartAll
    <3> QED
      BY <3>1, <3>2, <3>3, CommandTurnsSpent
  <2>2. CASE Publish
    BY <1>0, LaunchesKept, <2>2 DEF Publish
  <2>3. CASE StopAll
    BY <1>0, LaunchesKept, <2>3 DEF StopAll, Goto
  <2>4. ASSUME NEW s \in Services, Restart(s) PROVE SpentInv'
    <3>1. launched' = launched
      BY <2>4, LaunchesKept DEF Restart
    <3>2. /\ svc' = [svc EXCEPT ![Command] = s] /\ pc' = [pc EXCEPT ![Command] = "lock"]
          /\ pc[Command] = "idle" /\ UNCHANGED <<handles, generation, gen, restarts>>
      BY <2>4 DEF Restart, Goto
    <3> QED
      BY <3>1, <3>2, CommandTurnsSpent
  <2> QED
    BY <1>4, <2>1, <2>2, <2>3, <2>4 DEF Request
<1>5. ASSUME NEW p \in Handles, ProcessExits(p) PROVE SpentInv'
  BY <1>5, LaunchesKept DEF ProcessExits
<1>6. CASE UNCHANGED vars
  BY <1>6, LaunchesKept DEF vars
<1> QED
  BY <1>1, <1>2, <1>3, <1>4, <1>5, <1>6 DEF Next

(* The count of LaunchesWithinBudget is this one.                          *)
WithinBudget == \A p \in 1..started : launched[svc[p]][born[p]] <= MaxRestarts + 1

(* So the property bounds `launched`.                                      *)
LEMMA BudgetIsCounted ==
  TypeOK => (LaunchesWithinBudget <=> WithinBudget)
<1> SUFFICES ASSUME TypeOK PROVE LaunchesWithinBudget <=> WithinBudget
  OBVIOUS
<1>1. ASSUME NEW p \in 1..started
      PROVE  launched[svc[p]][born[p]]
               = Cardinality({q \in 1..started : svc[q] = svc[p] /\ born[q] = born[p]})
  <2>1. svc[p] \in Services /\ born[p] \in Nat
    BY StartedFacts, ThreadFacts DEF TypeOK
  <2> QED
    BY <2>1, LaunchesFinite
<1> QED
  BY <1>1 DEF LaunchesWithinBudget, WithinBudget

(* The thread that launches has not spent its budget.                      *)
LEMMA WithinBudgetStep ==
  ASSUME Inv, TypeOK', RestartsInv, SpentInv, LaunchesWithinBudget, [Next]_vars
  PROVE  LaunchesWithinBudget'
<1> USE DEF Inv
<1>1. WithinBudget
  BY BudgetIsCounted
<1>2. ASSUME Quietly PROVE WithinBudget'
  <2>1. launched' = launched
    BY <1>2, QuietSpent
  <2>2. \A q \in 1..started : q \in Handles /\ svc'[q] = svc[q] /\ born'[q] = born[q]
    BY <1>2, StartedFacts DEF Quietly
  <2>3. started' = started
    BY <1>2 DEF Quietly
  <2> QED
    BY <1>1, <2>1, <2>2, <2>3 DEF WithinBudget
<1>3. ASSUME NEW t \in Threads, Launch(t) PROVE WithinBudget'
  <2>1. started + 1 \in Handles /\ started' = started + 1 /\ started \in Nat
    BY <1>3, SupervisorAssumption DEF Launch, Handles, TypeOK
  <2>2. /\ \A q \in 1..started' : q = started + 1 \/ q \in 1..started
        /\ \A q \in 1..started : q # started + 1
    BY <2>1
  <2>3. /\ svc'[started + 1] = svc[t] /\ born'[started + 1] = generation[svc[t]]
        /\ \A p \in 1..started : svc'[p] = svc[p] /\ born'[p] = born[p]
        /\ \A p \in 1..started : svc[p] \in Services /\ born[p] \in Nat
        /\ svc[t] \in Services /\ generation[svc[t]] \in Nat
    BY <1>3, <2>1, <2>2, ThreadFacts, StartedFacts DEF Launch, TypeOK
  <2>4. launched[svc[t]][generation[svc[t]]] <= MaxRestarts
    <3>1. pc[t] = "launch" /\ InCharge(t, svc[t])
      BY <1>3 DEF Launch, Goto, InCharge, FramePCs
    <3>2. launched[svc[t]][generation[svc[t]]] <= Spent(t)
      BY <2>3, <3>1 DEF SpentInv
    <3>3. Spent(t) <= MaxRestarts /\ Spent(t) \in Int
      BY <3>1, ThreadFacts, SupervisorAssumption
         DEF Spent, RestartsInv, Recovering, FramePCs, Holding, TypeOK
    <3>4. launched[svc[t]][generation[svc[t]]] \in Nat
      BY <2>3, LaunchesFinite
    <3> QED
      BY <3>2, <3>3, <3>4, SupervisorAssumption
  <2>5. launched'[svc[t]][generation[svc[t]]] <= MaxRestarts + 1
    <3>1. launched'[svc[t]][generation[svc[t]]] = launched[svc[t]][generation[svc[t]]] + 1
      BY <1>3, <2>3, LaunchAddsOne
    <3>2. launched[svc[t]][generation[svc[t]]] \in Nat
      BY <2>3, LaunchesFinite
    <3> QED
      BY <2>4, <3>1, <3>2, SupervisorAssumption
  <2>6. ASSUME NEW p \in 1..started PROVE launched'[svc[p]][born[p]] <= MaxRestarts + 1
    BY <1>1, <1>3, <2>3, <2>5, LaunchAddsOne DEF WithinBudget
  <2> QED
    BY <2>2, <2>3, <2>5, <2>6 DEF WithinBudget
<1>4. WithinBudget'
  BY <1>2, <1>3, StepIsQuiet
<1>5. TypeOK' => (LaunchesWithinBudget <=> WithinBudget)'
  BY BudgetIsCounted, PTL
<1> QED
  BY <1>4, <1>5

-----------------------------------------------------------------------------
(* Nothing has been launched.                                              *)
LEMMA InitBudget == Init => BudgetInv
<1> SUFFICES ASSUME Init PROVE BudgetInv
  OBVIOUS
<1>1. TypeOK /\ started = 0 /\ 1..started = {}
  BY InitTypeInv DEF TypeInv, Init
<1>2. RestartsInv /\ BornInv /\ LaunchesWithinBudget
  BY <1>1, ThreadFacts
     DEF Init, RestartsInv, BornInv, LaunchesWithinBudget, Recovering, FramePCs
<1>3. SpentInv
  BY ThreadFacts DEF Init, SpentInv, InCharge, FramePCs, Recovering
<1> QED
  BY <1>2, <1>3 DEF BudgetInv

(* Recovery is bounded: what a command starts, and all the recoveries that *)
(* follow it, launch a service at most 1 + MaxRestarts times.              *)
THEOREM LaunchesWithinBudgetHolds == Spec => []LaunchesWithinBudget
<1>1. Inv /\ Inv' /\ BudgetInv /\ [Next]_vars => BudgetInv'
  <2> SUFFICES ASSUME Inv, TypeOK', BudgetInv, [Next]_vars PROVE BudgetInv'
    BY DEF Inv
  <2> QED
    BY RestartsInvStep, BornInvStep, SpentInvStep, WithinBudgetStep DEF BudgetInv
<1>2. BudgetInv => LaunchesWithinBudget
  BY DEF BudgetInv
<1> QED
  BY <1>1, <1>2, InitBudget, InvCorrect, PTL DEF Spec

=============================================================================

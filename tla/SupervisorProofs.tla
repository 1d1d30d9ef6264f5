--------------------------- MODULE SupervisorProofs ---------------------------
(***************************************************************************)
(* Theorems about the Supervisor, for every set of services, every acyclic *)
(* dependency relation and every restart budget.                            *)
(***************************************************************************)
EXTENDS Supervisor, FiniteSetTheorems, TLAPS

LEMMA CountType == Count \in Nat /\ Count > 0
<1>1. Count \in Nat
  BY SupervisorAssumption, FS_CardinalityType DEF Count
<1>2. Count # 0
  BY SupervisorAssumption, FS_EmptySet DEF Count
<1> QED BY <1>1, <1>2

(* A position in the order names a service.                                *)
LEMMA OrderType == ASSUME NEW o \in Orders, NEW i \in 1..Count
                   PROVE  o[i] \in Services
BY DEF Orders

-----------------------------------------------------------------------------
(* TypeOK is inductive once the cursor is known to be a position whenever  *)
(* a command walks along the order.                                        *)
CursorOK == cmd \in {"StartAll", "StopAll"} => cursor \in 1..Count

TypeInv == TypeOK /\ CursorOK

LEMMA InitTypeInv == Init => TypeInv
<1> SUFFICES ASSUME Init PROVE TypeInv
  OBVIOUS
<1>1. order[1] \in Services
  BY CountType, OrderType DEF Init
<1> USE DEF Init, Handles, Threads, Command, NoHandle
<1>2. /\ state \in [Services -> States] /\ handles \in [Services -> {NoHandle} \cup Handles]
      /\ generation \in [Services -> Nat]
  BY DEF States
<1>3. /\ lifecycleMu \in Threads \cup {NoThread} /\ order \in Orders
      /\ cancelled \in BOOLEAN /\ failed \in BOOLEAN
      /\ cmd \in Commands /\ phase \in Phases
  BY DEF NoThread, Commands, Phases
<1>4. /\ cursor \in 0..Count /\ issued \in 0..MaxCommands
      /\ started \in 0..MaxProcs /\ alive \subseteq 1..started
  BY CountType, SupervisorAssumption
<1>5. /\ pc \in [Threads -> PCs] /\ svc \in [Threads -> Services]
      /\ h \in [Threads -> {NoHandle} \cup Handles]
      /\ gen \in [Threads -> Nat] /\ restarts \in [Threads -> Nat]
      /\ unchecked \in [Threads -> SUBSET Services] /\ born \in [Handles -> Nat]
  BY <1>1 DEF PCs
<1>6. CursorOK
  BY DEF CursorOK
<1> QED
  BY <1>2, <1>3, <1>4, <1>5, <1>6 DEF TypeInv, TypeOK

(* The way a frame ends with an error.                                     *)
LEMMA FrameFailsType ==
  ASSUME TypeInv, NEW t \in Threads, FrameFails(t)
  PROVE  /\ pc' \in [Threads -> PCs] /\ restarts' \in [Threads -> Nat]
         /\ lifecycleMu' \in Threads \cup {NoThread}
         /\ cmd' \in Commands /\ cursor' \in 0..Count /\ phase' \in Phases
         /\ CursorOK'
<1> USE DEF FrameFails, TypeInv, TypeOK, CursorOK, PCs, Commands, Phases
<1>1. pc' \in [Threads -> PCs] /\ restarts' \in [Threads -> Nat]
  OBVIOUS
<1>2. lifecycleMu' \in Threads \cup {NoThread}
  OBVIOUS
<1>3. cmd' \in Commands /\ cursor' \in 0..Count /\ phase' \in Phases /\ CursorOK'
  BY CountType
<1> QED
  BY <1>1, <1>2, <1>3

LEMMA FrameType == ASSUME TypeInv, NEW t \in Threads, Frame(t) PROVE TypeInv'
<1> USE DEF TypeInv, TypeOK, mgrVars, procVars, cmdVars, locals
<1>1. CASE CheckDependency(t)
  BY <1>1 DEF CheckDependency, CursorOK
<1>2. CASE DependencyFails(t)
  BY <1>2, FrameFailsType DEF DependencyFails
<1>3. CASE Prepare(t)
  BY <1>3 DEF Prepare, Goto, SetState, CursorOK, States, PCs, FramePCs
<1>4. CASE PrepareFails(t)
  BY <1>4, FrameFailsType DEF PrepareFails
<1>5. CASE Launch(t)
  <2>1. /\ started + 1 \in Handles /\ started + 1 \in Threads
        /\ started' \in 0..MaxProcs /\ alive' \subseteq 1..started'
    BY <1>5, SupervisorAssumption DEF Launch, Handles, Threads
  <2>2. /\ born' \in [Handles -> Nat] /\ svc' \in [Threads -> Services]
        /\ h' \in [Threads -> {NoHandle} \cup Handles] /\ pc' \in [Threads -> PCs]
    BY <1>5, <2>1 DEF Launch, Goto, PCs, FramePCs
  <2> QED
    BY <1>5, <2>1, <2>2 DEF Launch, CursorOK
<1>6. CASE LaunchFails(t)
  BY <1>6, FrameFailsType DEF LaunchFails, SetState, States
<1>7. CASE RecordHandle(t)
  BY <1>7 DEF RecordHandle, Goto, CursorOK, PCs, FramePCs
<1>8. CASE BecomeHealthy(t)
  BY <1>8 DEF BecomeHealthy, Goto, SetState, CursorOK, States, PCs, FramePCs
<1>9. CASE NotReady(t)
  BY <1>9 DEF NotReady, Goto, SetState, CursorOK, States, PCs, FramePCs
<1>10. CASE DropHandle(t)
  BY <1>10 DEF DropHandle, Goto, CursorOK, PCs, FramePCs
<1>11. CASE KillUnready(t)
  BY <1>11, FrameFailsType DEF KillUnready, StopSucceeds, StopFails
<1> QED
  BY <1>1, <1>2, <1>3, <1>4, <1>5, <1>6, <1>7, <1>8, <1>9, <1>10, <1>11 DEF Frame

LEMMA RequestType == ASSUME TypeInv, Request PROVE TypeInv'
<1> USE DEF TypeInv, TypeOK, mgrVars, procVars, cmdVars, locals
<1>0. Command \in Threads
  BY DEF Threads
<1>1. CASE StartAll
  <2>1. order[1] \in Services
    BY CountType, OrderType
  <2> QED
    BY <1>0, <1>1, <2>1, CountType, SupervisorAssumption
       DEF StartAll, EnterFrame, CursorOK, Commands, Phases, PCs, FramePCs
<1>2. CASE Publish
  BY <1>2 DEF Publish, CursorOK, Phases
<1>3. CASE StopAll
  <2>1. phase' \in Phases /\ cmd' \in Commands /\ failed' \in BOOLEAN
    BY <1>3 DEF StopAll, Phases, Commands
  <2>2. cursor' = Count
    BY <1>3 DEF StopAll
  <2>3. pc' \in [Threads -> PCs]
    BY <1>0, <1>3 DEF StopAll, Goto, PCs
  <2>4. UNCHANGED <<mgrVars, lifecycleMu, procVars, order, cancelled, issued, locals>>
    BY <1>3 DEF StopAll
  <2> QED
    BY <2>1, <2>2, <2>3, <2>4, CountType DEF CursorOK
<1>4. ASSUME NEW s \in Services, Restart(s) PROVE TypeInv'
  <2>1. issued' \in 0..MaxCommands /\ phase' \in Phases
    BY <1>4, SupervisorAssumption DEF Restart, Phases
  <2> QED
    BY <1>0, <1>4, <2>1 DEF Restart, Goto, CursorOK, Commands, PCs
<1> QED
  BY <1>1, <1>2, <1>3, <1>4 DEF Request

LEMMA InvalidateType ==
  ASSUME TypeInv, NEW s \in Services, Invalidate(s)
  PROVE  /\ state' \in [Services -> States]
         /\ handles' \in [Services -> {NoHandle} \cup Handles]
         /\ generation' \in [Services -> Nat]
         /\ h' \in [Threads -> {NoHandle} \cup Handles]
<1> USE DEF Invalidate, SetState, TypeInv, TypeOK
<1>1. state' \in [Services -> States]
  BY DEF States
<1>2. /\ handles' \in [Services -> {NoHandle} \cup Handles]
      /\ generation' \in [Services -> Nat]
  OBVIOUS
<1>3. h' \in [Threads -> {NoHandle} \cup Handles]
  BY DEF Threads
<1> QED
  BY <1>1, <1>2, <1>3

LEMMA CommandType == ASSUME TypeInv, CommandStep PROVE TypeInv'
<1> USE DEF TypeInv, TypeOK, mgrVars, procVars, cmdVars, locals
<1>0. Command \in Threads /\ Command # NoThread
  BY DEF Threads, Command, NoThread
<1>1. CASE RestartLocks
  <2>1. svc[Command] \in Services
    BY <1>0
  <2> QED
    BY <1>0, <1>1, <2>1, InvalidateType DEF RestartLocks, Goto, CursorOK, PCs
<1>2. CASE StopAllLocks
  <2>1. order[cursor] \in Services
    BY <1>2, OrderType DEF StopAllLocks, CursorOK
  <2> QED
    BY <1>0, <1>2, <2>1, InvalidateType DEF StopAllLocks, Goto, CursorOK, PCs
<1>3. CASE StopService
  BY <1>0, <1>3 DEF StopService, StopSucceeds, Goto, CursorOK, PCs
<1>4. CASE StopServiceFails
  BY <1>0, <1>4 DEF StopServiceFails, StopFails, CursorOK, PCs, Commands
<1>5. CASE RestartCleansUp
  BY <1>0, <1>5, SupervisorAssumption
     DEF RestartCleansUp, EnterFrame, CursorOK, PCs, FramePCs
<1>6. CASE RestartCleanupFails
  BY <1>0, <1>6 DEF RestartCleanupFails, Goto, CursorOK, PCs, Commands
<1>7. CASE StopAllContinues
  <2>1. cursor - 1 \in 1..Count /\ order[cursor - 1] \in Services
    BY <1>7, CountType, OrderType DEF StopAllContinues, CursorOK
  <2>2. failed' \in BOOLEAN
    BY <1>7 DEF StopAllContinues
  <2> QED
    BY <1>0, <1>7, <2>1, <2>2, InvalidateType DEF StopAllContinues, CursorOK, PCs
<1>8. CASE StopAllReturns
  <2>1. failed' \in BOOLEAN /\ cancelled' \in BOOLEAN
    BY <1>8 DEF StopAllReturns
  <2> QED
    BY <1>0, <1>8, <2>1 DEF StopAllReturns, Goto, CursorOK, PCs, Commands
<1>9. CASE RestartReturns
  BY <1>0, <1>9 DEF RestartReturns, CursorOK, PCs, Commands
<1>10. CASE StartAllContinues
  <2>1. cursor + 1 \in 1..Count /\ order[cursor + 1] \in Services
    BY <1>10, CountType, OrderType DEF StartAllContinues, CursorOK
  <2>2. Deps[order[cursor + 1]] \in SUBSET Services
    BY <2>1, SupervisorAssumption
  <2> QED
    <3>1. /\ pc' \in [Threads -> PCs] /\ h' \in [Threads -> {NoHandle} \cup Handles]
          /\ svc' \in [Threads -> Services] /\ unchecked' \in [Threads -> SUBSET Services]
      BY <1>0, <1>10, <2>1, <2>2 DEF StartAllContinues, PCs, FramePCs
    <3> QED
      BY <1>10, <2>1, <3>1 DEF StartAllContinues, CursorOK
<1>11. CASE StartAllReturns
  BY <1>0, <1>11 DEF StartAllReturns, CursorOK, PCs, Commands, Phases
<1>12. CASE Frame(Command)
  BY <1>0, <1>12, FrameType
<1> QED
  BY <1>1, <1>2, <1>3, <1>4, <1>5, <1>6, <1>7, <1>8, <1>9, <1>10, <1>11, <1>12
     DEF CommandStep

LEMMA MonitorReturnsType ==
  ASSUME TypeInv, NEW t \in Threads, MonitorReturns(t)
  PROVE  /\ pc' \in [Threads -> PCs] /\ h' \in [Threads -> {NoHandle} \cup Handles]
         /\ gen' \in [Threads -> Nat] /\ restarts' \in [Threads -> Nat]
         /\ svc' \in [Threads -> Services] /\ unchecked' \in [Threads -> SUBSET Services]
BY DEF MonitorReturns, TypeInv, TypeOK, PCs

LEMMA MonitorType == ASSUME TypeInv, NEW t \in Handles, MonitorStep(t) PROVE TypeInv'
<1> USE DEF TypeInv, TypeOK, mgrVars, procVars, cmdVars, locals
<1>0. t \in Threads
  BY DEF Threads
<1>a. ASSUME LoseProcess(t)
      PROVE  /\ state' \in [Services -> States] /\ generation' \in [Services -> Nat]
             /\ handles' \in [Services -> {NoHandle} \cup Handles]
  BY <1>0, <1>a DEF LoseProcess, SetState, States
<1>b. ASSUME SetUnhealthyIfCurrent(t) PROVE state' \in [Services -> States]
  BY <1>0, <1>b DEF SetUnhealthyIfCurrent, States
<1>1. CASE NoticeExit(t)
  BY <1>0, <1>1, <1>a, MonitorReturnsType DEF NoticeExit, Goto, CursorOK, PCs
<1>2. CASE BeginBackoff(t)
  BY <1>0, <1>2, MonitorReturnsType DEF BeginBackoff, Goto, CursorOK, PCs
<1>3. CASE GiveUp(t)
  BY <1>0, <1>3, <1>b, MonitorReturnsType DEF GiveUp, CursorOK
<1>4. CASE BackoffCancelled(t)
  BY <1>0, <1>4, <1>b, MonitorReturnsType DEF BackoffCancelled, CursorOK
<1>5. CASE BackoffExpires(t)
  BY <1>0, <1>5, MonitorReturnsType DEF BackoffExpires, Goto, CursorOK, PCs
<1>6. CASE RecoveryLocks(t)
  BY <1>0, <1>6, MonitorReturnsType, SupervisorAssumption
     DEF RecoveryLocks, EnterFrame, CursorOK, PCs, FramePCs
<1>7. CASE RecoveryReturns(t)
  BY <1>0, <1>7 DEF RecoveryReturns, Goto, CursorOK, PCs
<1>8. CASE AdoptHandle(t)
  BY <1>0, <1>8, MonitorReturnsType DEF AdoptHandle, Goto, CursorOK, PCs
<1>9. CASE NoticeNextExit(t)
  BY <1>0, <1>9, <1>a, MonitorReturnsType DEF NoticeNextExit, Goto, CursorOK, PCs
<1>10. CASE Frame(t)
  BY <1>0, <1>10, FrameType
<1> QED
  BY <1>1, <1>2, <1>3, <1>4, <1>5, <1>6, <1>7, <1>8, <1>9, <1>10 DEF MonitorStep

LEMMA NextTypeInv == TypeInv /\ [Next]_vars => TypeInv'
<1> SUFFICES ASSUME TypeInv, [Next]_vars PROVE TypeInv'
  OBVIOUS
<1>1. CASE UNCHANGED vars
  BY <1>1 DEF vars, mgrVars, procVars, cmdVars, locals, TypeInv, TypeOK, CursorOK
<1>2. ASSUME NEW p \in Handles, ProcessExits(p) PROVE TypeInv'
  BY <1>2 DEF ProcessExits, mgrVars, cmdVars, locals, TypeInv, TypeOK, CursorOK
<1> QED
  BY <1>1, <1>2, RequestType, CommandType, MonitorType DEF Next

(* Every variable keeps its kind in every reachable state.                 *)
THEOREM TypeCorrect == Spec => []TypeOK
<1>1. TypeInv => TypeOK
  BY DEF TypeInv
<1>2. QED
  BY <1>1, InitTypeInv, NextTypeInv, PTL DEF Spec

=============================================================================

-------------------------- MODULE ControlPlaneProofs --------------------------
(***************************************************************************)
(* ControlPlane keeps its inductive invariants, for any number of          *)
(* invocations and any bounds.                                             *)
(***************************************************************************)
EXTENDS ControlPlaneInv, FiniteSetTheorems, TLAPS

(* Zero is neither an invocation nor a daemon.                              *)
LEMMA Ids ==
  /\ None \notin Clients /\ None \notin Daemons
  /\ Cardinality(Clients) \in Nat /\ Daemons = 1..Cardinality(Clients)
<1>1. Cardinality(Clients) \in Nat
  BY ControlAssumption, FS_CardinalityType
<1> QED
  BY <1>1, ControlAssumption DEF None, Daemons

(* Invocations never get their daemon back: as long as the control points  *)
(* they leave do not return to the earlier ones, Spent only grows.         *)
LEMMA SpentGrows ==
  ASSUME \A c \in Clients : cpc[c] \in SpentPCs => cpc'[c] \in SpentPCs
  PROVE  /\ Cardinality(Spent) \in Nat /\ Cardinality(Spent') \in Nat
         /\ Cardinality(Spent) <= Cardinality(Spent')
         /\ Cardinality(Spent') <= Cardinality(Clients)
<1>1. Spent \subseteq Spent' /\ Spent' \subseteq Clients
  BY DEF Spent
<1>2. IsFiniteSet(Spent')
  BY <1>1, ControlAssumption, FS_Subset
<1> QED
  BY <1>1, <1>2, ControlAssumption, FS_Subset, FS_CardinalityType

(* A step that spawns nobody keeps SpawnInv, as long as nobody returns to   *)
(* an earlier control point and no daemon appears.                          *)
LEMMA SpawnInvKept ==
  ASSUME SpawnInv, TypeOK, spawned' = spawned,
         \A c \in Clients : cpc[c] \in SpentPCs => cpc'[c] \in SpentPCs,
         \A d \in Daemons : dpc[d] = "none" => dpc'[d] = "none"
  PROVE  SpawnInv'
<1>1. spawned \in Nat
  BY Ids DEF TypeOK
<1> QED
  BY <1>1, SpentGrows DEF SpawnInv

(* The serialized handler runs one request or none.                        *)
LEMMA FewRequests ==
  /\ Cardinality({}) = 0
  /\ \A r \in Requests : Cardinality({r}) = 1 /\ {r} \in SUBSET Requests
BY FS_EmptySet, FS_Singleton

(* Client.Do talks to a daemon.                                            *)
LEMMA SendTypes ==
  ASSUME TypeOK, NEW c \in Clients, NEW kind \in {"identity", "stop", "down", "other"},
         Send(c, kind)
  PROVE  /\ target' \in [Clients -> Daemons \cup {None}]
         /\ reply' \in [Clients -> {"none", "ok", "error"}]
         /\ requests' \in [Daemons -> SUBSET Requests]
         /\ answers' \in [Daemons -> SUBSET Requests]
<1>1. socket \in Daemons
  BY DEF Send, Dialable, TypeOK
<1>2. <<c, kind>> \in Requests
  BY DEF Requests
<1>3. requests[socket] \cup {<<c, kind>>} \in SUBSET Requests
  BY <1>1, <1>2 DEF TypeOK
<1> QED
  BY <1>1, <1>3 DEF Send, TypeOK

(* A process that ends takes its requests with it.                         *)
LEMMA EndsTypes ==
  ASSUME TypeOK, NEW d \in Daemons, Ends(d)
  PROVE  /\ dpc' = [dpc EXCEPT ![d] = "dead"]
         /\ dpc' \in [Daemons -> DPCs]
         /\ requests' \in [Daemons -> SUBSET Requests]
         /\ running' \in [Daemons -> SUBSET Requests]
         /\ answers' \in [Daemons -> SUBSET Requests]
         /\ \A e \in Daemons : Cardinality(running'[e]) <= 1
         /\ reply' \in [Clients -> {"none", "ok", "error"}]
<1>1. dpc' = [dpc EXCEPT ![d] = "dead"] /\ dpc' \in [Daemons -> DPCs]
  BY DEF Ends, TypeOK, DPCs
<1>2. /\ requests' \in [Daemons -> SUBSET Requests]
      /\ running' \in [Daemons -> SUBSET Requests]
      /\ answers' \in [Daemons -> SUBSET Requests]
  BY DEF Ends, TypeOK
<1>3. \A e \in Daemons : running'[e] = running[e] \/ running'[e] = {}
  BY DEF Ends, TypeOK
<1>4. ASSUME NEW e \in Daemons  PROVE Cardinality(running'[e]) <= 1
  <2>1. CASE running'[e] = running[e]
    BY <2>1 DEF TypeOK
  <2>2. CASE running'[e] = {}
    BY <2>2, FewRequests
  <2> QED
    BY <1>3, <2>1, <2>2
<1>5. reply' \in [Clients -> {"none", "ok", "error"}]
  BY DEF Ends, TypeOK
<1> QED
  BY <1>1, <1>2, <1>4, <1>5

(* The down handler.                                                       *)
LEMMA StopRuntimeTypes ==
  ASSUME TypeOK, NEW d \in Daemons, StopRuntime(d)
  PROVE  /\ downState' \in [Daemons -> {"no", "ok", "failed"}]
         /\ dpc' \in [Daemons -> DPCs]
         /\ \A e \in Daemons : \/ dpc'[e] = dpc[e]
                               \/ dpc[e] = "serve" /\ dpc'[e] = "cancelled"
<1>1. PICK v \in {"no", "ok", "failed"} : downState' = [downState EXCEPT ![d] = v]
  <2> DEFINE outcomes == IF downState[d] = "no" THEN {"ok", "failed"} ELSE {downState[d]}
  <2>1. outcomes \subseteq {"no", "ok", "failed"}
    BY DEF TypeOK
  <2>2. PICK v \in outcomes : downState' = [downState EXCEPT ![d] = v]
    BY DEF StopRuntime
  <2> QED
    BY <2>1, <2>2
<1>2. dpc' = dpc \/ (dpc[d] = "serve" /\ dpc' = [dpc EXCEPT ![d] = "cancelled"])
  <2>1. dpc' = IF downState'[d] = "ok" /\ dpc[d] = "serve"
               THEN [dpc EXCEPT ![d] = "cancelled"] ELSE dpc
    BY DEF StopRuntime
  <2> QED
    BY <2>1
<1> QED
  BY <1>1, <1>2 DEF TypeOK, DPCs

(* An invocation that spawns a daemon has not been counted among Spent.     *)
LEMMA SpawnHasRoom ==
  ASSUME TypeOK, SpawnInv, NEW c \in Clients, cpc[c] = "spawn"
  PROVE  spawned \in Nat /\ spawned + 1 \in Daemons
<1>1. Spent \subseteq Clients /\ Spent # Clients
  BY DEF Spent, SpentPCs
<1>2. /\ Cardinality(Spent) \in Nat
      /\ Cardinality(Spent) <= Cardinality(Clients)
      /\ Cardinality(Spent) # Cardinality(Clients)
  BY <1>1, ControlAssumption, FS_Subset, FS_CardinalityType
<1>3. spawned \in Nat /\ spawned <= Cardinality(Spent)
  BY DEF TypeOK, SpawnInv
<1> QED
  BY <1>2, <1>3, Ids

-----------------------------------------------------------------------------
(* Whatever the delays: a CLI invocation.                                  *)

(* An invocation begins.                                                   *)
LEMMA InvokeStep ==
  ASSUME Inv, NEW c \in Clients, Invoke(c)
  PROVE  Inv'
<1>1. TypeOK'
  BY Ids DEF Inv, TypeOK, PCs, DPCs, Invoke, Goto, files, daemons, mail
<1>2. SpawnInv'
  BY SpawnInvKept DEF Inv, TypeOK, SpentPCs, Invoke, Goto, daemons
<1>3. LockInv'
  BY Ids DEF Inv, LockInv, LockedPCs, Invoke, Goto, files
<1>4. SocketInv'
  BY DEF Inv, SocketInv, Listening, Invoke, files, daemons
<1> QED
  BY <1>1, <1>2, <1>3, <1>4 DEF Inv

(* Flock admits one invocation.                                            *)
LEMMA LockStep ==
  ASSUME Inv, NEW c \in Clients, Lock(c)
  PROVE  Inv'
<1>1. TypeOK'
  BY Ids DEF Inv, TypeOK, PCs, DPCs, Lock, Goto, daemons, mail, clients
<1>2. SpawnInv'
  BY SpawnInvKept DEF Inv, TypeOK, SpentPCs, Lock, Goto, daemons
<1>3. LockInv'
  BY Ids DEF Inv, LockInv, LockedPCs, Lock, Goto
<1>4. SocketInv'
  BY DEF Inv, SocketInv, Listening, Lock, daemons
<1> QED
  BY <1>1, <1>2, <1>3, <1>4 DEF Inv

(* EnsureDaemon sees whether somebody listens.                             *)
LEMMA DialStep ==
  ASSUME Inv, NEW c \in Clients, Dial(c)
  PROVE  Inv'
<1>1. TypeOK'
  BY Ids DEF Inv, TypeOK, PCs, DPCs, Dial, Goto, files, daemons, mail, clients
<1>2. SpawnInv'
  BY SpawnInvKept DEF Inv, TypeOK, SpentPCs, Dial, Goto, daemons
<1>3. LockInv'
  BY Ids DEF Inv, TypeOK, PCs, DPCs, LockInv, LockedPCs, Dial, Goto, files
<1>4. SocketInv'
  BY DEF Inv, SocketInv, Listening, Dial, files, daemons
<1> QED
  BY <1>1, <1>2, <1>3, <1>4 DEF Inv

(* The identity request needs a daemon that listens.                       *)
LEMMA AskIdentityStep ==
  ASSUME Inv, NEW c \in Clients, AskIdentity(c)
  PROVE  Inv'
<1>1. TypeOK'
  <2>1. /\ target' \in [Clients -> Daemons \cup {None}]
        /\ reply' \in [Clients -> {"none", "ok", "error"}]
        /\ requests' \in [Daemons -> SUBSET Requests]
        /\ answers' \in [Daemons -> SUBSET Requests]
    BY SendTypes DEF AskIdentity, mail, Inv, TypeOK
  <2>2. cpc' \in [Clients -> PCs] /\ lock' \in Clients \cup {None}
    BY DEF AskIdentity, Goto, files, Inv, TypeOK, PCs
  <2> QED
    BY <2>1, <2>2 DEF AskIdentity, files, daemons, clients, Inv, TypeOK
<1>2. SpawnInv'
  BY SpawnInvKept DEF Inv, TypeOK, SpentPCs, AskIdentity, Goto, daemons
<1>3. LockInv'
  BY Ids DEF Inv, TypeOK, PCs, DPCs, LockInv, LockedPCs, AskIdentity, Goto, files
<1>4. SocketInv'
  BY DEF Inv, SocketInv, Listening, AskIdentity, files, daemons
<1> QED
  BY <1>1, <1>2, <1>3, <1>4 DEF Inv

(* EnsureDaemon returns with the daemon it has found.                      *)
LEMMA IdentityMatchesStep ==
  ASSUME Inv, NEW c \in Clients, IdentityMatches(c)
  PROVE  Inv'
<1>1. TypeOK'
  BY Ids DEF Inv, TypeOK, PCs, DPCs, IdentityMatches, Leave, Goto, daemons, mail, clients
<1>2. SpawnInv'
  BY SpawnInvKept DEF Inv, TypeOK, SpentPCs, IdentityMatches, Leave, Goto, daemons
<1>3. LockInv'
  BY Ids DEF Inv, TypeOK, PCs, DPCs, LockInv, LockedPCs, IdentityMatches, Leave, Goto
<1>4. SocketInv'
  BY DEF Inv, SocketInv, Listening, IdentityMatches, daemons
<1> QED
  BY <1>1, <1>2, <1>3, <1>4 DEF Inv

(* EnsureDaemon goes on to replace the daemon.                             *)
LEMMA IdentityStaleStep ==
  ASSUME Inv, NEW c \in Clients, IdentityStale(c)
  PROVE  Inv'
<1>1. TypeOK'
  BY Ids DEF Inv, TypeOK, PCs, DPCs, IdentityStale, files, daemons, mail, clients
<1>2. SpawnInv'
  BY SpawnInvKept DEF Inv, TypeOK, SpentPCs, IdentityStale, daemons
<1>3. LockInv'
  BY Ids DEF Inv, LockInv, LockedPCs, IdentityStale, files
<1>4. SocketInv'
  BY DEF Inv, SocketInv, Listening, IdentityStale, files, daemons
<1> QED
  BY <1>1, <1>2, <1>3, <1>4 DEF Inv

(* The down request needs a daemon that listens.                           *)
LEMMA AskDownStep ==
  ASSUME Inv, NEW c \in Clients, AskDown(c)
  PROVE  Inv'
<1>1. TypeOK'
  <2>1. /\ target' \in [Clients -> Daemons \cup {None}]
        /\ reply' \in [Clients -> {"none", "ok", "error"}]
        /\ requests' \in [Daemons -> SUBSET Requests]
        /\ answers' \in [Daemons -> SUBSET Requests]
    BY SendTypes DEF AskDown, mail, Inv, TypeOK
  <2>2. cpc' \in [Clients -> PCs] /\ lock' \in Clients \cup {None}
    BY DEF AskDown, Goto, Leave, Inv, TypeOK, PCs
  <2> QED
    BY <2>1, <2>2 DEF AskDown, daemons, clients, Inv, TypeOK
<1>2. SpawnInv'
  BY SpawnInvKept DEF Inv, TypeOK, SpentPCs, AskDown, Goto, Leave, daemons
<1>3. LockInv'
  BY Ids DEF Inv, TypeOK, PCs, DPCs, LockInv, LockedPCs, AskDown, Goto, Leave
<1>4. SocketInv'
  BY DEF Inv, SocketInv, Listening, AskDown, daemons
<1> QED
  BY <1>1, <1>2, <1>3, <1>4 DEF Inv

(* EnsureDaemon goes on to wait for the daemon's end, or gives up.         *)
LEMMA DownAnsweredStep ==
  ASSUME Inv, NEW c \in Clients, DownAnswered(c)
  PROVE  Inv'
<1>1. TypeOK'
  BY Ids DEF Inv, TypeOK, PCs, DPCs, DownAnswered, Goto, Leave, daemons, mail, clients
<1>2. SpawnInv'
  BY SpawnInvKept DEF Inv, TypeOK, SpentPCs, DownAnswered, Goto, Leave, daemons
<1>3. LockInv'
  BY Ids DEF Inv, TypeOK, PCs, DPCs, LockInv, LockedPCs, DownAnswered, Goto, Leave, Late
<1>4. SocketInv'
  BY DEF Inv, SocketInv, Listening, DownAnswered, daemons
<1> QED
  BY <1>1, <1>2, <1>3, <1>4 DEF Inv

(* The poll sees that nobody listens.                                      *)
LEMMA SeesSocketGoneStep ==
  ASSUME Inv, NEW c \in Clients, SeesSocketGone(c)
  PROVE  Inv'
<1>1. TypeOK'
  BY Ids DEF Inv, TypeOK, PCs, DPCs, SeesSocketGone, Goto, files, daemons, mail, clients
<1>2. SpawnInv'
  BY SpawnInvKept DEF Inv, TypeOK, SpentPCs, SeesSocketGone, Goto, daemons
<1>3. LockInv'
  BY Ids DEF Inv, LockInv, LockedPCs, SeesSocketGone, Goto, files
<1>4. SocketInv'
  BY DEF Inv, SocketInv, Listening, SeesSocketGone, files, daemons
<1> QED
  BY <1>1, <1>2, <1>3, <1>4 DEF Inv

(* The poll sees whether the owner is gone.                                *)
LEMMA SeesOwnerStep ==
  ASSUME Inv, NEW c \in Clients, SeesOwner(c)
  PROVE  Inv'
<1>1. TypeOK'
  BY Ids DEF Inv, TypeOK, PCs, DPCs, SeesOwner, Goto, files, daemons, mail, clients
<1>2. SpawnInv'
  BY SpawnInvKept DEF Inv, TypeOK, SpentPCs, SeesOwner, Goto, daemons
<1>3. LockInv'
  BY Ids DEF Inv, TypeOK, PCs, DPCs, LockInv, LockedPCs, SeesOwner, Goto, files
<1>4. SocketInv'
  BY DEF Inv, SocketInv, Listening, SeesOwner, files, daemons
<1> QED
  BY <1>1, <1>2, <1>3, <1>4 DEF Inv

(* The poll ends after 5 s.                                                *)
LEMMA GoneTimesOutStep ==
  ASSUME Inv, NEW c \in Clients, GoneTimesOut(c)
  PROVE  Inv'
<1>1. TypeOK'
  BY Ids DEF Inv, TypeOK, PCs, DPCs, GoneTimesOut, daemons, mail, clients
<1>2. SpawnInv'
  BY SpawnInvKept DEF Inv, TypeOK, SpentPCs, GoneTimesOut, daemons
<1>3. LockInv'
  BY Ids DEF Inv, TypeOK, PCs, DPCs, LockInv, LockedPCs, GoneTimesOut
<1>4. SocketInv'
  BY DEF Inv, SocketInv, Listening, GoneTimesOut, daemons
<1> QED
  BY <1>1, <1>2, <1>3, <1>4 DEF Inv

(* verifySocketReplacement admits the removal, or EnsureDaemon fails.      *)
LEMMA VerifyStep ==
  ASSUME Inv, NEW c \in Clients, Verify(c)
  PROVE  Inv'
<1>1. TypeOK'
  BY Ids DEF Inv, TypeOK, PCs, DPCs, Verify, Goto, Leave, daemons, mail, clients
<1>2. SpawnInv'
  BY SpawnInvKept DEF Inv, TypeOK, SpentPCs, Verify, Goto, Leave, daemons
<1>3. LockInv'
  BY Ids DEF Inv, TypeOK, PCs, DPCs, LockInv, LockedPCs, Verify, Goto, Leave, Replaceable, Alive
<1>4. SocketInv'
  BY DEF Inv, SocketInv, Listening, Verify, daemons
<1> QED
  BY <1>1, <1>2, <1>3, <1>4 DEF Inv

(* The path is removed: nothing is claimed of a missing socket.            *)
LEMMA RemoveSocketStep ==
  ASSUME Inv, NEW c \in Clients, RemoveSocket(c)
  PROVE  Inv'
<1>1. TypeOK'
  BY Ids DEF Inv, TypeOK, PCs, DPCs, RemoveSocket, Goto, daemons, mail, clients
<1>2. SpawnInv'
  BY SpawnInvKept DEF Inv, TypeOK, SpentPCs, RemoveSocket, Goto, daemons
<1>3. LockInv'
  BY Ids DEF Inv, LockInv, LockedPCs, RemoveSocket, Goto
<1>4. SocketInv'
  BY Ids DEF Inv, SocketInv, Listening, RemoveSocket, Goto, daemons
<1> QED
  BY <1>1, <1>2, <1>3, <1>4 DEF Inv

(* The owner file is removed.                                              *)
LEMMA RemoveOwnerStep ==
  ASSUME Inv, NEW c \in Clients, RemoveOwner(c)
  PROVE  Inv'
<1>1. TypeOK'
  BY Ids DEF Inv, TypeOK, PCs, DPCs, RemoveOwner, Goto, daemons, mail, clients
<1>2. SpawnInv'
  BY SpawnInvKept DEF Inv, TypeOK, SpentPCs, RemoveOwner, Goto, daemons
<1>3. LockInv'
  BY Ids DEF Inv, LockInv, LockedPCs, RemoveOwner, Goto
<1>4. SocketInv'
  BY DEF Inv, SocketInv, Listening, RemoveOwner, daemons
<1> QED
  BY <1>1, <1>2, <1>3, <1>4 DEF Inv

(* The new daemon is one that did not exist, and its invocation is spent:  *)
(* there is room for it.                                                   *)
LEMMA SpawnStep ==
  ASSUME Inv, NEW c \in Clients, Spawn(c)
  PROVE  Inv'
<1>1. TypeOK'
  <2>1. spawned' = spawned + 1 /\ spawned + 1 \in Daemons
    BY SpawnHasRoom DEF Spawn, Goto, Inv
  <2>2. dpc' \in [Daemons -> DPCs] /\ daemonBinary' \in [Daemons -> 0..(MaxUpgrades + 1)]
    BY <2>1, ControlAssumption DEF Spawn, Inv, TypeOK, DPCs
  <2>3. cpc' \in [Clients -> PCs] /\ target' \in [Clients -> Daemons \cup {None}]
    BY <2>1 DEF Spawn, Goto, Inv, TypeOK, PCs
  <2> QED
    BY <2>1, <2>2, <2>3, Ids DEF Spawn, files, mail, clients, Inv, TypeOK
<1>2. SpawnInv'
  <2>1. spawned' = spawned + 1 /\ spawned \in Nat /\ spawned + 1 \in Daemons
    BY SpawnHasRoom DEF Spawn, Goto, Inv
  <2>2. Spent' = Spent \cup {c} /\ c \notin Spent
    BY DEF Spawn, Goto, Inv, TypeOK, Spent, SpentPCs
  <2>3. IsFiniteSet(Spent)
    BY ControlAssumption, FS_Subset DEF Spent
  <2>4. Cardinality(Spent') = Cardinality(Spent) + 1 /\ Cardinality(Spent) \in Nat
    BY <2>2, <2>3, FS_AddElement, FS_CardinalityType
  <2>5. \A d \in Daemons : d > spawned' => dpc'[d] = "none"
    BY <2>1, Ids DEF Spawn, Inv, TypeOK, SpawnInv
  <2> QED
    BY <2>1, <2>4, <2>5 DEF Inv, SpawnInv
<1>3. LockInv'
  BY Ids DEF Inv, LockInv, LockedPCs, Spawn, Goto, files
<1>4. SocketInv'
  BY Ids DEF Inv, TypeOK, PCs, DPCs, SpawnInv, SocketInv, Listening, Spawn, Goto, files
<1> QED
  BY <1>1, <1>2, <1>3, <1>4 DEF Inv

(* EnsureDaemon returns with the daemon it has spawned.                    *)
LEMMA SocketReadyStep ==
  ASSUME Inv, NEW c \in Clients, SocketReady(c)
  PROVE  Inv'
<1>1. TypeOK'
  BY Ids DEF Inv, TypeOK, PCs, DPCs, SocketReady, Leave, Goto, daemons, mail, clients
<1>2. SpawnInv'
  BY SpawnInvKept DEF Inv, TypeOK, SpentPCs, SocketReady, Leave, Goto, daemons
<1>3. LockInv'
  BY Ids DEF Inv, TypeOK, PCs, DPCs, LockInv, LockedPCs, SocketReady, Leave, Goto
<1>4. SocketInv'
  BY DEF Inv, SocketInv, Listening, SocketReady, daemons
<1> QED
  BY <1>1, <1>2, <1>3, <1>4 DEF Inv

(* EnsureDaemon gives up.                                                  *)
LEMMA AwaitTimesOutStep ==
  ASSUME Inv, NEW c \in Clients, AwaitTimesOut(c)
  PROVE  Inv'
<1>1. TypeOK'
  BY Ids DEF Inv, TypeOK, PCs, DPCs, AwaitTimesOut, Leave, Goto, daemons, mail, clients
<1>2. SpawnInv'
  BY SpawnInvKept DEF Inv, TypeOK, SpentPCs, AwaitTimesOut, Leave, Goto, daemons
<1>3. LockInv'
  BY Ids DEF Inv, TypeOK, PCs, DPCs, LockInv, LockedPCs, AwaitTimesOut, Leave, Goto
<1>4. SocketInv'
  BY DEF Inv, SocketInv, Listening, AwaitTimesOut, daemons
<1> QED
  BY <1>1, <1>2, <1>3, <1>4 DEF Inv

(* The command needs a daemon that listens.                                *)
LEMMA SendCommandStep ==
  ASSUME Inv, NEW c \in Clients, SendCommand(c)
  PROVE  Inv'
<1>1. TypeOK'
  <2>1. /\ target' \in [Clients -> Daemons \cup {None}]
        /\ reply' \in [Clients -> {"none", "ok", "error"}]
        /\ requests' \in [Daemons -> SUBSET Requests]
        /\ answers' \in [Daemons -> SUBSET Requests]
    BY SendTypes DEF SendCommand, mail, Inv, TypeOK
  <2>2. cpc' \in [Clients -> PCs] /\ lock' \in Clients \cup {None}
    BY DEF SendCommand, Goto, files, Inv, TypeOK, PCs
  <2> QED
    BY <2>1, <2>2 DEF SendCommand, files, daemons, clients, Inv, TypeOK
<1>2. SpawnInv'
  BY SpawnInvKept DEF Inv, TypeOK, SpentPCs, SendCommand, Goto, daemons
<1>3. LockInv'
  BY Ids DEF Inv, TypeOK, PCs, DPCs, LockInv, LockedPCs, SendCommand, Goto, files
<1>4. SocketInv'
  BY DEF Inv, SocketInv, Listening, SendCommand, files, daemons
<1> QED
  BY <1>1, <1>2, <1>3, <1>4 DEF Inv

(* The invocation ends.                                                    *)
LEMMA CommandAnsweredStep ==
  ASSUME Inv, NEW c \in Clients, CommandAnswered(c)
  PROVE  Inv'
<1>1. TypeOK'
  BY Ids DEF Inv, TypeOK, PCs, DPCs, CommandAnswered, Goto, files, daemons, mail, clients
<1>2. SpawnInv'
  BY SpawnInvKept DEF Inv, TypeOK, SpentPCs, CommandAnswered, Goto, daemons
<1>3. LockInv'
  BY Ids DEF Inv, TypeOK, PCs, DPCs, LockInv, LockedPCs, CommandAnswered, Goto, files
<1>4. SocketInv'
  BY DEF Inv, SocketInv, Listening, CommandAnswered, files, daemons
<1> QED
  BY <1>1, <1>2, <1>3, <1>4 DEF Inv

(* An interrupted invocation loses its lock.                               *)
LEMMA InterruptStep ==
  ASSUME Inv, NEW c \in Clients, Interrupt(c)
  PROVE  Inv'
<1>1. TypeOK'
  BY Ids DEF Inv, TypeOK, PCs, DPCs, Interrupt, daemons, mail, clients
<1>2. SpawnInv'
  BY SpawnInvKept DEF Inv, TypeOK, SpentPCs, Interrupt, daemons
<1>3. LockInv'
  BY Ids DEF Inv, TypeOK, PCs, DPCs, LockInv, LockedPCs, Interrupt
<1>4. SocketInv'
  BY DEF Inv, SocketInv, Listening, Interrupt, daemons
<1> QED
  BY <1>1, <1>2, <1>3, <1>4 DEF Inv

-----------------------------------------------------------------------------
(* Whatever the delays: a daemon and the environment.                      *)

(* NewServer leaves a socket alone that somebody serves.                   *)
LEMMA ServerDialsStep ==
  ASSUME Inv, NEW d \in Daemons, ServerDials(d)
  PROVE  Inv'
<1>1. TypeOK'
  BY Ids DEF Inv, TypeOK, PCs, DPCs, ServerDials, Advance, files, mail, clients
<1>2. SpawnInv'
  BY SpawnInvKept DEF Inv, TypeOK, ServerDials, Advance
<1>3. SocketInv'
  BY Ids DEF Inv, TypeOK, PCs, DPCs, SocketInv, Listening, ServerDials, Advance, files
<1>4. LockInv'
  BY DEF Inv, LockInv, LockedPCs, ServerDials, files
<1> QED
  BY <1>1, <1>2, <1>3, <1>4 DEF Inv

(* NewServer leaves files alone that somebody owns.                        *)
LEMMA ServerVerifiesStep ==
  ASSUME Inv, NEW d \in Daemons, ServerVerifies(d)
  PROVE  Inv'
<1>1. TypeOK'
  BY Ids DEF Inv, TypeOK, PCs, DPCs, ServerVerifies, Advance, files, mail, clients
<1>2. SpawnInv'
  BY SpawnInvKept DEF Inv, TypeOK, ServerVerifies, Advance
<1>3. SocketInv'
  BY Ids DEF Inv, SocketInv, Listening, ServerVerifies, Advance, files
<1>4. LockInv'
  BY DEF Inv, LockInv, LockedPCs, ServerVerifies, files
<1> QED
  BY <1>1, <1>2, <1>3, <1>4 DEF Inv

(* NewServer removes the path: nothing is claimed of a missing socket.     *)
LEMMA ServerRemovesSocketStep ==
  ASSUME Inv, NEW d \in Daemons, ServerRemovesSocket(d)
  PROVE  Inv'
<1>1. TypeOK'
  BY Ids DEF Inv, TypeOK, PCs, DPCs, ServerRemovesSocket, Advance, mail, clients
<1>2. SpawnInv'
  BY SpawnInvKept DEF Inv, TypeOK, ServerRemovesSocket, Advance
<1>3. SocketInv'
  BY Ids DEF Inv, SocketInv, Listening, ServerRemovesSocket, Advance
<1>4. LockInv'
  BY DEF Inv, LockInv, LockedPCs, ServerRemovesSocket
<1> QED
  BY <1>1, <1>2, <1>3, <1>4 DEF Inv

(* The daemon that binds the path listens.                                 *)
LEMMA ServerListensStep ==
  ASSUME Inv, NEW d \in Daemons, ServerListens(d)
  PROVE  Inv'
<1>1. TypeOK'
  BY Ids DEF Inv, TypeOK, PCs, DPCs, ServerListens, Advance, mail, clients
<1>2. SpawnInv'
  BY SpawnInvKept DEF Inv, TypeOK, ServerListens, Advance
<1>3. SocketInv'
  BY Ids DEF Inv, TypeOK, PCs, DPCs, SocketInv, Listening, ServerListens, Advance
<1>4. LockInv'
  BY DEF Inv, LockInv, LockedPCs, ServerListens
<1> QED
  BY <1>1, <1>2, <1>3, <1>4 DEF Inv

(* It still listens.                                                       *)
LEMMA ServerWritesOwnerStep ==
  ASSUME Inv, NEW d \in Daemons, ServerWritesOwner(d)
  PROVE  Inv'
<1>1. TypeOK'
  BY Ids DEF Inv, TypeOK, PCs, DPCs, ServerWritesOwner, Advance, mail, clients
<1>2. SpawnInv'
  BY SpawnInvKept DEF Inv, TypeOK, ServerWritesOwner, Advance
<1>3. SocketInv'
  BY Ids DEF Inv, SocketInv, Listening, ServerWritesOwner, Advance
<1>4. LockInv'
  BY DEF Inv, LockInv, LockedPCs, ServerWritesOwner
<1> QED
  BY <1>1, <1>2, <1>3, <1>4 DEF Inv

(* The mutex admits one request.                                           *)
LEMMA BeginStep ==
  ASSUME Inv, NEW d \in Daemons, NEW r \in requests[d], Begin(d, r)
  PROVE  Inv'
<1>1. TypeOK'
  <2>1. r \in Requests
    BY DEF Inv, TypeOK
  <2>2. /\ running' = [running EXCEPT ![d] = {r}]
        /\ requests' = [requests EXCEPT ![d] = @ \ {r}]
    BY DEF Begin
  <2>3. running' \in [Daemons -> SUBSET Requests] /\ requests' \in [Daemons -> SUBSET Requests]
    BY <2>1, <2>2, FewRequests DEF Inv, TypeOK
  <2>4. \A e \in Daemons : running'[e] = IF e = d THEN {r} ELSE running[e]
    BY <2>2 DEF Inv, TypeOK
  <2>5. \A e \in Daemons : Cardinality(running'[e]) <= 1
    BY <2>1, <2>4, FewRequests DEF Inv, TypeOK
  <2> QED
    BY <2>3, <2>5 DEF Begin, files, clients, Inv, TypeOK
<1>2. SpawnInv'
  BY SpawnInvKept DEF Inv, TypeOK, Begin
<1>3. LockInv' /\ SocketInv'
  BY DEF Inv, LockInv, LockedPCs, SocketInv, Listening, Begin, files
<1> QED
  BY <1>1, <1>2, <1>3 DEF Inv

(* The handler returns; it may have cancelled the server, which listens    *)
(* until it closes.                                                        *)
LEMMA FinishStep ==
  ASSUME Inv, NEW d \in Daemons, NEW r \in running[d], Finish(d, r)
  PROVE  Inv'
<1>1. TypeOK'
  <2>1. r \in Requests /\ <<r[1], r[2]>> \in Requests
    BY DEF Inv, TypeOK, Requests
  <2>2. /\ running' = [running EXCEPT ![d] = {}]
        /\ answers' = [answers EXCEPT ![d] = @ \cup {<<r[1], r[2]>>}]
    BY DEF Finish
  <2>3. answers[d] \cup {<<r[1], r[2]>>} \in SUBSET Requests
    BY <2>1 DEF Inv, TypeOK
  <2>4. running' \in [Daemons -> SUBSET Requests] /\ answers' \in [Daemons -> SUBSET Requests]
    BY <2>2, <2>3 DEF Inv, TypeOK
  <2>5. \A e \in Daemons : running'[e] = IF e = d THEN {} ELSE running[e]
    BY <2>2 DEF Inv, TypeOK
  <2>6. \A e \in Daemons : Cardinality(running'[e]) <= 1
    BY <2>5, FewRequests DEF Inv, TypeOK
  <2>7. downState' \in [Daemons -> {"no", "ok", "failed"}] /\ dpc' \in [Daemons -> DPCs]
    BY StopRuntimeTypes DEF Finish, Inv, TypeOK
  <2> QED
    BY <2>4, <2>6, <2>7 DEF Finish, files, clients, Inv, TypeOK
<1>2. SpawnInv'
  <2>1. \A e \in Daemons : \/ dpc'[e] = dpc[e]
                           \/ dpc[e] = "serve" /\ dpc'[e] = "cancelled"
    BY StopRuntimeTypes DEF Finish, Inv
  <2> QED
    BY <2>1, SpawnInvKept DEF Finish, Inv
<1>3. SocketInv'
  <2>1. \A e \in Daemons : \/ dpc'[e] = dpc[e]
                           \/ dpc[e] = "serve" /\ dpc'[e] = "cancelled"
    BY StopRuntimeTypes DEF Finish, Inv
  <2> QED
    BY <2>1, Ids DEF Finish, files, Inv, TypeOK, SocketInv, Listening
<1>4. LockInv'
  BY DEF Inv, LockInv, LockedPCs, Finish, files
<1> QED
  BY <1>1, <1>2, <1>3, <1>4 DEF Inv

(* An answer changes what its client knows.                                *)
LEMMA AnswerStep ==
  ASSUME Inv, NEW d \in Daemons, NEW a \in answers[d], Answer(d, a)
  PROVE  Inv'
<1>1. TypeOK'
  <2>1. a \in Requests /\ a[1] \in Clients
    BY DEF Inv, TypeOK, Requests
  <2>2. answers' \in [Daemons -> SUBSET Requests]
    BY DEF Answer, Inv, TypeOK
  <2>3. \A kind : Outcomes(d, kind) \subseteq {"ok", "error"}
    BY DEF Outcomes
  <2>4. reply' = reply \/ \E v \in {"ok", "error"} : reply' = [reply EXCEPT ![a[1]] = v]
    BY <2>3 DEF Answer
  <2>5. reply' \in [Clients -> {"none", "ok", "error"}]
    BY <2>1, <2>4 DEF Inv, TypeOK
  <2> QED
    BY <2>2, <2>5 DEF Answer, files, daemons, clients, Inv, TypeOK
<1>2. SpawnInv'
  BY SpawnInvKept DEF Inv, TypeOK, Answer, daemons
<1>3. LockInv' /\ SocketInv'
  BY DEF Inv, LockInv, LockedPCs, SocketInv, Listening, Answer, files, daemons
<1> QED
  BY <1>1, <1>2, <1>3 DEF Inv

(* A daemon that stops listening removes the path.                         *)
LEMMA ListenerUnlinksStep ==
  ASSUME Inv, NEW d \in Daemons, ListenerUnlinks(d)
  PROVE  Inv'
<1>1. TypeOK'
  BY Ids DEF Inv, TypeOK, PCs, DPCs, ListenerUnlinks, Advance, mail, clients
<1>2. SpawnInv'
  BY SpawnInvKept DEF Inv, TypeOK, ListenerUnlinks, Advance
<1>3. SocketInv'
  BY Ids DEF Inv, SocketInv, Listening, ListenerUnlinks, Advance
<1>4. LockInv'
  BY DEF Inv, LockInv, LockedPCs, ListenerUnlinks
<1> QED
  BY <1>1, <1>2, <1>3, <1>4 DEF Inv

(* Nothing is claimed of a missing socket.                                 *)
LEMMA CloseRemovesSocketStep ==
  ASSUME Inv, NEW d \in Daemons, CloseRemovesSocket(d)
  PROVE  Inv'
<1>1. TypeOK'
  BY Ids DEF Inv, TypeOK, PCs, DPCs, CloseRemovesSocket, Advance, mail, clients
<1>2. SpawnInv'
  BY SpawnInvKept DEF Inv, TypeOK, CloseRemovesSocket, Advance
<1>3. SocketInv'
  BY Ids DEF Inv, SocketInv, Listening, CloseRemovesSocket, Advance
<1>4. LockInv'
  BY DEF Inv, LockInv, LockedPCs, CloseRemovesSocket
<1> QED
  BY <1>1, <1>2, <1>3, <1>4 DEF Inv

(* The owner file is removed.                                              *)
LEMMA CloseRemovesOwnerStep ==
  ASSUME Inv, NEW d \in Daemons, CloseRemovesOwner(d)
  PROVE  Inv'
<1>1. TypeOK'
  BY Ids DEF Inv, TypeOK, PCs, DPCs, CloseRemovesOwner, Advance, mail, clients
<1>2. SpawnInv'
  BY SpawnInvKept DEF Inv, TypeOK, CloseRemovesOwner, Advance
<1>3. SocketInv'
  BY Ids DEF Inv, SocketInv, Listening, CloseRemovesOwner, Advance
<1>4. LockInv'
  BY DEF Inv, LockInv, LockedPCs, CloseRemovesOwner
<1> QED
  BY <1>1, <1>2, <1>3, <1>4 DEF Inv

(* A daemon that exits does not listen any more.                           *)
LEMMA ExitStep ==
  ASSUME Inv, NEW d \in Daemons, Exit(d)
  PROVE  Inv'
<1>1. TypeOK'
  <2>1. Ends(d)
    BY DEF Exit
  <2> QED
    BY <2>1, EndsTypes DEF Exit, files, clients, Inv, TypeOK
<1>2. SpawnInv'
  BY SpawnInvKept DEF Inv, TypeOK, Exit, Ends
<1>3. SocketInv'
  BY Ids DEF Inv, SocketInv, Listening, Exit, Ends, files
<1>4. LockInv'
  BY DEF Inv, LockInv, LockedPCs, Exit, files
<1> QED
  BY <1>1, <1>2, <1>3, <1>4 DEF Inv

(* After a crash nothing is claimed of the socket.                         *)
LEMMA CrashStep ==
  ASSUME Inv, NEW d \in Daemons, Crash(d)
  PROVE  Inv'
<1>1. TypeOK'
  <2>1. Ends(d) /\ crashes' \in 0..MaxCrashes
    BY Ids, ControlAssumption DEF Crash, Inv, TypeOK
  <2> QED
    BY <2>1, EndsTypes DEF Crash, files, clients, Inv, TypeOK
<1>2. SpawnInv'
  BY SpawnInvKept DEF Inv, TypeOK, Crash, Ends, Alive
<1>3. SocketInv'
  BY Ids DEF Inv, TypeOK, PCs, DPCs, SocketInv, Listening, Crash, Ends, files
<1>4. LockInv'
  BY DEF Inv, LockInv, LockedPCs, Crash, files
<1> QED
  BY <1>1, <1>2, <1>3, <1>4 DEF Inv

(* The binary on disk is nobody's state.                                   *)
LEMMA UpgradeStep ==
  ASSUME Inv, Upgrade
  PROVE  Inv'
<1>1. TypeOK'
  <2>1. installed' \in 1..(MaxUpgrades + 1)
    BY ControlAssumption DEF Upgrade, Inv, TypeOK
  <2> QED
    BY <2>1 DEF Upgrade, files, daemons, mail, clients, Inv, TypeOK
<1>2. SpawnInv'
  BY SpawnInvKept DEF Inv, TypeOK, Upgrade, daemons
<1>3. LockInv' /\ SocketInv'
  BY DEF Inv, LockInv, LockedPCs, SocketInv, Listening, Upgrade, files, daemons
<1> QED
  BY <1>1, <1>2, <1>3 DEF Inv

-----------------------------------------------------------------------------
(* Whatever the delays: the specification.                                 *)

(* The initial states satisfy the invariant.                                *)
LEMMA InitInv ==
  ASSUME Init  PROVE Inv
<1>1. TypeOK
  <2>1. \A d \in Daemons : Cardinality(running[d]) <= 1
    BY FewRequests DEF Init
  <2>2. /\ installed \in 1..(MaxUpgrades + 1) /\ spawned \in 0..Cardinality(Clients)
        /\ crashes \in 0..MaxCrashes
    BY ControlAssumption, Ids DEF Init
  <2>3. /\ lock \in Clients \cup {None} /\ socket \in Daemons \cup {None}
        /\ owner \in Daemons \cup {None}
        /\ dpc \in [Daemons -> DPCs] /\ daemonBinary \in [Daemons -> 0..(MaxUpgrades + 1)]
        /\ downState \in [Daemons -> {"no", "ok", "failed"}]
    BY ControlAssumption DEF Init, DPCs
  <2>4. /\ requests \in [Daemons -> SUBSET Requests] /\ running \in [Daemons -> SUBSET Requests]
        /\ answers \in [Daemons -> SUBSET Requests]
    BY DEF Init
  <2>5. /\ cpc \in [Clients -> PCs] /\ clientBinary \in [Clients -> 0..(MaxUpgrades + 1)]
        /\ command \in [Clients -> {"down", "other"}]
        /\ target \in [Clients -> Daemons \cup {None}]
        /\ reply \in [Clients -> {"none", "ok", "error"}] /\ hasOwner \in [Clients -> BOOLEAN]
    BY ControlAssumption DEF Init, PCs
  <2> QED
    BY <2>1, <2>2, <2>3, <2>4, <2>5 DEF TypeOK
<1>2. SpawnInv
  <2>1. IsFiniteSet(Spent)
    BY ControlAssumption, FS_Subset DEF Spent
  <2>2. Cardinality(Spent) \in Nat
    BY <2>1, FS_CardinalityType
  <2> QED
    BY <2>2 DEF Init, SpawnInv
<1>3. LockInv /\ SocketInv
  BY DEF Init, LockInv, LockedPCs, SocketInv
<1> QED
  BY <1>1, <1>2, <1>3 DEF Inv

(* Every step keeps the invariant.                                          *)
LEMMA NextKeepsInv ==
  ASSUME Inv, [Next]_vars
  PROVE  Inv'
<1>1. ASSUME NEW c \in Clients, Invoke(c) \/ ClientStep(c) \/ Interrupt(c)  PROVE Inv'
  BY <1>1, InvokeStep, LockStep, DialStep, AskIdentityStep, IdentityMatchesStep,
     IdentityStaleStep, AskDownStep, DownAnsweredStep, SeesSocketGoneStep, SeesOwnerStep,
     GoneTimesOutStep, VerifyStep, RemoveSocketStep, RemoveOwnerStep, SpawnStep,
     SocketReadyStep, AwaitTimesOutStep, SendCommandStep, CommandAnsweredStep, InterruptStep
  DEF ClientStep
<1>2. ASSUME NEW d \in Daemons, DaemonStep(d) \/ Crash(d)  PROVE Inv'
  BY <1>2, ServerDialsStep, ServerVerifiesStep, ServerRemovesSocketStep, ServerListensStep,
     ServerWritesOwnerStep, BeginStep, FinishStep, AnswerStep, ListenerUnlinksStep,
     CloseRemovesSocketStep, CloseRemovesOwnerStep, ExitStep, CrashStep
  DEF DaemonStep
<1>3. CASE UNCHANGED vars
  BY <1>3 DEF vars, files, daemons, mail, clients, Inv, TypeOK, SpawnInv, Spent, LockInv,
     SocketInv, Listening
<1> QED
  BY <1>1, <1>2, <1>3, UpgradeStep DEF Next

(* The invariant holds in every reachable state.                            *)
THEOREM Invariance == Spec => []Inv
<1>1. Init => Inv
  BY InitInv
<1>2. Inv /\ [Next]_vars => Inv'
  BY NextKeepsInv
<1> QED
  BY <1>1, <1>2, PTL DEF Spec

(* Every variable holds a value of its kind, whatever the number of        *)
(* invocations: in particular none of them spawns a second daemon, and the *)
(* serialized handler runs one request at a time.                          *)
THEOREM ControlPlaneTypes == Spec => []TypeOK
<1>1. Inv => TypeOK
  BY DEF Inv
<1> QED
  BY <1>1, Invariance, PTL

(* When no daemon is left, and none was killed, the next invocation can    *)
(* start one: whoever ends by itself removes the path it listened on, in    *)
(* every order of slow daemons and interrupted invocations.                *)
THEOREM RecoverableUnlessKilledHolds == Spec => []RecoverableUnlessKilled
<1>1. Inv => RecoverableUnlessKilled
  <2> SUFFICES ASSUME Inv, crashes = 0, \A d \in Daemons : ~Alive(d)
               PROVE  Replaceable
    BY DEF RecoverableUnlessKilled, Recoverable
  <2>1. socket = None
    BY DEF Inv, TypeOK, SocketInv, Listening, Alive
  <2>2. owner # None => ~Alive(owner)
    BY DEF Inv, TypeOK
  <2> QED
    BY <2>1, <2>2 DEF Replaceable
<1> QED
  BY <1>1, Invariance, PTL

-----------------------------------------------------------------------------
(* While nobody gives up waiting: a CLI invocation.                        *)

(* Nothing of the files is concerned.                                      *)
LEMMA InvokePatientStep ==
  ASSUME ~Impatient, Inv, PatientInv, NEW c \in Clients, Invoke(c)
  PROVE  PatientInv'
<1>1. StartingInv'
  BY Ids DEF Inv, PatientInv, TypeOK, PCs, DPCs, StartingInv, NoServer, Starting, StartingPCs,
     Bound, BoundPCs, Invoke, Goto, files, daemons
<1>2. TakeoverInv'
  BY Ids DEF Inv, PatientInv, TypeOK, PCs, DPCs, TakeoverInv, NoServer, Starting, StartingPCs,
     Bound, BoundPCs, Invoke, Goto, files, daemons
<1>3. ServerInv'
  BY DEF PatientInv, ServerInv, Bound, BoundPCs, Invoke, files, daemons
<1> QED
  BY <1>1, <1>2, <1>3 DEF PatientInv

(* Who gets the lock has not yet looked at the files.                      *)
LEMMA LockPatientStep ==
  ASSUME ~Impatient, Inv, PatientInv, NEW c \in Clients, Lock(c)
  PROVE  PatientInv'
<1>1. StartingInv'
  BY Ids DEF Inv, PatientInv, TypeOK, PCs, DPCs, StartingInv, NoServer, Starting, StartingPCs,
     Bound, BoundPCs, Lock, Goto, daemons
<1>2. TakeoverInv'
  BY Ids DEF Inv, PatientInv, TypeOK, PCs, DPCs, TakeoverInv, NoServer, Starting, StartingPCs,
     Bound, BoundPCs, Lock, Goto, daemons
<1>3. ServerInv'
  BY DEF PatientInv, ServerInv, Bound, BoundPCs, Lock, daemons
<1> QED
  BY <1>1, <1>2, <1>3 DEF PatientInv

(* Nor has it when nobody listens.                                         *)
LEMMA DialPatientStep ==
  ASSUME ~Impatient, Inv, PatientInv, NEW c \in Clients, Dial(c)
  PROVE  PatientInv'
<1>1. StartingInv'
  BY Ids DEF Inv, PatientInv, TypeOK, PCs, DPCs, StartingInv, NoServer, Starting, StartingPCs,
     Bound, BoundPCs, Dial, Goto, files, daemons
<1>2. TakeoverInv'
  BY Ids DEF Inv, PatientInv, TypeOK, PCs, DPCs, LockInv, LockedPCs, StartingInv, NoServer,
     Starting, StartingPCs, Bound, BoundPCs, ServerInv, TakeoverInv, Dial, Goto, files, daemons
<1>3. ServerInv'
  BY DEF PatientInv, ServerInv, Bound, BoundPCs, Dial, files, daemons
<1> QED
  BY <1>1, <1>2, <1>3 DEF PatientInv

(* It waits for an answer.                                                 *)
LEMMA AskIdentityPatientStep ==
  ASSUME ~Impatient, Inv, PatientInv, NEW c \in Clients, AskIdentity(c)
  PROVE  PatientInv'
<1>1. StartingInv'
  BY Ids DEF Inv, PatientInv, TypeOK, PCs, DPCs, StartingInv, NoServer, Starting, StartingPCs,
     Bound, BoundPCs, AskIdentity, Goto, Send, files, daemons
<1>2. TakeoverInv'
  BY Ids DEF Inv, PatientInv, TypeOK, PCs, DPCs, TakeoverInv, NoServer, Starting, StartingPCs,
     Bound, BoundPCs, AskIdentity, Goto, Send, files, daemons
<1>3. ServerInv'
  BY DEF PatientInv, ServerInv, Bound, BoundPCs, AskIdentity, files, daemons
<1> QED
  BY <1>1, <1>2, <1>3 DEF PatientInv

(* An invocation that reuses a daemon leaves the files alone.              *)
LEMMA IdentityMatchesPatientStep ==
  ASSUME ~Impatient, Inv, PatientInv, NEW c \in Clients, IdentityMatches(c)
  PROVE  PatientInv'
<1>1. StartingInv'
  BY Ids DEF Inv, PatientInv, TypeOK, PCs, DPCs, StartingInv, NoServer, Starting, StartingPCs,
     Bound, BoundPCs, IdentityMatches, Leave, Goto, daemons
<1>2. TakeoverInv'
  BY Ids DEF Inv, PatientInv, TypeOK, PCs, DPCs, TakeoverInv, NoServer, Starting, StartingPCs,
     Bound, BoundPCs, IdentityMatches, Leave, Goto, daemons
<1>3. ServerInv'
  BY DEF PatientInv, ServerInv, Bound, BoundPCs, IdentityMatches, daemons
<1> QED
  BY <1>1, <1>2, <1>3 DEF PatientInv

(* An invocation that replaces a daemon asks it first.                     *)
LEMMA IdentityStalePatientStep ==
  ASSUME ~Impatient, Inv, PatientInv, NEW c \in Clients, IdentityStale(c)
  PROVE  PatientInv'
<1>1. StartingInv'
  BY Ids DEF Inv, PatientInv, TypeOK, PCs, DPCs, StartingInv, NoServer, Starting, StartingPCs,
     Bound, BoundPCs, IdentityStale, files, daemons
<1>2. TakeoverInv'
  BY Ids DEF Inv, PatientInv, TypeOK, PCs, DPCs, TakeoverInv, NoServer, Starting, StartingPCs,
     Bound, BoundPCs, IdentityStale, files, daemons
<1>3. ServerInv'
  BY DEF PatientInv, ServerInv, Bound, BoundPCs, IdentityStale, files, daemons
<1> QED
  BY <1>1, <1>2, <1>3 DEF PatientInv

(* It waits for an answer.                                                 *)
LEMMA AskDownPatientStep ==
  ASSUME ~Impatient, Inv, PatientInv, NEW c \in Clients, AskDown(c)
  PROVE  PatientInv'
<1>1. StartingInv'
  BY Ids DEF Inv, PatientInv, TypeOK, PCs, DPCs, StartingInv, NoServer, Starting, StartingPCs,
     Bound, BoundPCs, AskDown, Goto, Leave, Send, daemons
<1>2. TakeoverInv'
  BY Ids DEF Inv, PatientInv, TypeOK, PCs, DPCs, TakeoverInv, NoServer, Starting, StartingPCs,
     Bound, BoundPCs, AskDown, Goto, Leave, Send, daemons
<1>3. ServerInv'
  BY DEF PatientInv, ServerInv, Bound, BoundPCs, AskDown, daemons
<1> QED
  BY <1>1, <1>2, <1>3 DEF PatientInv

(* It waits for the end of the daemon.                                     *)
LEMMA DownAnsweredPatientStep ==
  ASSUME ~Impatient, Inv, PatientInv, NEW c \in Clients, DownAnswered(c)
  PROVE  PatientInv'
<1>1. StartingInv'
  BY Ids DEF Inv, PatientInv, TypeOK, PCs, DPCs, StartingInv, NoServer, Starting, StartingPCs,
     Bound, BoundPCs, DownAnswered, Goto, Leave, daemons
<1>2. TakeoverInv'
  BY Ids DEF Inv, PatientInv, TypeOK, PCs, DPCs, LockInv, LockedPCs, TakeoverInv, NoServer,
     Starting, StartingPCs, Bound, BoundPCs, DownAnswered, Goto, Leave, daemons
<1>3. ServerInv'
  BY DEF PatientInv, ServerInv, Bound, BoundPCs, DownAnswered, daemons
<1> QED
  BY <1>1, <1>2, <1>3 DEF PatientInv

(* It still has to see the owner.                                          *)
LEMMA SeesSocketGonePatientStep ==
  ASSUME ~Impatient, Inv, PatientInv, NEW c \in Clients, SeesSocketGone(c)
  PROVE  PatientInv'
<1>1. StartingInv'
  BY Ids DEF Inv, PatientInv, TypeOK, PCs, DPCs, StartingInv, NoServer, Starting, StartingPCs,
     Bound, BoundPCs, SeesSocketGone, Goto, files, daemons
<1>2. TakeoverInv'
  BY Ids DEF Inv, PatientInv, TypeOK, PCs, DPCs, TakeoverInv, NoServer, Starting, StartingPCs,
     Bound, BoundPCs, SeesSocketGone, Goto, files, daemons
<1>3. ServerInv'
  BY DEF PatientInv, ServerInv, Bound, BoundPCs, SeesSocketGone, files, daemons
<1> QED
  BY <1>1, <1>2, <1>3 DEF PatientInv

(* It still has to verify what it has seen.                                *)
LEMMA SeesOwnerPatientStep ==
  ASSUME ~Impatient, Inv, PatientInv, NEW c \in Clients, SeesOwner(c)
  PROVE  PatientInv'
<1>1. StartingInv'
  BY Ids DEF Inv, PatientInv, TypeOK, PCs, DPCs, StartingInv, NoServer, Starting, StartingPCs,
     Bound, BoundPCs, SeesOwner, Goto, files, daemons
<1>2. TakeoverInv'
  BY Ids DEF Inv, PatientInv, TypeOK, PCs, DPCs, TakeoverInv, NoServer, Starting, StartingPCs,
     Bound, BoundPCs, SeesOwner, Goto, files, daemons
<1>3. ServerInv'
  BY DEF PatientInv, ServerInv, Bound, BoundPCs, SeesOwner, files, daemons
<1> QED
  BY <1>1, <1>2, <1>3 DEF PatientInv

(* A patient poll does not end before the daemon does.                     *)
LEMMA GoneTimesOutPatientStep ==
  ASSUME ~Impatient, Inv, PatientInv, NEW c \in Clients, GoneTimesOut(c)
  PROVE  PatientInv'
<1>1. StartingInv'
  BY Ids DEF Inv, PatientInv, TypeOK, PCs, DPCs, StartingInv, NoServer, Starting, StartingPCs,
     Bound, BoundPCs, GoneTimesOut, daemons
<1>2. TakeoverInv'
  BY Ids DEF Inv, PatientInv, TypeOK, PCs, DPCs, TakeoverInv, NoServer, Starting, StartingPCs,
     Bound, BoundPCs, GoneTimesOut, daemons
<1>3. ServerInv'
  BY DEF PatientInv, ServerInv, Bound, BoundPCs, GoneTimesOut, daemons
<1> QED
  BY <1>1, <1>2, <1>3 DEF PatientInv

(* No server and no starting daemon is left when verifySocketReplacement   *)
(* admits the removal: a server is the live owner, or has a socket without *)
(* an owner, and the spawner of a starting daemon would hold the lock.     *)
LEMMA VerifyPatientStep ==
  ASSUME ~Impatient, Inv, PatientInv, NEW c \in Clients, Verify(c)
  PROVE  PatientInv'
<1>1. StartingInv'
  BY Ids DEF Inv, PatientInv, TypeOK, PCs, DPCs, StartingInv, NoServer, Starting, StartingPCs,
     Bound, BoundPCs, Verify, Goto, Leave, daemons
<1>2. TakeoverInv'
  <2>1. CASE ~Replaceable
    BY <2>1 DEF Verify, Leave, Goto, daemons, Inv, TypeOK, PatientInv, TakeoverInv, NoServer,
       Starting, StartingPCs, Bound, BoundPCs
  <2>2. CASE Replaceable
    <3>1. /\ cpc[c] = "verify" /\ cpc' = [cpc EXCEPT ![c] = "unlink"]
          /\ hasOwner' = [hasOwner EXCEPT ![c] = (owner # None)]
          /\ UNCHANGED <<socket, owner, dpc>>
      BY <2>2 DEF Verify, Goto, daemons
    <3>2. \A e \in Clients : cpc[e] \in LockedPCs => e = c
      BY <3>1 DEF Inv, LockInv, LockedPCs
    <3>3. NoServer
      BY <2>2, Ids DEF Replaceable, Alive, NoServer, Bound, BoundPCs, Inv, TypeOK,
         PatientInv, ServerInv
    <3>4. \A d \in Daemons : ~Starting(d)
      BY <3>1, <3>2 DEF PatientInv, StartingInv, LockedPCs
    <3>5. NoServer' /\ \A d \in Daemons : ~Starting(d)'
      BY <3>1, <3>3, <3>4 DEF NoServer, Bound, Starting
    <3>6. \A e \in Clients : cpc'[e] \in {"unlink", "disown", "spawn"} => e = c
      BY <3>1, <3>2 DEF Inv, TypeOK, LockedPCs
    <3>7. cpc'[c] = "unlink" /\ hasOwner'[c] = (owner # None)
      BY <3>1 DEF Inv, TypeOK
    <3> QED
      BY <3>1, <3>5, <3>6, <3>7 DEF TakeoverInv
  <2> QED
    BY <2>1, <2>2
<1>3. ServerInv'
  BY DEF PatientInv, ServerInv, Bound, BoundPCs, Verify, daemons
<1> QED
  BY <1>1, <1>2, <1>3 DEF PatientInv

(* No server is there whose path this could be.                            *)
LEMMA RemoveSocketPatientStep ==
  ASSUME ~Impatient, Inv, PatientInv, NEW c \in Clients, RemoveSocket(c)
  PROVE  PatientInv'
<1>1. StartingInv'
  BY Ids DEF Inv, PatientInv, TypeOK, PCs, DPCs, StartingInv, NoServer, Starting, StartingPCs,
     Bound, BoundPCs, RemoveSocket, Goto, daemons
<1>2. ServerInv'
  BY Ids DEF Inv, PatientInv, TypeOK, PCs, DPCs, LockInv, LockedPCs, StartingInv, NoServer,
     Starting, StartingPCs, Bound, BoundPCs, ServerInv, TakeoverInv, RemoveSocket, Goto, daemons
<1>3. TakeoverInv'
  BY Ids DEF Inv, PatientInv, TypeOK, PCs, DPCs, TakeoverInv, NoServer, Starting, StartingPCs,
     Bound, BoundPCs, RemoveSocket, Goto, daemons
<1> QED
  BY <1>1, <1>2, <1>3 DEF PatientInv

(* No server is there whose owner file this could be.                      *)
LEMMA RemoveOwnerPatientStep ==
  ASSUME ~Impatient, Inv, PatientInv, NEW c \in Clients, RemoveOwner(c)
  PROVE  PatientInv'
<1>1. StartingInv'
  BY Ids DEF Inv, PatientInv, TypeOK, PCs, DPCs, StartingInv, NoServer, Starting, StartingPCs,
     Bound, BoundPCs, RemoveOwner, Goto, daemons
<1>2. ServerInv'
  BY Ids DEF Inv, PatientInv, TypeOK, PCs, DPCs, LockInv, LockedPCs, StartingInv, NoServer,
     Starting, StartingPCs, Bound, BoundPCs, ServerInv, TakeoverInv, RemoveOwner, Goto, daemons
<1>3. TakeoverInv'
  BY Ids DEF Inv, PatientInv, TypeOK, PCs, DPCs, TakeoverInv, NoServer, Starting, StartingPCs,
     Bound, BoundPCs, RemoveOwner, Goto, daemons
<1> QED
  BY <1>1, <1>2, <1>3 DEF PatientInv

(* The new daemon finds neither files nor a server.                        *)
LEMMA SpawnPatientStep ==
  ASSUME ~Impatient, Inv, PatientInv, NEW c \in Clients, Spawn(c)
  PROVE  PatientInv'
<1>1. StartingInv'
  BY Ids DEF Inv, PatientInv, TypeOK, PCs, DPCs, LockInv, LockedPCs, StartingInv, NoServer,
     Starting, StartingPCs, Bound, BoundPCs, ServerInv, TakeoverInv, Spawn, Goto, files
<1>2. ServerInv'
  BY Ids DEF Inv, PatientInv, TypeOK, PCs, DPCs, ServerInv, Bound, BoundPCs, Spawn, Goto, files
<1>3. TakeoverInv'
  BY Ids DEF Inv, PatientInv, TypeOK, PCs, DPCs, LockInv, LockedPCs, TakeoverInv, NoServer,
     Starting, StartingPCs, Bound, BoundPCs, Spawn, Goto, files
<1> QED
  BY <1>1, <1>2, <1>3 DEF PatientInv

(* Somebody listens, so that no daemon is starting any more.               *)
LEMMA SocketReadyPatientStep ==
  ASSUME ~Impatient, Inv, PatientInv, NEW c \in Clients, SocketReady(c)
  PROVE  PatientInv'
<1>1. StartingInv'
  BY Ids DEF Inv, PatientInv, TypeOK, PCs, DPCs, StartingInv, NoServer, Starting, StartingPCs,
     Bound, BoundPCs, SocketReady, Leave, Goto, Dialable, Listening, daemons
<1>2. TakeoverInv'
  BY Ids DEF Inv, PatientInv, TypeOK, PCs, DPCs, TakeoverInv, NoServer, Starting, StartingPCs,
     Bound, BoundPCs, SocketReady, Leave, Goto, daemons
<1>3. ServerInv'
  BY DEF PatientInv, ServerInv, Bound, BoundPCs, SocketReady, daemons
<1> QED
  BY <1>1, <1>2, <1>3 DEF PatientInv

(* A patient invocation gives up only a daemon that is dead.               *)
LEMMA AwaitTimesOutPatientStep ==
  ASSUME ~Impatient, Inv, PatientInv, NEW c \in Clients, AwaitTimesOut(c)
  PROVE  PatientInv'
<1>1. StartingInv'
  BY Ids DEF Inv, PatientInv, TypeOK, PCs, DPCs, StartingInv, NoServer, Starting, StartingPCs,
     Bound, BoundPCs, AwaitTimesOut, Leave, Goto, Dialable, Alive, Listening, daemons
<1>2. TakeoverInv'
  BY Ids DEF Inv, PatientInv, TypeOK, PCs, DPCs, TakeoverInv, NoServer, Starting, StartingPCs,
     Bound, BoundPCs, AwaitTimesOut, Leave, Goto, daemons
<1>3. ServerInv'
  BY DEF PatientInv, ServerInv, Bound, BoundPCs, AwaitTimesOut, daemons
<1> QED
  BY <1>1, <1>2, <1>3 DEF PatientInv

(* Its lock is gone, but so are its claims.                                *)
LEMMA SendCommandPatientStep ==
  ASSUME ~Impatient, Inv, PatientInv, NEW c \in Clients, SendCommand(c)
  PROVE  PatientInv'
<1>1. StartingInv'
  BY Ids DEF Inv, PatientInv, TypeOK, PCs, DPCs, StartingInv, NoServer, Starting, StartingPCs,
     Bound, BoundPCs, SendCommand, Goto, Send, files, daemons
<1>2. TakeoverInv'
  BY Ids DEF Inv, PatientInv, TypeOK, PCs, DPCs, TakeoverInv, NoServer, Starting, StartingPCs,
     Bound, BoundPCs, SendCommand, Goto, Send, files, daemons
<1>3. ServerInv'
  BY DEF PatientInv, ServerInv, Bound, BoundPCs, SendCommand, files, daemons
<1> QED
  BY <1>1, <1>2, <1>3 DEF PatientInv

(* Its lock is gone, but so are its claims.                                *)
LEMMA CommandAnsweredPatientStep ==
  ASSUME ~Impatient, Inv, PatientInv, NEW c \in Clients, CommandAnswered(c)
  PROVE  PatientInv'
<1>1. StartingInv'
  BY Ids DEF Inv, PatientInv, TypeOK, PCs, DPCs, StartingInv, NoServer, Starting, StartingPCs,
     Bound, BoundPCs, CommandAnswered, Goto, files, daemons
<1>2. TakeoverInv'
  BY Ids DEF Inv, PatientInv, TypeOK, PCs, DPCs, LockInv, LockedPCs, TakeoverInv, NoServer,
     Starting, StartingPCs, Bound, BoundPCs, CommandAnswered, Goto, files, daemons
<1>3. ServerInv'
  BY DEF PatientInv, ServerInv, Bound, BoundPCs, CommandAnswered, files, daemons
<1> QED
  BY <1>1, <1>2, <1>3 DEF PatientInv

(* A patient invocation is not interrupted.                                *)
LEMMA InterruptPatientStep ==
  ASSUME ~Impatient, Inv, PatientInv, NEW c \in Clients, Interrupt(c)
  PROVE  PatientInv'
<1>1. StartingInv'
  BY Ids DEF Inv, PatientInv, TypeOK, PCs, DPCs, StartingInv, NoServer, Starting, StartingPCs,
     Bound, BoundPCs, Interrupt, daemons
<1>2. TakeoverInv'
  BY Ids DEF Inv, PatientInv, TypeOK, PCs, DPCs, TakeoverInv, NoServer, Starting, StartingPCs,
     Bound, BoundPCs, Interrupt, daemons
<1>3. ServerInv'
  BY DEF PatientInv, ServerInv, Bound, BoundPCs, Interrupt, daemons
<1> QED
  BY <1>1, <1>2, <1>3 DEF PatientInv

-----------------------------------------------------------------------------
(* While nobody gives up waiting: a daemon and the environment.            *)

(* The starting daemon finds no socket.                                    *)
LEMMA ServerDialsPatientStep ==
  ASSUME ~Impatient, Inv, PatientInv, NEW d \in Daemons, ServerDials(d)
  PROVE  PatientInv'
<1>1. StartingInv'
  BY Ids DEF Inv, PatientInv, TypeOK, PCs, DPCs, StartingInv, NoServer, Starting, StartingPCs,
     Bound, BoundPCs, ServerDials, Advance, files
<1>2. ServerInv'
  BY Ids DEF Inv, PatientInv, TypeOK, PCs, DPCs, ServerInv, Bound, BoundPCs, ServerDials,
     Advance, files
<1>3. TakeoverInv'
  BY Ids DEF Inv, PatientInv, TypeOK, PCs, DPCs, TakeoverInv, NoServer, Starting, StartingPCs,
     Bound, BoundPCs, ServerDials, Advance, files
<1> QED
  BY <1>1, <1>2, <1>3 DEF PatientInv

(* It finds no owner either.                                               *)
LEMMA ServerVerifiesPatientStep ==
  ASSUME ~Impatient, Inv, PatientInv, NEW d \in Daemons, ServerVerifies(d)
  PROVE  PatientInv'
<1>1. StartingInv'
  BY Ids DEF Inv, PatientInv, TypeOK, PCs, DPCs, StartingInv, NoServer, Starting, StartingPCs,
     Bound, BoundPCs, ServerVerifies, Advance, files
<1>2. ServerInv'
  BY Ids DEF Inv, PatientInv, TypeOK, PCs, DPCs, ServerInv, Bound, BoundPCs, ServerVerifies,
     Advance, files
<1>3. TakeoverInv'
  BY Ids DEF Inv, PatientInv, TypeOK, PCs, DPCs, TakeoverInv, NoServer, Starting, StartingPCs,
     Bound, BoundPCs, ServerVerifies, Advance, files
<1> QED
  BY <1>1, <1>2, <1>3 DEF PatientInv

(* There is no socket to remove.                                           *)
LEMMA ServerRemovesSocketPatientStep ==
  ASSUME ~Impatient, Inv, PatientInv, NEW d \in Daemons, ServerRemovesSocket(d)
  PROVE  PatientInv'
<1>1. StartingInv'
  BY Ids DEF Inv, PatientInv, TypeOK, PCs, DPCs, StartingInv, NoServer, Starting, StartingPCs,
     Bound, BoundPCs, ServerRemovesSocket, Advance
<1>2. ServerInv'
  BY Ids DEF Inv, PatientInv, TypeOK, PCs, DPCs, LockInv, LockedPCs, StartingInv, NoServer,
     Starting, StartingPCs, Bound, BoundPCs, ServerInv, TakeoverInv, ServerRemovesSocket,
     Advance
<1>3. TakeoverInv'
  BY Ids DEF Inv, PatientInv, TypeOK, PCs, DPCs, TakeoverInv, NoServer, Starting, StartingPCs,
     Bound, BoundPCs, ServerRemovesSocket, Advance
<1> QED
  BY <1>1, <1>2, <1>3 DEF PatientInv

(* From the bind on it is the only server.                                 *)
LEMMA ServerListensPatientStep ==
  ASSUME ~Impatient, Inv, PatientInv, NEW d \in Daemons, ServerListens(d)
  PROVE  PatientInv'
<1>1. StartingInv'
  BY Ids DEF Inv, PatientInv, TypeOK, PCs, DPCs, LockInv, LockedPCs, StartingInv, NoServer,
     Starting, StartingPCs, Bound, BoundPCs, ServerListens, Advance
<1>2. ServerInv'
  BY Ids DEF Inv, PatientInv, TypeOK, PCs, DPCs, LockInv, LockedPCs, StartingInv, NoServer,
     Starting, StartingPCs, Bound, BoundPCs, ServerInv, TakeoverInv, ServerListens, Advance
<1>3. TakeoverInv'
  BY Ids DEF Inv, PatientInv, TypeOK, PCs, DPCs, TakeoverInv, NoServer, Starting, StartingPCs,
     Bound, BoundPCs, ServerListens, Advance
<1> QED
  BY <1>1, <1>2, <1>3 DEF PatientInv

(* Both files name it now.                                                 *)
LEMMA ServerWritesOwnerPatientStep ==
  ASSUME ~Impatient, Inv, PatientInv, NEW d \in Daemons, ServerWritesOwner(d)
  PROVE  PatientInv'
<1>1. StartingInv'
  BY Ids DEF Inv, PatientInv, TypeOK, PCs, DPCs, StartingInv, NoServer, Starting, StartingPCs,
     Bound, BoundPCs, ServerWritesOwner, Advance
<1>2. ServerInv'
  BY Ids DEF Inv, PatientInv, TypeOK, PCs, DPCs, ServerInv, Bound, BoundPCs, ServerWritesOwner,
     Advance
<1>3. TakeoverInv'
  BY Ids DEF Inv, PatientInv, TypeOK, PCs, DPCs, TakeoverInv, NoServer, Starting, StartingPCs,
     Bound, BoundPCs, ServerWritesOwner, Advance
<1> QED
  BY <1>1, <1>2, <1>3 DEF PatientInv

(* Requests do not concern the files.                                      *)
LEMMA BeginPatientStep ==
  ASSUME ~Impatient, Inv, PatientInv, NEW d \in Daemons, NEW r \in requests[d], Begin(d, r)
  PROVE  PatientInv'
<1>1. StartingInv' /\ ServerInv' /\ TakeoverInv'
  BY DEF PatientInv, StartingInv, NoServer, Starting, StartingPCs, Bound, BoundPCs, ServerInv,
     TakeoverInv, Begin, files
<1> QED
  BY <1>1 DEF PatientInv

(* A cancelled server is still the one the files name.                     *)
LEMMA FinishPatientStep ==
  ASSUME ~Impatient, Inv, PatientInv, NEW d \in Daemons, NEW r \in running[d], Finish(d, r)
  PROVE  PatientInv'
<1>1. StartingInv'
  <2>1. \A e \in Daemons : \/ dpc'[e] = dpc[e]
                           \/ dpc[e] = "serve" /\ dpc'[e] = "cancelled"
    BY StopRuntimeTypes DEF Finish, Inv
  <2>2. \A e \in Daemons : (Bound(e)' => Bound(e)) /\ (Starting(e)' => Starting(e))
    BY <2>1 DEF Bound, BoundPCs, Starting, StartingPCs
  <2>3. UNCHANGED <<socket, owner, cpc, target>>
    BY DEF Finish, files
  <2> QED
    BY <2>2, <2>3 DEF PatientInv, StartingInv, NoServer
<1>2. ServerInv'
  <2>1. \A e \in Daemons : \/ dpc'[e] = dpc[e]
                           \/ dpc[e] = "serve" /\ dpc'[e] = "cancelled"
    BY StopRuntimeTypes DEF Finish, Inv
  <2>2. \A e \in Daemons : Bound(e)' => Bound(e)
    BY <2>1 DEF Bound, BoundPCs
  <2>3. UNCHANGED <<socket, owner>>
    BY DEF Finish, files
  <2> QED
    BY <2>1, <2>2, <2>3 DEF PatientInv, ServerInv
<1>3. TakeoverInv'
  <2>1. \A e \in Daemons : \/ dpc'[e] = dpc[e]
                           \/ dpc[e] = "serve" /\ dpc'[e] = "cancelled"
    BY StopRuntimeTypes DEF Finish, Inv
  <2>2. \A e \in Daemons : (Bound(e)' => Bound(e)) /\ (Starting(e)' => Starting(e))
    BY <2>1 DEF Bound, BoundPCs, Starting, StartingPCs
  <2>3. UNCHANGED <<socket, owner, cpc, hasOwner>>
    BY DEF Finish, files
  <2> QED
    BY <2>2, <2>3 DEF PatientInv, TakeoverInv, NoServer
<1> QED
  BY <1>1, <1>2, <1>3 DEF PatientInv

(* Answers do not concern the files.                                       *)
LEMMA AnswerPatientStep ==
  ASSUME ~Impatient, Inv, PatientInv, NEW d \in Daemons, NEW a \in answers[d], Answer(d, a)
  PROVE  PatientInv'
<1>1. StartingInv' /\ ServerInv' /\ TakeoverInv'
  BY DEF PatientInv, StartingInv, NoServer, Starting, StartingPCs, Bound, BoundPCs, ServerInv,
     TakeoverInv, Answer, files, daemons
<1> QED
  BY <1>1 DEF PatientInv

(* The path the listener removes is its own.                               *)
LEMMA ListenerUnlinksPatientStep ==
  ASSUME ~Impatient, Inv, PatientInv, NEW d \in Daemons, ListenerUnlinks(d)
  PROVE  PatientInv'
<1>1. StartingInv'
  BY Ids DEF Inv, PatientInv, TypeOK, PCs, DPCs, StartingInv, NoServer, Starting, StartingPCs,
     Bound, BoundPCs, ListenerUnlinks, Advance
<1>2. ServerInv'
  BY Ids DEF Inv, PatientInv, TypeOK, PCs, DPCs, ServerInv, Bound, BoundPCs, ListenerUnlinks,
     Advance
<1>3. TakeoverInv'
  BY Ids DEF Inv, PatientInv, TypeOK, PCs, DPCs, TakeoverInv, NoServer, Starting, StartingPCs,
     Bound, BoundPCs, ListenerUnlinks, Advance
<1> QED
  BY <1>1, <1>2, <1>3 DEF PatientInv

(* There is no path left to remove.                                        *)
LEMMA CloseRemovesSocketPatientStep ==
  ASSUME ~Impatient, Inv, PatientInv, NEW d \in Daemons, CloseRemovesSocket(d)
  PROVE  PatientInv'
<1>1. StartingInv'
  BY Ids DEF Inv, PatientInv, TypeOK, PCs, DPCs, StartingInv, NoServer, Starting, StartingPCs,
     Bound, BoundPCs, CloseRemovesSocket, Advance
<1>2. ServerInv'
  BY Ids DEF Inv, PatientInv, TypeOK, PCs, DPCs, ServerInv, Bound, BoundPCs, CloseRemovesSocket,
     Advance
<1>3. TakeoverInv'
  BY Ids DEF Inv, PatientInv, TypeOK, PCs, DPCs, TakeoverInv, NoServer, Starting, StartingPCs,
     Bound, BoundPCs, CloseRemovesSocket, Advance
<1> QED
  BY <1>1, <1>2, <1>3 DEF PatientInv

(* The owner file Close removes is its own.                                *)
LEMMA CloseRemovesOwnerPatientStep ==
  ASSUME ~Impatient, Inv, PatientInv, NEW d \in Daemons, CloseRemovesOwner(d)
  PROVE  PatientInv'
<1>1. StartingInv'
  BY Ids DEF Inv, PatientInv, TypeOK, PCs, DPCs, StartingInv, NoServer, Starting, StartingPCs,
     Bound, BoundPCs, CloseRemovesOwner, Advance
<1>2. ServerInv'
  BY Ids DEF Inv, PatientInv, TypeOK, PCs, DPCs, ServerInv, Bound, BoundPCs, CloseRemovesOwner,
     Advance
<1>3. TakeoverInv'
  BY Ids DEF Inv, PatientInv, TypeOK, PCs, DPCs, TakeoverInv, NoServer, Starting, StartingPCs,
     Bound, BoundPCs, CloseRemovesOwner, Advance
<1> QED
  BY <1>1, <1>2, <1>3 DEF PatientInv

(* A daemon that exits has no files.                                       *)
LEMMA ExitPatientStep ==
  ASSUME ~Impatient, Inv, PatientInv, NEW d \in Daemons, Exit(d)
  PROVE  PatientInv'
<1>1. StartingInv'
  BY Ids DEF Inv, PatientInv, TypeOK, PCs, DPCs, StartingInv, NoServer, Starting, StartingPCs,
     Bound, BoundPCs, Exit, Ends, files
<1>2. ServerInv'
  BY Ids DEF Inv, PatientInv, TypeOK, PCs, DPCs, ServerInv, Bound, BoundPCs, Exit, Ends, files
<1>3. TakeoverInv'
  BY Ids DEF Inv, PatientInv, TypeOK, PCs, DPCs, TakeoverInv, NoServer, Starting, StartingPCs,
     Bound, BoundPCs, Exit, Ends, files
<1> QED
  BY <1>1, <1>2, <1>3 DEF PatientInv

(* The files of a daemon that is killed stay, without a server.            *)
LEMMA CrashPatientStep ==
  ASSUME ~Impatient, Inv, PatientInv, NEW d \in Daemons, Crash(d)
  PROVE  PatientInv'
<1>1. StartingInv'
  BY Ids DEF Inv, PatientInv, TypeOK, PCs, DPCs, StartingInv, NoServer, Starting, StartingPCs,
     Bound, BoundPCs, Crash, Ends, files
<1>2. ServerInv'
  BY Ids DEF Inv, PatientInv, TypeOK, PCs, DPCs, ServerInv, Bound, BoundPCs, Crash, Ends, files
<1>3. TakeoverInv'
  BY Ids DEF Inv, PatientInv, TypeOK, PCs, DPCs, TakeoverInv, NoServer, Starting, StartingPCs,
     Bound, BoundPCs, Crash, Ends, files
<1> QED
  BY <1>1, <1>2, <1>3 DEF PatientInv

(* The binary on disk does not concern the files.                          *)
LEMMA UpgradePatientStep ==
  ASSUME ~Impatient, Inv, PatientInv, Upgrade
  PROVE  PatientInv'
<1>1. StartingInv' /\ ServerInv' /\ TakeoverInv'
  BY DEF PatientInv, StartingInv, NoServer, Starting, StartingPCs, Bound, BoundPCs, ServerInv,
     TakeoverInv, Upgrade, files, daemons
<1> QED
  BY <1>1 DEF PatientInv

-----------------------------------------------------------------------------
(* While nobody gives up waiting: the specification.                       *)

(* Every step keeps the invariant of the patient control plane.            *)
LEMMA NextKeepsPatientInv ==
  ASSUME ~Impatient, Inv, PatientInv, [Next]_vars
  PROVE  PatientInv'
<1>1. ASSUME NEW c \in Clients, Invoke(c) \/ ClientStep(c) \/ Interrupt(c)  PROVE PatientInv'
  BY <1>1, InvokePatientStep, LockPatientStep, DialPatientStep, AskIdentityPatientStep,
     IdentityMatchesPatientStep, IdentityStalePatientStep, AskDownPatientStep,
     DownAnsweredPatientStep, SeesSocketGonePatientStep, SeesOwnerPatientStep,
     GoneTimesOutPatientStep, VerifyPatientStep, RemoveSocketPatientStep,
     RemoveOwnerPatientStep, SpawnPatientStep, SocketReadyPatientStep,
     AwaitTimesOutPatientStep, SendCommandPatientStep, CommandAnsweredPatientStep,
     InterruptPatientStep
  DEF ClientStep
<1>2. ASSUME NEW d \in Daemons, DaemonStep(d) \/ Crash(d)  PROVE PatientInv'
  BY <1>2, ServerDialsPatientStep, ServerVerifiesPatientStep, ServerRemovesSocketPatientStep,
     ServerListensPatientStep, ServerWritesOwnerPatientStep, BeginPatientStep,
     FinishPatientStep, AnswerPatientStep, ListenerUnlinksPatientStep,
     CloseRemovesSocketPatientStep, CloseRemovesOwnerPatientStep, ExitPatientStep,
     CrashPatientStep
  DEF DaemonStep
<1>3. CASE UNCHANGED vars
  BY <1>3 DEF vars, files, daemons, PatientInv, StartingInv, ServerInv, TakeoverInv, NoServer,
     Starting, Bound
<1> QED
  BY <1>1, <1>2, <1>3, UpgradePatientStep DEF Next

(* The invariant of the patient control plane holds in every reachable     *)
(* state, daemons being killed or not.                                     *)
THEOREM PatientInvariance ==
  ASSUME ~Impatient
  PROVE  Spec => []PatientInv
<1>1. Init => PatientInv
  BY DEF Init, PatientInv, StartingInv, ServerInv, TakeoverInv, Starting, StartingPCs, Bound,
     BoundPCs
<1>2. Inv /\ PatientInv /\ [Next]_vars => PatientInv'
  BY NextKeepsPatientInv
<1> QED
  BY <1>1, <1>2, Invariance, PTL DEF Spec

(* No daemon binds the socket before the last one has given up socket and   *)
(* owner file.                                                             *)
THEOREM OneServerHolds ==
  ASSUME ~Impatient
  PROVE  Spec => []OneServer
<1>1. PatientInv => OneServer
  <2> DEFINE S == {d \in Daemons :
                     dpc[d] \in {"own", "serve", "cancelled", "closed", "unowned"}}
  <2> SUFFICES ASSUME PatientInv  PROVE Cardinality(S) <= 1
    BY DEF OneServer
  <2>1. \A d, e \in S : d = e
    BY DEF PatientInv, ServerInv, Bound, BoundPCs
  <2>2. CASE S = {}
    BY <2>2, FS_EmptySet
  <2>3. CASE S # {}
    <3>1. PICK d \in S : TRUE
      BY <2>3
    <3>2. S = {d}
      BY <2>1, <3>1
    <3> QED
      BY <3>2, FS_Singleton
  <2> QED
    BY <2>2, <2>3
<1> QED
  BY <1>1, PatientInvariance, PTL

(* A daemon that serves is the one both files name.                        *)
THEOREM ServingOwnsBothHolds ==
  ASSUME ~Impatient
  PROVE  Spec => []ServingOwnsBoth
<1>1. PatientInv => ServingOwnsBoth
  BY DEF PatientInv, ServerInv, ServingOwnsBoth
<1> QED
  BY <1>1, PatientInvariance, PTL

(* NewServer and EnsureDaemon preserve a live socket.  Without the          *)
(* assumption they do not (run control_race): it is the invocation that     *)
(* gives up a slow daemon which lets two of them into NewServer.           *)
THEOREM LiveSocketIsKeptByPatience ==
  ASSUME ~Impatient
  PROVE  Spec => NewServerPreservesLiveSocket
<1>1. ASSUME Inv, PatientInv, [Next]_vars, Dialable, socket' # socket
      PROVE  dpc[socket] = "cancelled"
  <2>1. socket \in Daemons /\ Bound(socket) /\ Listening(socket)
    BY <1>1 DEF Dialable, Listening, Bound, BoundPCs, Inv, TypeOK
  <2>2. ASSUME NEW c \in Clients
        PROVE  ~Invoke(c) /\ ~ClientStep(c) /\ ~Interrupt(c)
    <3>1. ~RemoveSocket(c)
      BY <1>1, <2>1 DEF RemoveSocket, Goto, PatientInv, TakeoverInv, NoServer
    <3> QED
      BY <1>1, <3>1 DEF Invoke, Interrupt, ClientStep, Lock, Dial, AskIdentity,
         IdentityMatches, IdentityStale, AskDown, DownAnswered, SeesSocketGone, SeesOwner,
         GoneTimesOut, Verify, RemoveOwner, Spawn, SocketReady, AwaitTimesOut, SendCommand,
         CommandAnswered, files
  <2>3. ASSUME NEW d \in Daemons
        PROVE  /\ ~ServerDials(d) /\ ~ServerVerifies(d) /\ ~ServerWritesOwner(d)
               /\ ~ServerRemovesSocket(d) /\ ~ServerListens(d)
               /\ ~CloseRemovesSocket(d) /\ ~CloseRemovesOwner(d)
               /\ ~Exit(d) /\ ~Crash(d)
               /\ \A r \in requests[d] : ~Begin(d, r)
               /\ \A r \in running[d] : ~Finish(d, r)
               /\ \A a \in answers[d] : ~Answer(d, a)
    <3>1. ~ServerRemovesSocket(d) /\ ~ServerListens(d)
      BY <1>1, <2>1 DEF ServerRemovesSocket, ServerListens, Advance, PatientInv, StartingInv,
         Starting, StartingPCs, NoServer
    <3>2. ~CloseRemovesSocket(d)
      BY <1>1, <2>1, Ids DEF CloseRemovesSocket, Advance, PatientInv, ServerInv
    <3> QED
      BY <1>1, <3>1, <3>2 DEF ServerDials, ServerVerifies, ServerWritesOwner,
         CloseRemovesOwner, Exit, Crash, Begin, Finish, Answer, files
  <2>4. ~Upgrade /\ ~UNCHANGED vars
    BY <1>1 DEF Upgrade, vars, files
  <2>5. PICK d \in Daemons : ListenerUnlinks(d)
    BY <1>1, <2>2, <2>3, <2>4 DEF Next, DaemonStep
  <2>6. dpc[d] = "cancelled" /\ d = socket
    BY <1>1, <2>1, <2>5 DEF ListenerUnlinks, Advance, PatientInv, ServerInv, Bound, BoundPCs
  <2> QED
    BY <2>6
<1>2. Inv /\ PatientInv /\ [Next]_vars => [LiveSocketIsKept]_vars
  BY <1>1 DEF LiveSocketIsKept
<1> QED
  BY <1>2, Invariance, PatientInvariance, PTL DEF Spec, NewServerPreservesLiveSocket

=============================================================================

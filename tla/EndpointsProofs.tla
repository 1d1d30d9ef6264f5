-------------------------- MODULE EndpointsProofs ---------------------------
(***************************************************************************)
(* Endpoints keeps its inductive invariant, for any number of tunnels and   *)
(* any bounds, hence its type invariant, DivergenceIsReported and           *)
(* NoMissedRecovery; and its steps are those RecoveryIsPublished and        *)
(* DownIsLastToSave allow.                                                  *)
(***************************************************************************)
EXTENDS EndpointsInv, TLAPS

(* The command is not a tunnel, and NoThread is nobody.                     *)
LEMMA Ids ==
  /\ Command \in Threads /\ Command \notin Tunnels /\ NoThread \notin Threads
  /\ Tunnels \subseteq Threads /\ Threads = {Command} \cup Tunnels
  /\ NoURL \in URLs /\ 1 \in Tunnels /\ NumTunnels \in URLs
BY EndpointsAssumption DEF Command, Threads, Tunnels, NoThread, NoURL, URLs

-----------------------------------------------------------------------------
(* Returning from startReadyMode and from the callback.                    *)

(* startReadyMode returns to x: what becomes of lifecycleMu, the command    *)
(* and the two threads concerned.                                          *)
LEMMA FrameReturnsEffect ==
  ASSUME TypeOK, MonitorInv, NEW x \in Threads, NEW ok \in BOOLEAN, FrameReturns(x, ok)
  PROVE  /\ lifecycleMu' = NoThread
         /\ cmd' = IF x = Command THEN "none" ELSE cmd
         /\ attempts' \in [Tunnels -> Nat] /\ pc' \in [Threads -> PCs]
         /\ on[x] \in Tunnels /\ (x # Command => on[x] = x)
         /\ \A y \in Threads :
              pc'[y] = IF y = on[x]
                       THEN IF ok THEN "watch" ELSE IF x = Command THEN "gone" ELSE "loop"
                       ELSE IF y = x THEN "idle" ELSE pc[y]
<1>1. on[x] \in Tunnels /\ (x # Command => x \in Tunnels /\ on[x] = x)
  BY Ids DEF TypeOK, MonitorInv
<1>2. CASE x = Command
  <2>1. pc' = [pc EXCEPT ![Command] = "idle", ![on[Command]] = IF ok THEN "watch" ELSE "gone"]
    BY <1>2 DEF FrameReturns
  <2>2. attempts' = [attempts EXCEPT ![on[Command]] = 0]
    BY <1>2 DEF FrameReturns
  <2>3. lifecycleMu' = NoThread /\ cmd' = "none"
    BY <1>2 DEF FrameReturns
  <2>4. pc \in [Threads -> PCs] /\ attempts \in [Tunnels -> Nat]
    BY DEF TypeOK
  <2>5. attempts' \in [Tunnels -> Nat]
    BY <1>1, <1>2, <2>2, <2>4
  <2>6. pc' \in [Threads -> PCs]
    BY <1>1, <1>2, <2>1, <2>4, Ids DEF PCs
  <2> QED
    BY <1>1, <1>2, <2>1, <2>3, <2>4, <2>5, <2>6, Ids
<1>3. CASE x # Command
  <2>1. pc' = [pc EXCEPT ![x] = IF ok THEN "watch" ELSE "loop"]
    BY <1>3 DEF FrameReturns
  <2>2. attempts' = [attempts EXCEPT ![x] = @ + 1]
    BY <1>3 DEF FrameReturns
  <2>3. lifecycleMu' = NoThread /\ cmd' = cmd
    BY <1>3 DEF FrameReturns
  <2>4. pc \in [Threads -> PCs] /\ attempts \in [Tunnels -> Nat]
    BY DEF TypeOK
  <2>5. attempts' \in [Tunnels -> Nat]
    BY <1>1, <1>3, <2>2, <2>4
  <2>6. pc' \in [Threads -> PCs]
    BY <1>1, <1>3, <2>1, <2>4, Ids DEF PCs
  <2> QED
    BY <1>1, <1>3, <2>1, <2>3, <2>4, <2>5, <2>6, Ids
<1> QED
  BY <1>2, <1>3

(* What a thread that returns from startReadyMode leaves as it was: the     *)
(* locks are those of others, and its tunnel has a monitor again or none.  *)
LEMMA FrameReturnsKeeps ==
  ASSUME Inv, NEW x \in Threads, NEW ok \in BOOLEAN, FrameReturns(x, ok),
         Starting(x),
         UNCHANGED <<on, phase, todo, callback>>,
         endpointSyncMu' = endpointSyncMu \/ endpointSyncMu = x
  PROVE  LockInv' /\ MonitorInv' /\ CommandInv' /\ CallbackInv'
<1>1. /\ lifecycleMu' = NoThread
      /\ cmd' = IF x = Command THEN "none" ELSE cmd
      /\ on[x] \in Tunnels /\ (x # Command => on[x] = x)
      /\ \A y \in Threads :
           pc'[y] = IF y = on[x]
                    THEN IF ok THEN "watch" ELSE IF x = Command THEN "gone" ELSE "loop"
                    ELSE IF y = x THEN "idle" ELSE pc[y]
  BY FrameReturnsEffect DEF Inv
<1>2. \A y \in Threads : Starting(y) => y = x
  BY Ids DEF Inv, LockInv
<1>3. x = Command => cmd = "restart"
  BY DEF Inv, TypeOK, CommandInv, Starting, InUp, StartPCs, CallbackPCs, SyncPCs
<1>4. \A y \in Threads : pc'[y] \in StartPCs => y # x /\ y # on[x] /\ pc'[y] = pc[y]
  BY <1>1 DEF StartPCs, CallbackPCs, SyncPCs
<1>5. LockInv'
  <2>1. \A y \in Threads : ~Starting(y)'
    BY <1>1, <1>2, <1>3, <1>4, Ids DEF Starting, InUp
  <2>2. ASSUME NEW y \in Threads, pc'[y] \in SyncPCs  PROVE endpointSyncMu' = y
    BY <1>4, <2>2 DEF Inv, LockInv, StartPCs, CallbackPCs
  <2> QED
    BY <2>1, <2>2 DEF LockInv
<1>6. MonitorInv'
  <2>1. pc[x] \in StartPCs /\ pc[x] \notin {"lock", "gone", "stopped"}
    BY DEF Starting, StartPCs, CallbackPCs, SyncPCs
  <2>2. ASSUME NEW t \in Tunnels
        PROVE  on'[t] = t /\ pc'[t] \in {"watch", "loop", "gone"} \cup StartPCs
    BY <1>1, Ids DEF Inv, MonitorInv
  <2>3. ASSUME cmd' = "restart", pc'[Command] # "lock"  PROVE pc'[on'[Command]] = "gone"
    BY <1>1, <2>1, <2>3, Ids DEF Inv, TypeOK, MonitorInv
  <2>4. ASSUME pc'[Command] = "stopped" \/ phase' = "down", NEW t \in Tunnels
        PROVE  pc'[t] = "gone"
    BY <1>1, <1>3, <2>1, <2>4, Ids DEF Inv, MonitorInv, CommandInv
  <2> QED
    BY <2>2, <2>3, <2>4 DEF MonitorInv
<1>7. CommandInv'
  BY <1>1, <1>3, Ids DEF Inv, CommandInv, MonitorInv, Starting, StartPCs, CallbackPCs,
     SyncPCs
<1>8. CallbackInv'
  BY <1>1, <1>3, <1>4, Ids DEF Inv, CallbackInv, CommandInv, Starting, StartPCs,
     CallbackPCs, SyncPCs
<1> QED
  BY <1>5, <1>6, <1>7, <1>8

(* The callback's local variables go with it, those of others stay.        *)
LEMMA CallbackReturnsLocals ==
  ASSUME TypeOK, NEW x \in Threads, CallbackReturns(x)
  PROVE  /\ current' \in [Threads -> URLs] /\ copied' \in [Threads -> [Tunnels -> URLs]]
         /\ loaded' \in [Threads -> BOOLEAN] /\ failed' \in [Threads -> BOOLEAN]
         /\ \A y \in Threads : y # x =>
              current'[y] = current[y] /\ copied'[y] = copied[y] /\ failed'[y] = failed[y]
<1>1. NoEndpoints \in [Tunnels -> URLs]
  BY Ids DEF NoEndpoints
<1> QED
  BY <1>1, Ids DEF CallbackReturns, TypeOK

(* What a thread that returns from the callback leaves as it was, when the  *)
(* last URL read of its tunnel is the one its process has printed.         *)
LEMMA CallbackReturnsKeeps ==
  ASSUME Inv, NEW x \in Threads, CallbackReturns(x), pc[x] \in CallbackPCs,
         UNCHANGED <<on, phase, todo, callback, healthy, urlVars, endpoints>>,
         endpointSyncMu' = endpointSyncMu \/ endpointSyncMu = x,
         \A t \in Tunnels : seen'[t] = seen[t] \/ seen'[t] = url[t],
         Starting(x) \/ pc[x] = "read" =>
           on[x] \in crossed \/ seen'[on[x]] \in {url[on[x]], address[on[x]]}
  PROVE  /\ LockInv' /\ MonitorInv' /\ CommandInv' /\ CallbackInv' /\ UrlInv'
         /\ SeenInv' /\ FreshInv'
         /\ pc' \in [Threads -> PCs] /\ attempts' \in [Tunnels -> Nat]
         /\ lifecycleMu' \in Threads \cup {NoThread}
         /\ cmd' \in {"none", "up", "restart", "down"}
         /\ \A y \in Threads : pc'[y] \in SyncPCs => y # x /\ pc'[y] = pc[y]
         /\ \A y \in Threads : y # x /\ pc[y] \in SyncPCs => pc'[y] = pc[y]
         /\ \A y \in Threads : y # x => copied'[y] = copied[y] /\ failed'[y] = failed[y]
         /\ current' \in [Threads -> URLs] /\ copied' \in [Threads -> [Tunnels -> URLs]]
         /\ loaded' \in [Threads -> BOOLEAN] /\ failed' \in [Threads -> BOOLEAN]
<1>. USE DEF urlVars
<1>3. /\ current' \in [Threads -> URLs] /\ copied' \in [Threads -> [Tunnels -> URLs]]
      /\ loaded' \in [Threads -> BOOLEAN] /\ failed' \in [Threads -> BOOLEAN]
      /\ \A y \in Threads : y # x =>
           current'[y] = current[y] /\ copied'[y] = copied[y] /\ failed'[y] = failed[y]
  BY CallbackReturnsLocals DEF Inv
<1>0. /\ UNCHANGED <<url, address, printed, found, crossed, handedOut>>
      /\ \A t \in Tunnels \ crossed : url[t] # NoURL => url[t] = address[t]
  BY DEF Inv, UrlInv
<1>1. CASE InUp(x)
  <2>1. pc' = [pc EXCEPT ![Command] = "callbacks"] /\ UNCHANGED <<lifecycleMu, cmd, attempts>>
    BY <1>1 DEF CallbackReturns, InUp
  <2>2. pc \in [Threads -> PCs] /\ x = Command /\ cmd = "up"
    BY <1>1 DEF InUp, Inv, TypeOK
  <2>3. /\ pc' \in [Threads -> PCs]
        /\ \A y \in Threads : pc'[y] = IF y = Command THEN "callbacks" ELSE pc[y]
    BY <2>1, <2>2, Ids DEF PCs
  <2>4. LockInv'
    BY <2>1, <2>2, <2>3, Ids DEF Inv, LockInv, Starting, InUp, StartPCs, CallbackPCs,
       SyncPCs
  <2>5. MonitorInv'
    BY <2>1, <2>2, <2>3, Ids DEF Inv, MonitorInv, CommandInv
  <2>6. CommandInv'
    BY <2>1, <2>2, <2>3, Ids DEF Inv, CommandInv, CallbackPCs, SyncPCs
  <2>7. CallbackInv'
    BY <2>1, <2>2, <2>3, Ids DEF Inv, CallbackInv, CommandInv, CallbackPCs, SyncPCs
  <2>8. on[Command] \in Tunnels /\ healthy \subseteq Tunnels
    BY <2>2, Ids DEF Inv, TypeOK
  <2>9. SeenInv'
    <3> SUFFICES ASSUME callback  PROVE SeenInv'
      BY DEF SeenInv
    <3>1. ASSUME NEW t \in healthy \ crossed, pc'[t] = "watch"
          PROVE  t \in todo \/ seen'[t] = address[t]
      <4>1. pc[t] = "watch" /\ t \in Tunnels
        BY <2>2, <2>3, <2>8, <3>1, Ids
      <4>2. url[t] = address[t]
        BY <1>0, <3>1, <4>1 DEF Inv, UrlInv
      <4>3. t \in todo \/ (pc[Command] = "read" /\ on[Command] = t) \/ seen[t] = address[t]
        BY <3>1, <4>1 DEF Inv, SeenInv
      <4> QED
        BY <2>2, <3>1, <4>1, <4>2, <4>3
    <3>2. ASSUME NEW y \in Threads, Starting(y)', pc'[y] \in {"sync"} \cup SyncPCs,
                 on[y] \notin crossed
          PROVE  seen'[on[y]] = address[on[y]]
      <4>1. Starting(y) /\ pc[y] = pc'[y]
        BY <2>1, <2>2, <2>3, <3>2 DEF Starting, InUp, StartPCs, CallbackPCs, SyncPCs
      <4>2. on[y] \in Tunnels /\ seen[on[y]] = address[on[y]]
        BY <3>2, <4>1 DEF Inv, TypeOK, SeenInv
      <4>3. url[on[y]] = address[on[y]]
        BY <1>0, <3>2, <4>1, <4>2 DEF Inv, UrlInv, SyncPCs
      <4> QED
        BY <4>2, <4>3
    <3> QED
      BY <1>0, <3>1, <3>2 DEF SeenInv
  <2>10. FreshInv'
    <3>1. ASSUME NEW y \in Threads, Starting(y)'
          PROVE  Starting(y) /\ pc[y] = pc'[y] /\ y # x
      BY <2>1, <2>2, <2>3, <3>1 DEF Starting, InUp, StartPCs, CallbackPCs, SyncPCs
    <3> QED
      BY <1>0, <1>3, <3>1 DEF Inv, FreshInv
  <2>11. UrlInv'
    BY <1>0, <2>1, <2>2, <2>3, <2>8, Ids DEF Inv, UrlInv, Starting, InUp, StartPCs,
       CallbackPCs, SyncPCs
  <2> QED
    BY <1>3, <2>1, <2>2, <2>3, <2>4, <2>5, <2>6, <2>7, <2>9, <2>10, <2>11
    DEF Inv, TypeOK, SyncPCs
<1>2. CASE ~InUp(x)
  <2>1. FrameReturns(x, TRUE) /\ Starting(x)
    BY <1>2 DEF CallbackReturns, InUp, Starting, StartPCs
  <2>2. LockInv' /\ MonitorInv' /\ CommandInv' /\ CallbackInv'
    BY <2>1, FrameReturnsKeeps
  <2>3. /\ lifecycleMu' = NoThread /\ cmd' = IF x = Command THEN "none" ELSE cmd
        /\ attempts' \in [Tunnels -> Nat] /\ pc' \in [Threads -> PCs]
        /\ on[x] \in Tunnels /\ (x # Command => on[x] = x)
        /\ \A y \in Threads :
             pc'[y] = IF y = on[x] THEN "watch" ELSE IF y = x THEN "idle" ELSE pc[y]
    BY <2>1, FrameReturnsEffect DEF Inv
  <2>4. \A y \in Threads : ~Starting(y)'
    <3> SUFFICES ASSUME NEW y \in Threads, Starting(y)'  PROVE FALSE
      OBVIOUS
    <3>1. pc'[y] = pc[y] /\ y # x /\ y # on[x]
      BY <2>3 DEF Starting, StartPCs, CallbackPCs, SyncPCs
    <3>2. Starting(y)
      BY <2>3, <3>1, Ids DEF Starting, InUp
    <3> QED
      BY <2>1, <3>1, <3>2, Ids DEF Inv, LockInv
  <2>5. /\ url[on[x]] # NoURL
        /\ on[x] \in crossed \/ seen'[on[x]] = address[on[x]]
    <3>1. url[on[x]] # NoURL
      BY <2>1 DEF Inv, UrlInv, CallbackPCs, SyncPCs
    <3> QED
      BY <1>0, <2>1, <2>3, <3>1
  <2>6. SeenInv'
    <3> SUFFICES ASSUME callback, NEW t \in healthy \ crossed, pc'[t] = "watch"
                 PROVE  \/ t \in todo
                        \/ cmd' = "up" /\ pc'[Command] = "read" /\ on[Command] = t
                        \/ seen'[t] = address[t]
      BY <1>0, <2>4 DEF SeenInv
    <3>1. t \in Tunnels
      BY DEF Inv, TypeOK
    <3>2. CASE t = on[x]
      BY <2>5, <3>2
    <3>3. CASE t # on[x]
      <4>1. pc[t] = "watch"
        BY <2>3, <3>1, <3>3, Ids
      <4>2. \/ t \in todo
            \/ cmd = "up" /\ pc[Command] = "read" /\ on[Command] = t
            \/ seen[t] = address[t]
        BY <4>1 DEF Inv, SeenInv
      <4>3. cmd = "up" => x # Command
        BY <1>2 DEF InUp
      <4>4. url[t] = address[t]
        BY <1>0, <3>1, <4>1 DEF Inv, UrlInv
      <4> QED
        BY <2>3, <3>1, <4>2, <4>3, <4>4, Ids
    <3> QED
      BY <3>2, <3>3
  <2>7. FreshInv' /\ UrlInv'
    <3>1. \A t \in healthy : pc'[t] = "watch" => url[t] # NoURL
      BY <2>3, <2>5, Ids DEF Inv, TypeOK, UrlInv
    <3> QED
      BY <1>0, <2>4, <3>1 DEF Inv, FreshInv, UrlInv
  <2>8. ASSUME NEW y \in Threads, y # x, pc[y] \in SyncPCs  PROVE pc'[y] = pc[y]
    <3>1. cmd = "up" \/ x # Command
      BY <2>1, <2>8, Ids DEF Inv, LockInv, Starting, InUp, StartPCs, CallbackPCs
    <3> QED
      BY <1>2, <2>3, <2>8, <3>1 DEF InUp
  <2> QED
    BY <1>3, <2>2, <2>3, <2>6, <2>7, <2>8 DEF Inv, TypeOK, SyncPCs
<1> QED
  BY <1>1, <1>2, <1>3

-----------------------------------------------------------------------------
(* Runtime.Up.                                                             *)

(* Up reads the URLs before there is a callback.                           *)
LEMMA UpCollectsStep ==
  ASSUME Inv, UpCollects
  PROVE  Inv'
<1>1. TypeOK'
  BY Ids DEF Inv, TypeOK, PCs, UpCollects, mgrVars, urlVars, syncVars, localVars
<1>2. CommandInv'
  BY Ids DEF Inv, CommandInv, StartPCs, CallbackPCs, SyncPCs, UpCollects
<1>3. SeenInv'
  <2>1. phase = "new" /\ ~callback
    BY DEF Inv, CommandInv, CallbackInv, UpCollects
  <2> QED
    BY <2>1 DEF SeenInv, UpCollects, mgrVars
<1>4. SyncInv'
  BY Ids DEF Inv, SyncInv, SyncPCs, UpCollects, syncVars, localVars
<1>5. LockInv' /\ MonitorInv' /\ CallbackInv' /\ UrlInv' /\ FreshInv'
      /\ DivergenceIsReported'
  BY DEF Inv, LockInv, Starting, InUp, StartPCs, CallbackPCs, SyncPCs, MonitorInv,
     CallbackInv, UrlInv, FreshInv, DivergenceIsReported, Persisting, UpCollects, mgrVars,
     urlVars, syncVars, localVars
<1> QED
  BY <1>1, <1>2, <1>3, <1>4, <1>5 DEF Inv

(* Up saves what it has collected; a save that fails may have happened.    *)
LEMMA UpSavesStep ==
  ASSUME Inv, UpSaves
  PROVE  Inv'
<1> DEFINE new == [endpoints |-> published, stopped |-> FALSE]
<1>1. PICK p \in {"publish", "abandon"} :
        /\ pc[Command] = "collect" /\ pc' = [pc EXCEPT ![Command] = p]
        /\ disk' \in {disk, new} /\ (p = "publish" => disk' = new)
  BY DEF UpSaves, Goto, Save
<1>2. /\ todo = {}
      /\ UNCHANGED <<healthy, urlVars, callback, lifecycleMu, endpointSyncMu, endpoints,
                     endpointSyncErr, cmd, phase, issued, published, todo, prior, downErr,
                     on, attempts, current, copied, loaded, failed, seen>>
  BY DEF UpSaves, mgrVars, urlVars, syncVars, cmdVars, localVars
<1>3. pc' \in [Threads -> PCs] /\ \A y \in Threads : pc'[y] = IF y = Command THEN p ELSE pc[y]
  BY <1>1, Ids DEF Inv, TypeOK, PCs
<1>4. new \in [endpoints : [Tunnels -> URLs], stopped : BOOLEAN] /\ new.endpoints = published
  BY DEF Inv, TypeOK
<1>5. disk' \in [endpoints : [Tunnels -> URLs], stopped : BOOLEAN]
  BY <1>1, <1>4 DEF Inv, TypeOK
<1>6. TypeOK'
  BY <1>2, <1>3, <1>5 DEF urlVars, Inv, TypeOK
<1>7. phase = "new" /\ cmd = "up"
  BY <1>1 DEF Inv, TypeOK, CommandInv, StartPCs, CallbackPCs, SyncPCs
<1>8. \A y \in Threads : Starting(y)' <=> Starting(y)
  BY <1>1, <1>2, <1>3 DEF Starting, InUp, StartPCs, CallbackPCs, SyncPCs
<1>9. LockInv'
  BY <1>2, <1>3, <1>8 DEF Inv, LockInv, SyncPCs
<1>10. MonitorInv'
  BY <1>1, <1>2, <1>3, <1>7, Ids DEF Inv, MonitorInv
<1>11. CommandInv'
  BY <1>2, <1>3, <1>7, Ids DEF Inv, CommandInv
<1>12. CallbackInv'
  BY <1>1, <1>2, <1>3, <1>7, Ids DEF Inv, CallbackInv, CallbackPCs, SyncPCs
<1>13. SeenInv'
  BY <1>2, <1>7, <1>12 DEF CallbackInv, SeenInv
<1>14. FreshInv'
  BY <1>2, <1>3, <1>8 DEF urlVars, Inv, FreshInv, SyncPCs
<1>15. SyncInv'
  BY <1>1, <1>2, <1>3, <1>4, <1>7, Ids DEF Inv, SyncInv
<1>16. DivergenceIsReported'
  BY <1>2, <1>7 DEF DivergenceIsReported
<1>17. UrlInv'
  BY <1>2, <1>3, <1>8, Ids DEF Inv, TypeOK, UrlInv, Starting, InUp, StartPCs, CallbackPCs,
     SyncPCs, urlVars
<1> QED
  BY <1>6, <1>9, <1>10, <1>11, <1>12, <1>13, <1>14, <1>15, <1>16, <1>17 DEF Inv

(* When Up cannot save, nothing of the composition is left.                *)
LEMMA UpAbandonsStep ==
  ASSUME Inv, UpAbandons
  PROVE  Inv'
<1>1. TypeOK'
  BY Ids DEF Inv, urlVars, TypeOK, PCs, UpAbandons, StopAll, syncVars, localVars
<1>2. LockInv'
  BY Ids DEF Inv, urlVars, LockInv, Starting, InUp, StartPCs, CallbackPCs, SyncPCs, UpAbandons,
     StopAll
<1>3. MonitorInv'
  BY Ids DEF Inv, urlVars, MonitorInv, StartPCs, CallbackPCs, SyncPCs, UpAbandons, StopAll
<1>4. CommandInv'
  BY Ids DEF Inv, urlVars, CommandInv, StartPCs, CallbackPCs, SyncPCs, UpAbandons, StopAll
<1>5. CallbackInv'
  BY Ids DEF Inv, urlVars, TypeOK, PCs, CommandInv, StartPCs, CallbackPCs, SyncPCs,
             CallbackInv, UpAbandons, StopAll
<1>6. SeenInv'
  BY Ids DEF Inv, urlVars, SeenInv, Starting, InUp, StartPCs, CallbackPCs, SyncPCs, UpAbandons,
     StopAll
<1>7. FreshInv'
  BY Ids DEF Inv, urlVars, FreshInv, Starting, InUp, StartPCs, CallbackPCs, SyncPCs,
             UpAbandons, StopAll, syncVars, localVars
<1>8. SyncInv'
  BY Ids DEF Inv, urlVars, SyncInv, SyncPCs, UpAbandons, StopAll, syncVars, localVars
<1>9. DivergenceIsReported'
  BY Ids DEF Inv, urlVars, DivergenceIsReported, Persisting, UpAbandons, StopAll, syncVars
<1>10. UrlInv'
  BY Ids DEF Inv, TypeOK, PCs, UrlInv, MonitorInv, CommandInv, Starting, InUp, StartPCs,
     CallbackPCs, SyncPCs, UpAbandons, Goto, StopAll, Save, mgrVars, urlVars, cmdVars
<1> QED
  BY <1>1, <1>2, <1>3, <1>4, <1>5, <1>6, <1>7, <1>8, <1>9, <1>10 DEF Inv

(* From here on the map and state.json have to agree: they do.             *)
LEMMA UpPublishesStep ==
  ASSUME Inv, UpPublishes
  PROVE  Inv'
<1>1. TypeOK'
  BY Ids DEF Inv, TypeOK, PCs, UpPublishes, Goto, mgrVars, urlVars, localVars
<1>2. LockInv'
  BY Ids DEF Inv, LockInv, Starting, InUp, StartPCs, CallbackPCs, SyncPCs, UpPublishes,
     Goto
<1>3. MonitorInv'
  BY Ids DEF Inv, MonitorInv, StartPCs, CallbackPCs, SyncPCs, UpPublishes, Goto
<1>4. CommandInv'
  BY Ids DEF Inv, TypeOK, PCs, CommandInv, StartPCs, CallbackPCs, SyncPCs, UpPublishes,
     Goto
<1>5. CallbackInv'
  BY Ids DEF Inv, TypeOK, PCs, CommandInv, StartPCs, CallbackPCs, SyncPCs, CallbackInv,
         UpPublishes, Goto, mgrVars, urlVars
<1>6. SeenInv'
  BY Ids DEF Inv, SeenInv, Starting, InUp, StartPCs, CallbackPCs, SyncPCs, UpPublishes,
     Goto, mgrVars, urlVars
<1>7. FreshInv'
  BY Ids DEF Inv, TypeOK, PCs, CommandInv, StartPCs, CallbackPCs, SyncPCs, CallbackInv,
         FreshInv, Starting, InUp, UpPublishes, Goto, mgrVars, urlVars, localVars
<1>8. SyncInv'
  BY Ids DEF Inv, TypeOK, PCs, CommandInv, StartPCs, CallbackPCs, SyncPCs, CallbackInv,
         SyncInv, UpPublishes, Goto, localVars
<1>9. DivergenceIsReported'
  BY Ids DEF Inv, TypeOK, PCs, CommandInv, StartPCs, CallbackPCs, SyncPCs, SyncInv,
         DivergenceIsReported, Persisting, UpPublishes, Goto
<1>10. UrlInv'
  BY Ids DEF Inv, TypeOK, PCs, UrlInv, MonitorInv, CommandInv, Starting, InUp, StartPCs,
     CallbackPCs, SyncPCs, UpPublishes, Goto, StopAll, Save, mgrVars, urlVars, cmdVars
<1> QED
  BY <1>1, <1>2, <1>3, <1>4, <1>5, <1>6, <1>7, <1>8, <1>9, <1>10 DEF Inv

(* Every Healthy tunnel is one Up will call back for.                      *)
LEMMA UpInstallsCallbackStep ==
  ASSUME Inv, UpInstallsCallback
  PROVE  Inv'
<1>1. TypeOK'
  BY Ids DEF Inv, urlVars, TypeOK, PCs, UpInstallsCallback, Goto, syncVars, localVars
<1>2. LockInv'
  BY Ids DEF Inv, urlVars, LockInv, Starting, InUp, StartPCs, CallbackPCs, SyncPCs,
     UpInstallsCallback, Goto
<1>3. MonitorInv'
  BY Ids DEF Inv, urlVars, MonitorInv, StartPCs, CallbackPCs, SyncPCs, UpInstallsCallback, Goto
<1>4. CommandInv'
  BY Ids DEF Inv, urlVars, TypeOK, PCs, CommandInv, StartPCs, CallbackPCs, SyncPCs,
     UpInstallsCallback, Goto
<1>5. CallbackInv'
  BY Ids DEF Inv, urlVars, TypeOK, PCs, CommandInv, StartPCs, CallbackPCs, SyncPCs,
             CallbackInv, UpInstallsCallback, Goto
<1>6. SeenInv'
  BY Ids DEF Inv, urlVars, TypeOK, PCs, CommandInv, StartPCs, CallbackPCs, SyncPCs,
             CallbackInv, SeenInv, Starting, InUp, UpInstallsCallback, Goto
<1>7. FreshInv'
  BY Ids DEF Inv, urlVars, FreshInv, Starting, InUp, StartPCs, CallbackPCs, SyncPCs,
     UpInstallsCallback, Goto, syncVars, localVars
<1>8. SyncInv'
  BY Ids DEF Inv, urlVars, SyncInv, SyncPCs, UpInstallsCallback, Goto, syncVars, localVars
<1>9. DivergenceIsReported'
  BY Ids DEF Inv, urlVars, DivergenceIsReported, Persisting, UpInstallsCallback, Goto, syncVars
<1>10. UrlInv'
  BY Ids DEF Inv, TypeOK, PCs, UrlInv, MonitorInv, CommandInv, Starting, InUp, StartPCs,
     CallbackPCs, SyncPCs, UpInstallsCallback, Goto, StopAll, Save, mgrVars, urlVars, cmdVars
<1> QED
  BY <1>1, <1>2, <1>3, <1>4, <1>5, <1>6, <1>7, <1>8, <1>9, <1>10 DEF Inv

(* Up turns to the next tunnel.                                            *)
LEMMA UpCallsBackStep ==
  ASSUME Inv, UpCallsBack
  PROVE  Inv'
<1>1. TypeOK'
  BY Ids DEF Inv, TypeOK, PCs, UpCallsBack, Goto, mgrVars, urlVars, syncVars, localVars
<1>2. LockInv'
  BY Ids DEF Inv, TypeOK, PCs, CommandInv, StartPCs, CallbackPCs, SyncPCs, LockInv,
     Starting, InUp, UpCallsBack, Goto
<1>3. MonitorInv'
  BY Ids DEF Inv, TypeOK, PCs, CommandInv, StartPCs, CallbackPCs, SyncPCs, MonitorInv,
         UpCallsBack, Goto
<1>4. CommandInv'
  BY Ids DEF Inv, CommandInv, StartPCs, CallbackPCs, SyncPCs, UpCallsBack, Goto
<1>5. CallbackInv'
  BY Ids DEF Inv, TypeOK, PCs, CommandInv, StartPCs, CallbackPCs, SyncPCs, CallbackInv,
         UpCallsBack, Goto, mgrVars, urlVars
<1>6. SeenInv'
  BY Ids DEF Inv, TypeOK, PCs, CommandInv, StartPCs, CallbackPCs, SyncPCs, SeenInv,
     Starting, InUp, UpCallsBack, Goto, mgrVars, urlVars
<1>7. FreshInv'
  BY Ids DEF Inv, TypeOK, PCs, CommandInv, StartPCs, CallbackPCs, SyncPCs, FreshInv,
     Starting, InUp, UpCallsBack, Goto, mgrVars, urlVars, syncVars, localVars
<1>8. SyncInv'
  BY Ids DEF Inv, SyncInv, SyncPCs, UpCallsBack, Goto, syncVars, localVars
<1>9. DivergenceIsReported'
  BY Ids DEF Inv, DivergenceIsReported, Persisting, UpCallsBack, Goto, syncVars
<1>10. UrlInv'
  BY Ids DEF Inv, TypeOK, PCs, UrlInv, MonitorInv, CommandInv, Starting, InUp, StartPCs,
     CallbackPCs, SyncPCs, UpCallsBack, Goto, StopAll, Save, mgrVars, urlVars, cmdVars
<1> QED
  BY <1>1, <1>2, <1>3, <1>4, <1>5, <1>6, <1>7, <1>8, <1>9, <1>10 DEF Inv

(* Up has called back for all of them.                                     *)
LEMMA UpReturnsStep ==
  ASSUME Inv, UpReturns
  PROVE  Inv'
<1>1. TypeOK'
  BY Ids DEF Inv, TypeOK, PCs, UpReturns, Goto, mgrVars, urlVars, syncVars, localVars
<1>2. LockInv'
  BY Ids DEF Inv, LockInv, Starting, InUp, StartPCs, CallbackPCs, SyncPCs, UpReturns, Goto
<1>3. MonitorInv'
  BY Ids DEF Inv, MonitorInv, StartPCs, CallbackPCs, SyncPCs, UpReturns, Goto
<1>4. CommandInv'
  BY Ids DEF Inv, TypeOK, PCs, CommandInv, StartPCs, CallbackPCs, SyncPCs, UpReturns, Goto
<1>5. CallbackInv'
  BY Ids DEF Inv, CallbackInv, CallbackPCs, SyncPCs, UpReturns, Goto, mgrVars, urlVars
<1>6. SeenInv'
  BY Ids DEF Inv, SeenInv, Starting, InUp, StartPCs, CallbackPCs, SyncPCs, UpReturns,
     Goto, mgrVars, urlVars
<1>7. FreshInv'
  BY Ids DEF Inv, FreshInv, Starting, InUp, StartPCs, CallbackPCs, SyncPCs, UpReturns,
     Goto, mgrVars, urlVars, syncVars, localVars
<1>8. SyncInv'
  BY Ids DEF Inv, SyncInv, SyncPCs, UpReturns, Goto, syncVars, localVars
<1>9. DivergenceIsReported'
  BY Ids DEF Inv, DivergenceIsReported, Persisting, UpReturns, Goto, syncVars
<1>10. UrlInv'
  BY Ids DEF Inv, TypeOK, PCs, UrlInv, MonitorInv, CommandInv, Starting, InUp, StartPCs,
     CallbackPCs, SyncPCs, UpReturns, Goto, StopAll, Save, mgrVars, urlVars, cmdVars
<1> QED
  BY <1>1, <1>2, <1>3, <1>4, <1>5, <1>6, <1>7, <1>8, <1>9, <1>10 DEF Inv

-----------------------------------------------------------------------------
(* handleHealthyService.                                                   *)

(* The URL read is the tunnel's; without one the callback returns.         *)
LEMMA ReadURLStep ==
  ASSUME Inv, NEW x \in Threads, ReadURL(x)
  PROVE  Inv'
<1>1. /\ pc[x] = "read" /\ on[x] \in Tunnels
      /\ seen' = [seen EXCEPT ![on[x]] = url[on[x]]]
      /\ UNCHANGED <<healthy, urlVars, callback, endpointSyncMu, endpoints,
                     endpointSyncErr, disk, phase, issued, published, todo, prior,
                     downErr, on>>
  BY DEF ReadURL, mgrVars, urlVars, syncVars, Inv, TypeOK
<1>2. /\ \A t \in Tunnels : seen'[t] = seen[t] \/ seen'[t] = url[t]
      /\ seen'[on[x]] = url[on[x]]
      /\ seen' \in [Tunnels -> URLs]
  BY <1>1 DEF Inv, TypeOK
<1>3. CASE CallbackReturns(x)
  <2>1. /\ LockInv' /\ MonitorInv' /\ CommandInv' /\ CallbackInv' /\ UrlInv'
        /\ SeenInv' /\ FreshInv'
        /\ pc' \in [Threads -> PCs] /\ attempts' \in [Tunnels -> Nat]
        /\ lifecycleMu' \in Threads \cup {NoThread}
        /\ cmd' \in {"none", "up", "restart", "down"}
        /\ \A y \in Threads : pc'[y] \in SyncPCs => y # x /\ pc'[y] = pc[y]
        /\ \A y \in Threads : y # x /\ pc[y] \in SyncPCs => pc'[y] = pc[y]
        /\ \A y \in Threads : y # x => copied'[y] = copied[y] /\ failed'[y] = failed[y]
        /\ current' \in [Threads -> URLs] /\ copied' \in [Threads -> [Tunnels -> URLs]]
        /\ loaded' \in [Threads -> BOOLEAN] /\ failed' \in [Threads -> BOOLEAN]
    BY <1>1, <1>2, <1>3, CallbackReturnsKeeps DEF CallbackPCs, urlVars
  <2>2. TypeOK'
    BY <1>1, <1>2, <2>1 DEF urlVars, Inv, TypeOK
  <2>3. SyncInv'
    <3>1. pc'[Command] # "publish"
      BY <1>1, <2>1, Ids DEF Inv, CommandInv, CallbackInv, CallbackPCs
    <3>2. ASSUME NEW y \in Threads, pc'[y] \in SyncPCs
          PROVE  pc'[y] = pc[y] /\ copied'[y] = copied[y] /\ failed'[y] = failed[y]
      BY <1>1, <2>1, <3>2
    <3> QED
      BY <1>1, <3>1, <3>2 DEF Inv, SyncInv, SyncPCs
  <2>4. DivergenceIsReported'
    BY <1>1, <2>1 DEF Inv, DivergenceIsReported, Persisting, SyncPCs
  <2> QED
    BY <2>1, <2>2, <2>3, <2>4 DEF Inv
<1>4. CASE /\ Goto(x, "read", "sync") /\ current' = [current EXCEPT ![x] = url[on[x]]]
           /\ UNCHANGED <<lifecycleMu, cmd, attempts, copied, loaded, failed>>
  <2>0. /\ \A y \in Threads : y # x => current'[y] = current[y]
        /\ current'[x] = url[on[x]] /\ current' \in [Threads -> URLs]
    BY <1>1, <1>4 DEF Inv, TypeOK
  <2>1. TypeOK'
    BY <1>1, <1>2, <1>4, <2>0, Ids DEF urlVars, Inv, TypeOK, PCs, Goto
  <2>2. LockInv'
    BY <1>1, <1>2, <1>4, Ids DEF Inv, TypeOK, PCs, LockInv, Starting, InUp, StartPCs,
       CallbackPCs, SyncPCs, MonitorInv, CommandInv, CallbackInv, Goto
  <2>3. MonitorInv'
    BY <1>1, <1>2, <1>4, Ids DEF Inv, TypeOK, PCs, LockInv, Starting, InUp, StartPCs,
       CallbackPCs, SyncPCs, MonitorInv, CommandInv, CallbackInv, Goto
  <2>4. CommandInv'
    BY <1>1, <1>2, <1>4, Ids DEF Inv, TypeOK, PCs, LockInv, Starting, InUp, StartPCs,
       CallbackPCs, SyncPCs, MonitorInv, CommandInv, CallbackInv, Goto
  <2>5. CallbackInv'
    BY <1>1, <1>2, <1>4, Ids DEF Inv, TypeOK, PCs, LockInv, Starting, InUp, StartPCs,
       CallbackPCs, SyncPCs, MonitorInv, CommandInv, CallbackInv, Goto
  <2>6. SeenInv'
    <3>1. ASSUME NEW t \in Tunnels \ crossed,
                 \/ pc[t] = "watch" /\ t \in healthy
                 \/ \E y \in Threads :
                      Starting(y) /\ pc[y] \notin {"prepare", "probe"} /\ on[y] = t
          PROVE  url[t] = address[t]
      BY <3>1 DEF Inv, UrlInv
    <3>2. \A y \in Threads : pc'[y] = IF y = x THEN "sync" ELSE pc[y]
      BY <1>4 DEF Goto, Inv, TypeOK
    <3>3. \A y \in Threads : Starting(y)' <=> Starting(y)
      BY <1>1, <1>4, <3>2 DEF Starting, InUp, StartPCs, CallbackPCs
    <3>4. ASSUME callback, NEW t \in healthy \ crossed, pc'[t] = "watch"
          PROVE  \/ t \in todo
                 \/ cmd = "up" /\ pc'[Command] = "read" /\ on[Command] = t
                 \/ seen'[t] = address[t]
      <4>1. t \in Tunnels /\ pc[t] = "watch"
        BY <3>2, <3>4, Ids DEF Inv, TypeOK
      <4>2. url[t] = address[t]
        BY <3>1, <3>4, <4>1
      <4>3. \/ t \in todo
            \/ cmd = "up" /\ pc[Command] = "read" /\ on[Command] = t
            \/ seen[t] = address[t]
        BY <3>4, <4>1 DEF Inv, SeenInv
      <4> QED
        BY <1>2, <3>2, <4>1, <4>2, <4>3, Ids
    <3>5. ASSUME callback, NEW y \in Threads, Starting(y), pc'[y] \in {"sync"} \cup SyncPCs,
                 on[y] \notin crossed
          PROVE  seen'[on[y]] = address[on[y]]
      <4>1. on[y] \in Tunnels /\ (y # x => pc'[y] = pc[y])
        BY <3>2 DEF Inv, TypeOK
      <4>2. url[on[y]] = address[on[y]]
        BY <1>1, <3>1, <3>2, <3>5, <4>1 DEF SyncPCs
      <4>3. y # x => seen[on[y]] = address[on[y]]
        BY <3>5, <4>1 DEF Inv, SeenInv
      <4> QED
        BY <1>2, <4>1, <4>2, <4>3
    <3> QED
      BY <1>1, <1>4, <3>3, <3>4, <3>5 DEF SeenInv, urlVars
  <2>7. FreshInv' /\ UrlInv'
    <3>1. \A y \in Threads : pc'[y] = IF y = x THEN "sync" ELSE pc[y]
      BY <1>4 DEF Goto, Inv, TypeOK
    <3>2. \A y \in Threads : Starting(y)' <=> Starting(y)
      BY <1>1, <1>4, <3>1 DEF Starting, InUp, StartPCs, CallbackPCs
    <3>3. UrlInv'
      BY <1>1, <3>1, <3>2, Ids DEF Inv, TypeOK, UrlInv, urlVars
    <3>5. Starting(x) /\ on[x] \notin crossed => url[on[x]] = address[on[x]]
      BY <1>1 DEF Inv, UrlInv
    <3> QED
      BY <1>1, <1>2, <2>0, <3>1, <3>2, <3>3, <3>5 DEF Inv, FreshInv, SyncPCs, urlVars
  <2>8. SyncInv'
    BY <1>1, <1>2, <1>4, Ids DEF Inv, TypeOK, PCs, LockInv, Starting, InUp, StartPCs,
       CallbackPCs, SyncPCs, MonitorInv, CommandInv, CallbackInv, SyncInv, Goto
  <2>9. DivergenceIsReported'
    BY <1>1, <1>2, <1>4, Ids DEF Inv, TypeOK, PCs, LockInv, Starting, InUp, StartPCs,
       CallbackPCs, SyncPCs, MonitorInv, CommandInv, CallbackInv, DivergenceIsReported,
       Persisting, SyncInv, Goto
  <2> QED
    BY <2>1, <2>2, <2>3, <2>4, <2>5, <2>6, <2>7, <2>8, <2>9 DEF Inv
<1> QED
  BY <1>3, <1>4 DEF ReadURL

(* Only the holder of endpointSyncMu has a copy of the map, and it takes   *)
(* that copy as it writes the map.                                         *)
LEMMA RefreshEndpointStep ==
  ASSUME Inv, NEW x \in Threads, RefreshEndpoint(x)
  PROVE  Inv'
<1>1. /\ pc[x] = "sync" /\ on[x] \in Tunnels /\ current[x] \in URLs
      /\ endpointSyncMu = NoThread
      /\ endpoints' = [endpoints EXCEPT ![on[x]] = current[x]]
      /\ UNCHANGED <<healthy, urlVars, callback, endpointSyncErr, disk, phase, issued,
                     published, todo, prior, downErr, on, seen>>
  BY DEF RefreshEndpoint, mgrVars, urlVars, Inv, TypeOK
<1>2. endpoints' \in [Tunnels -> URLs]
  BY <1>1 DEF Inv, TypeOK
<1>3. \A y \in Threads : pc[y] \notin SyncPCs
  BY <1>1, Ids DEF Inv, LockInv
<1>4. callback /\ phase \notin {"new", "abandoned"} /\ 
      /\ (Starting(x) /\ on[x] \notin crossed =>
            seen[on[x]] = address[on[x]] /\ current[x] = address[on[x]])
  BY <1>1 DEF Inv, CallbackInv, SeenInv, FreshInv, CallbackPCs
<1>5. CASE endpoints' = endpoints /\ ~endpointSyncErr /\ CallbackReturns(x)
              /\ UNCHANGED endpointSyncMu
  <2>1. /\ LockInv' /\ MonitorInv' /\ CommandInv' /\ CallbackInv' /\ UrlInv'
        /\ SeenInv' /\ FreshInv'
        /\ pc' \in [Threads -> PCs] /\ attempts' \in [Tunnels -> Nat]
        /\ lifecycleMu' \in Threads \cup {NoThread}
        /\ cmd' \in {"none", "up", "restart", "down"}
        /\ \A y \in Threads : pc'[y] \in SyncPCs => y # x /\ pc'[y] = pc[y]
        /\ current' \in [Threads -> URLs] /\ copied' \in [Threads -> [Tunnels -> URLs]]
        /\ loaded' \in [Threads -> BOOLEAN] /\ failed' \in [Threads -> BOOLEAN]
    BY <1>1, <1>4, <1>5, CallbackReturnsKeeps DEF CallbackPCs, urlVars
  <2>2. TypeOK'
    BY <1>1, <1>2, <1>5, <2>1 DEF urlVars, Inv, TypeOK
  <2>3. \A y \in Threads : pc'[y] \notin SyncPCs
    BY <1>3, <2>1
  <2>4. SyncInv'
    BY <1>1, <1>4, <2>1, <2>3, Ids DEF SyncInv, SyncPCs, CommandInv
  <2>5. DivergenceIsReported'
    BY <1>1, <1>3, <1>5 DEF Inv, DivergenceIsReported, Persisting, SyncPCs
  <2> QED
    BY <2>1, <2>2, <2>4, <2>5 DEF Inv
<1>6. CASE /\ endpointSyncMu' = x /\ Goto(x, "sync", "load")
           /\ copied' = [copied EXCEPT ![x] = endpoints']
           /\ UNCHANGED <<lifecycleMu, cmd, attempts, current, loaded, failed>>
  <2>0. copied' \in [Threads -> [Tunnels -> URLs]] /\ copied'[x] = endpoints'
    BY <1>2, <1>6 DEF Inv, TypeOK
  <2>1. pc' \in [Threads -> PCs] /\ \A y \in Threads : pc'[y] = IF y = x THEN "load" ELSE pc[y]
    BY <1>6 DEF Goto, Inv, TypeOK, PCs
  <2>2. TypeOK'
    BY <1>1, <1>2, <1>6, <2>0, <2>1 DEF urlVars, Inv, TypeOK
  <2>3. \A y \in Threads : Starting(y)' <=> Starting(y)
    BY <1>1, <1>6, <2>1 DEF Starting, InUp, StartPCs, CallbackPCs, SyncPCs
  <2>4. LockInv'
    BY <1>3, <1>6, <2>1, <2>3 DEF Inv, LockInv
  <2>5. MonitorInv'
    <3>1. on[Command] \in Tunnels
      BY Ids DEF Inv, TypeOK
    <3>2. \A t \in Tunnels : on[t] = t /\ pc'[t] \in {"watch", "loop", "gone"} \cup StartPCs
      BY <2>1, Ids DEF Inv, MonitorInv, StartPCs, CallbackPCs, SyncPCs
    <3>3. cmd = "restart" /\ pc'[Command] # "lock" => pc'[on[Command]] = "gone"
      BY <1>1, <2>1, <3>1, Ids DEF Inv, MonitorInv
    <3>4. pc'[Command] = "stopped" \/ phase = "down" => \A t \in Tunnels : pc'[t] = "gone"
      BY <1>1, <2>1, Ids DEF Inv, MonitorInv
    <3> QED
      BY <1>1, <1>6, <3>2, <3>3, <3>4 DEF MonitorInv
  <2>6. CommandInv'
    BY <1>1, <1>6, <2>1, Ids DEF Inv, CommandInv, StartPCs, CallbackPCs, SyncPCs
  <2>7. CallbackInv'
    BY <1>1, <1>4, <1>6, <2>1, Ids DEF Inv, CallbackInv
  <2>8. SeenInv'
    <3>1. ASSUME NEW t \in healthy \ crossed, pc'[t] = "watch"
          PROVE  \/ t \in todo
                 \/ cmd = "up" /\ pc'[Command] = "read" /\ on[Command] = t
                 \/ seen[t] = address[t]
      <4>1. t \in Tunnels /\ pc[t] = "watch"
        BY <2>1, <3>1, Ids DEF Inv, TypeOK
      <4> QED
        BY <1>1, <1>4, <2>1, <4>1, Ids DEF Inv, SeenInv
    <3>2. ASSUME NEW y \in Threads, Starting(y)', pc'[y] \in {"sync"} \cup SyncPCs,
                 on[y] \notin crossed
          PROVE  seen[on[y]] = address[on[y]]
      BY <1>1, <1>4, <2>1, <2>3, <3>2 DEF Inv, SeenInv
    <3> QED
      BY <1>1, <1>6, <3>1, <3>2 DEF SeenInv, urlVars
  <2>9. FreshInv'
    <3>1. ASSUME NEW y \in Threads, Starting(y), on[y] \notin crossed
          PROVE  /\ pc'[y] = "sync" => current[y] = address[on[y]]
                 /\ pc'[y] \in SyncPCs => endpoints'[on[y]] = address[on[y]]
      <4>1. CASE y = x
        BY <1>1, <1>4, <2>1, <3>1, <4>1 DEF Inv, TypeOK, SyncPCs
      <4>2. CASE y # x
        BY <1>3, <2>1, <3>1, <4>2 DEF Inv, FreshInv
      <4> QED
        BY <4>1, <4>2
    <3> QED
      BY <1>1, <1>6, <2>3, <3>1 DEF FreshInv, urlVars
  <2>10. SyncInv'
    BY <1>1, <1>3, <1>4, <2>0, <2>1, <2>6, Ids DEF SyncInv, SyncPCs, CommandInv
  <2>11. DivergenceIsReported'
    BY <2>1 DEF DivergenceIsReported, Persisting
  <2>12. UrlInv'
    BY <1>1, <2>1, <2>3, Ids DEF Inv, TypeOK, UrlInv, urlVars
  <2> QED
    BY <2>2, <2>4, <2>5, <2>6, <2>7, <2>8, <2>9, <2>10, <2>11, <2>12 DEF Inv
<1> QED
  BY <1>5, <1>6 DEF RefreshEndpoint

(* The state is loaded, or the callback gives up.                          *)
LEMMA LoadStateStep ==
  ASSUME Inv, NEW x \in Threads, LoadState(x)
  PROVE  Inv'
<1>1. PICK p \in {"save", "record"} :
        /\ pc[x] = "load" /\ pc' = [pc EXCEPT ![x] = p]
        /\ failed' = [failed EXCEPT ![x] = (p = "record")]
  BY DEF LoadState, Goto
<1>2. /\ loaded' = [loaded EXCEPT ![x] = disk.stopped]
      /\ UNCHANGED <<healthy, urlVars, callback, lifecycleMu, endpointSyncMu, endpoints,
                     endpointSyncErr, disk, cmd, phase, issued, published, todo, prior,
                     downErr, on, attempts, current, copied, seen>>
  BY DEF LoadState, mgrVars, urlVars, syncVars, cmdVars
<1>3. pc' \in [Threads -> PCs] /\ \A y \in Threads : pc'[y] = IF y = x THEN p ELSE pc[y]
  BY <1>1 DEF Inv, TypeOK, PCs
<1>4. /\ failed' \in [Threads -> BOOLEAN]
      /\ \A y \in Threads : y # x => failed'[y] = failed[y]
      /\ p = "record" => failed'[x]
  BY <1>1 DEF Inv, TypeOK
<1>5. loaded' \in [Threads -> BOOLEAN]
  BY <1>2 DEF Inv, TypeOK
<1>6. TypeOK'
  BY <1>2, <1>3, <1>4, <1>5 DEF urlVars, Inv, TypeOK
<1>7. \A y \in Threads :
        /\ Starting(y)' <=> Starting(y)
        /\ pc'[y] \in SyncPCs <=> pc[y] \in SyncPCs
  BY <1>1, <1>2, <1>3 DEF Starting, InUp, StartPCs, CallbackPCs, SyncPCs
<1>8. LockInv' /\ CommandInv' /\ CallbackInv'
  <2>1. LockInv'
    BY <1>2, <1>7 DEF Inv, LockInv
  <2>2. CommandInv'
    BY <1>1, <1>2, <1>3, Ids DEF Inv, CommandInv, StartPCs, CallbackPCs, SyncPCs
  <2>3. CallbackInv'
    BY <1>1, <1>2, <1>3, Ids DEF Inv, CallbackInv, CallbackPCs, SyncPCs
  <2> QED
    BY <2>1, <2>2, <2>3
<1>9. MonitorInv'
  <2>1. on[Command] \in Tunnels
    BY Ids DEF Inv, TypeOK
  <2>2. \A t \in Tunnels : on[t] = t /\ pc'[t] \in {"watch", "loop", "gone"} \cup StartPCs
    BY <1>1, <1>3, Ids DEF Inv, MonitorInv, StartPCs, CallbackPCs, SyncPCs
  <2>3. cmd = "restart" /\ pc'[Command] # "lock" => pc'[on[Command]] = "gone"
    BY <1>1, <1>3, <2>1, Ids DEF Inv, MonitorInv
  <2>4. pc'[Command] = "stopped" \/ phase = "down" => \A t \in Tunnels : pc'[t] = "gone"
    BY <1>1, <1>3, Ids DEF Inv, MonitorInv
  <2> QED
    BY <1>2, <2>2, <2>3, <2>4 DEF MonitorInv
<1>10. SeenInv'
  <2>1. ASSUME NEW t \in healthy, pc'[t] = "watch"  PROVE pc[t] = "watch"
    BY <1>1, <1>3, <2>1, Ids DEF Inv, TypeOK
  <2>2. pc[Command] = "read" => pc'[Command] = "read"
    BY <1>1, <1>3, Ids
  <2>3. ASSUME NEW y \in Threads, pc'[y] \in {"sync"} \cup SyncPCs
        PROVE  pc[y] \in {"sync"} \cup SyncPCs
    BY <1>1, <1>3, <1>7, <2>3 DEF SyncPCs
  <2> QED
    BY <1>2, <1>7, <2>1, <2>2, <2>3 DEF urlVars, Inv, SeenInv
<1>11. FreshInv'
  BY <1>1, <1>2, <1>3, <1>7 DEF Inv, FreshInv, urlVars
<1>12. SyncInv'
  <2>1. ASSUME NEW y \in Threads, pc'[y] \in {"load", "save"}  PROVE copied[y] = endpoints
    BY <1>1, <1>3, <2>1 DEF Inv, SyncInv
  <2>2. ASSUME phase = "up", NEW y \in Threads, pc'[y] = "record"
        PROVE  failed'[y] \/ disk.endpoints = endpoints
    BY <1>1, <1>3, <1>4, <2>2 DEF Inv, SyncInv
  <2>3. pc'[Command] = "publish" => pc[Command] = "publish"
    BY <1>1, <1>3, Ids
  <2> QED
    BY <1>2, <2>1, <2>2, <2>3 DEF Inv, SyncInv
<1>13. DivergenceIsReported'
  BY <1>1, <1>3 DEF DivergenceIsReported, Persisting
<1>14. UrlInv'
  BY <1>1, <1>2, <1>3, <1>7, Ids DEF Inv, TypeOK, UrlInv, urlVars
<1> QED
  BY <1>6, <1>8, <1>9, <1>10, <1>11, <1>12, <1>13, <1>14 DEF Inv

(* The copy is still the map when it is saved.                             *)
LEMMA SaveStateStep ==
  ASSUME Inv, NEW x \in Threads, SaveState(x)
  PROVE  Inv'
<1>1. TypeOK'
  BY Ids DEF Inv, TypeOK, PCs, SaveState, Goto, Save, mgrVars, urlVars, syncVars, cmdVars
<1>2. LockInv'
  BY Ids DEF Inv, LockInv, Starting, InUp, StartPCs, CallbackPCs, SyncPCs, SaveState,
     Goto, Save, cmdVars
<1>3. MonitorInv'
  BY Ids DEF Inv, MonitorInv, StartPCs, CallbackPCs, SyncPCs, SaveState, Goto, Save,
     cmdVars
<1>4. CommandInv'
  BY Ids DEF Inv, CommandInv, StartPCs, CallbackPCs, SyncPCs, SaveState, Goto, Save,
     cmdVars
<1>5. CallbackInv'
  BY Ids DEF Inv, CallbackInv, CallbackPCs, SyncPCs, SaveState, Goto, Save, mgrVars, urlVars,
     cmdVars
<1>6. SeenInv'
  BY Ids DEF Inv, SeenInv, Starting, InUp, StartPCs, CallbackPCs, SyncPCs, SaveState,
     Goto, Save, mgrVars, urlVars, cmdVars
<1>7. FreshInv'
  BY Ids DEF Inv, FreshInv, Starting, InUp, StartPCs, CallbackPCs, SyncPCs, SaveState,
     Goto, Save, mgrVars, urlVars, syncVars, cmdVars
<1>8. SyncInv'
  BY Ids DEF Inv, TypeOK, PCs, CommandInv, StartPCs, CallbackPCs, SyncPCs, CallbackInv,
         SyncInv, SaveState, Goto, Save, syncVars, cmdVars
<1>9. DivergenceIsReported'
  BY Ids DEF Inv, DivergenceIsReported, Persisting, SaveState, Goto, Save, syncVars,
     cmdVars
<1>10. UrlInv'
  BY Ids DEF Inv, TypeOK, PCs, UrlInv, MonitorInv, CommandInv, Starting, InUp, StartPCs,
     CallbackPCs, SyncPCs, SaveState, Goto, StopAll, Save, mgrVars, urlVars, cmdVars
<1> QED
  BY <1>1, <1>2, <1>3, <1>4, <1>5, <1>6, <1>7, <1>8, <1>9, <1>10 DEF Inv

(* What endpointSyncErr records is whether the map reached state.json.     *)
LEMMA RecordSyncErrStep ==
  ASSUME Inv, NEW x \in Threads, RecordSyncErr(x)
  PROVE  Inv'
<1>1. /\ pc[x] = "record" /\ on[x] \in Tunnels /\ failed[x] \in BOOLEAN
      /\ endpointSyncMu = x /\ endpointSyncMu' = NoThread
      /\ endpointSyncErr' = failed[x]
      /\ CallbackReturns(x)
      /\ UNCHANGED <<healthy, urlVars, callback, endpoints, disk, phase, issued,
                     published, todo, prior, downErr, on, seen>>
  BY DEF RecordSyncErr, mgrVars, urlVars, Inv, TypeOK, LockInv, SyncPCs
<1>2. callback /\ phase \notin {"new", "abandoned"} /\ 
      /\ (Starting(x) /\ on[x] \notin crossed => seen[on[x]] = address[on[x]])
  BY <1>1 DEF Inv, CallbackInv, SeenInv, CallbackPCs, SyncPCs
<1>3. /\ LockInv' /\ MonitorInv' /\ CommandInv' /\ CallbackInv' /\ UrlInv'
      /\ SeenInv' /\ FreshInv'
      /\ pc' \in [Threads -> PCs] /\ attempts' \in [Tunnels -> Nat]
      /\ lifecycleMu' \in Threads \cup {NoThread}
      /\ cmd' \in {"none", "up", "restart", "down"}
      /\ \A y \in Threads : pc'[y] \in SyncPCs => y # x /\ pc'[y] = pc[y]
      /\ current' \in [Threads -> URLs] /\ copied' \in [Threads -> [Tunnels -> URLs]]
      /\ loaded' \in [Threads -> BOOLEAN] /\ failed' \in [Threads -> BOOLEAN]
  BY <1>1, <1>2, CallbackReturnsKeeps DEF CallbackPCs, SyncPCs, urlVars
<1>4. TypeOK'
  BY <1>1, <1>3 DEF urlVars, Inv, TypeOK
<1>5. \A y \in Threads : pc'[y] \notin SyncPCs
  BY <1>1, <1>3 DEF Inv, LockInv
<1>6. SyncInv'
  BY <1>1, <1>2, <1>3, <1>5, Ids DEF SyncInv, SyncPCs, CommandInv
<1>7. DivergenceIsReported'
  BY <1>1 DEF Inv, SyncInv, DivergenceIsReported
<1> QED
  BY <1>3, <1>4, <1>6, <1>7 DEF Inv

-----------------------------------------------------------------------------
(* The monitors and startReadyMode.                                        *)

(* A tunnel that is lost has to be started again.                          *)
LEMMA TunnelLostStep ==
  ASSUME Inv, NEW t \in Tunnels, TunnelLost(t)
  PROVE  Inv'
<1>1. TypeOK'
  BY Ids DEF Inv, urlVars, TypeOK, PCs, TunnelLost, syncVars, cmdVars, localVars
<1>2. LockInv'
  BY Ids DEF Inv, urlVars, LockInv, Starting, InUp, StartPCs, CallbackPCs, SyncPCs, TunnelLost,
     cmdVars
<1>3. MonitorInv'
  BY Ids DEF Inv, urlVars, MonitorInv, StartPCs, CallbackPCs, SyncPCs, TunnelLost, cmdVars
<1>4. CommandInv'
  BY Ids DEF Inv, urlVars, CommandInv, StartPCs, CallbackPCs, SyncPCs, TunnelLost, cmdVars
<1>5. CallbackInv'
  BY Ids DEF Inv, urlVars, CallbackInv, CallbackPCs, SyncPCs, TunnelLost, cmdVars
<1>6. SeenInv'
  BY Ids DEF Inv, urlVars, SeenInv, Starting, InUp, StartPCs, CallbackPCs, SyncPCs, TunnelLost,
     cmdVars
<1>7. FreshInv'
  BY Ids DEF Inv, urlVars, FreshInv, Starting, InUp, StartPCs, CallbackPCs, SyncPCs,
             TunnelLost, syncVars, cmdVars, localVars
<1>8. SyncInv'
  BY Ids DEF Inv, urlVars, SyncInv, SyncPCs, TunnelLost, syncVars, cmdVars, localVars
<1>9. DivergenceIsReported'
  BY Ids DEF Inv, urlVars, DivergenceIsReported, Persisting, TunnelLost, syncVars, cmdVars
<1>10. UrlInv'
  BY Ids DEF Inv, TypeOK, PCs, UrlInv, MonitorInv, CommandInv, Starting, InUp, StartPCs,
     CallbackPCs, SyncPCs, TunnelLost, Goto, StopAll, Save, mgrVars, urlVars, cmdVars
<1> QED
  BY <1>1, <1>2, <1>3, <1>4, <1>5, <1>6, <1>7, <1>8, <1>9, <1>10 DEF Inv

(* The recovery holds lifecycleMu from here on.                            *)
LEMMA RecoveryBeginsStep ==
  ASSUME Inv, NEW t \in Tunnels, RecoveryBegins(t)
  PROVE  Inv'
<1>1. TypeOK'
  BY Ids DEF Inv, TypeOK, PCs, RecoveryBegins, Goto, mgrVars, urlVars, syncVars, cmdVars,
             localVars
<1>2. LockInv'
  BY Ids DEF Inv, LockInv, Starting, InUp, StartPCs, CallbackPCs, SyncPCs, RecoveryBegins,
         Goto, cmdVars
<1>3. MonitorInv'
  BY Ids DEF Inv, MonitorInv, StartPCs, CallbackPCs, SyncPCs, RecoveryBegins, Goto,
     cmdVars
<1>4. CommandInv'
  BY Ids DEF Inv, CommandInv, StartPCs, CallbackPCs, SyncPCs, RecoveryBegins, Goto,
     cmdVars
<1>5. CallbackInv'
  BY Ids DEF Inv, CallbackInv, CallbackPCs, SyncPCs, RecoveryBegins, Goto, mgrVars, urlVars,
     cmdVars
<1>6. SeenInv'
  BY Ids DEF Inv, SeenInv, Starting, InUp, StartPCs, CallbackPCs, SyncPCs, RecoveryBegins,
         Goto, mgrVars, urlVars, cmdVars
<1>7. FreshInv'
  BY Ids DEF Inv, FreshInv, Starting, InUp, StartPCs, CallbackPCs, SyncPCs,
     RecoveryBegins,
         Goto, mgrVars, urlVars, syncVars, cmdVars, localVars
<1>8. SyncInv'
  BY Ids DEF Inv, SyncInv, SyncPCs, RecoveryBegins, Goto, syncVars, cmdVars, localVars
<1>9. DivergenceIsReported'
  BY Ids DEF Inv, DivergenceIsReported, Persisting, RecoveryBegins, Goto, syncVars,
     cmdVars
<1>10. UrlInv'
  BY Ids DEF Inv, TypeOK, PCs, UrlInv, MonitorInv, CommandInv, Starting, InUp, StartPCs,
     CallbackPCs, SyncPCs, RecoveryBegins, Goto, StopAll, Save, mgrVars, urlVars, cmdVars
<1> QED
  BY <1>1, <1>2, <1>3, <1>4, <1>5, <1>6, <1>7, <1>8, <1>9, <1>10 DEF Inv

(* A monitor whose budget is spent is gone.                                *)
LEMMA RecoveryGivesUpStep ==
  ASSUME Inv, NEW t \in Tunnels, RecoveryGivesUp(t)
  PROVE  Inv'
<1>1. TypeOK'
  BY Ids DEF Inv, TypeOK, PCs, RecoveryGivesUp, Goto, mgrVars, urlVars, syncVars, cmdVars,
     localVars
<1>2. LockInv'
  BY Ids DEF Inv, LockInv, Starting, InUp, StartPCs, CallbackPCs, SyncPCs,
     RecoveryGivesUp,
         Goto, cmdVars
<1>3. MonitorInv'
  BY Ids DEF Inv, MonitorInv, StartPCs, CallbackPCs, SyncPCs, RecoveryGivesUp, Goto,
     cmdVars
<1>4. CommandInv'
  BY Ids DEF Inv, CommandInv, StartPCs, CallbackPCs, SyncPCs, RecoveryGivesUp, Goto,
     cmdVars
<1>5. CallbackInv'
  BY Ids DEF Inv, CallbackInv, CallbackPCs, SyncPCs, RecoveryGivesUp, Goto, mgrVars, urlVars,
     cmdVars
<1>6. SeenInv'
  BY Ids DEF Inv, SeenInv, Starting, InUp, StartPCs, CallbackPCs, SyncPCs,
     RecoveryGivesUp,
         Goto, mgrVars, urlVars, cmdVars
<1>7. FreshInv'
  BY Ids DEF Inv, FreshInv, Starting, InUp, StartPCs, CallbackPCs, SyncPCs,
     RecoveryGivesUp,
         Goto, mgrVars, urlVars, syncVars, cmdVars, localVars
<1>8. SyncInv'
  BY Ids DEF Inv, SyncInv, SyncPCs, RecoveryGivesUp, Goto, syncVars, cmdVars, localVars
<1>9. DivergenceIsReported'
  BY Ids DEF Inv, DivergenceIsReported, Persisting, RecoveryGivesUp, Goto, syncVars,
     cmdVars
<1>10. UrlInv'
  BY Ids DEF Inv, TypeOK, PCs, UrlInv, MonitorInv, CommandInv, Starting, InUp, StartPCs,
     CallbackPCs, SyncPCs, RecoveryGivesUp, Goto, StopAll, Save, mgrVars, urlVars, cmdVars
<1> QED
  BY <1>1, <1>2, <1>3, <1>4, <1>5, <1>6, <1>7, <1>8, <1>9, <1>10 DEF Inv

(* The tunnel of a start has no URL, and it is not watched.                *)
LEMMA PrepareStep ==
  ASSUME Inv, NEW x \in Threads, Prepare(x)
  PROVE  Inv'
<1>1. TypeOK'
  BY Ids DEF Inv, TypeOK, PCs, Prepare, Goto, syncVars, cmdVars, localVars
<1>2. LockInv'
  BY Ids DEF Inv, LockInv, Starting, InUp, StartPCs, CallbackPCs, SyncPCs, Prepare, Goto,
         cmdVars
<1>3. MonitorInv'
  BY Ids DEF Inv, MonitorInv, StartPCs, CallbackPCs, SyncPCs, Prepare, Goto, cmdVars
<1>4. CommandInv'
  BY Ids DEF Inv, CommandInv, StartPCs, CallbackPCs, SyncPCs, Prepare, Goto, cmdVars
<1>5. CallbackInv'
  BY Ids DEF Inv, CallbackInv, CallbackPCs, SyncPCs, Prepare, Goto, cmdVars
<1>6. SeenInv'
  BY Ids DEF Inv, TypeOK, PCs, CommandInv, StartPCs, CallbackPCs, SyncPCs, MonitorInv,
     SeenInv, Starting, InUp, Prepare, Goto, cmdVars
<1>7. FreshInv'
  BY Ids DEF Inv, TypeOK, PCs, CommandInv, StartPCs, CallbackPCs, SyncPCs, MonitorInv,
         FreshInv, Starting, InUp, Prepare, Goto, syncVars, cmdVars, localVars
<1>8. SyncInv'
  BY Ids DEF Inv, SyncInv, SyncPCs, Prepare, Goto, syncVars, cmdVars, localVars
<1>9. DivergenceIsReported'
  BY Ids DEF Inv, DivergenceIsReported, Persisting, Prepare, Goto, syncVars, cmdVars
<1>10. UrlInv'
  BY Ids DEF Inv, TypeOK, PCs, UrlInv, MonitorInv, CommandInv, Starting, InUp, StartPCs,
     CallbackPCs, SyncPCs, Prepare, Goto, StopAll, Save, mgrVars, urlVars, cmdVars
<1> QED
  BY <1>1, <1>2, <1>3, <1>4, <1>5, <1>6, <1>7, <1>8, <1>9, <1>10 DEF Inv

(* What a step of a probe leaves alone, and what becomes of the rest.      *)
LEMMA ProbeKeeps ==
  ASSUME Inv,
         UNCHANGED <<healthy, callback, lifecycleMu, endpointSyncMu, syncVars, disk, cmdVars,
                     pc, on, attempts, localVars, seen>>
  PROVE  /\ LockInv' /\ MonitorInv' /\ CommandInv' /\ CallbackInv' /\ SyncInv'
         /\ DivergenceIsReported'
         /\ \A x \in Threads : Starting(x)' <=> Starting(x)
BY DEF Inv, LockInv, Starting, InUp, MonitorInv, CommandInv, CallbackInv, SyncInv,
   DivergenceIsReported, Persisting, syncVars, cmdVars, localVars

(* A process prints a URL only once: one that had none has been prepared   *)
(* and not read since, or a probe has crossed its Prepare.                 *)
LEMMA ProcessPrintsStep ==
  ASSUME Inv, NEW t \in Tunnels, ProcessPrints(t)
  PROVE  Inv'
<1>1. /\ address[t] = NoURL /\ handedOut' = handedOut + 1
      /\ address' = [address EXCEPT ![t] = handedOut']
      /\ printed' = [printed EXCEPT ![t] = @ \cup {handedOut'}]
      /\ UNCHANGED <<healthy, url, found, crossed, callback, lifecycleMu, endpointSyncMu,
                     syncVars, disk, cmdVars, pc, on, attempts, localVars, seen>>
  BY DEF ProcessPrints
<1>2. handedOut' \in URLs \ {NoURL}
  BY EndpointsAssumption DEF ProcessPrints, Inv, TypeOK, URLs, NoURL
<1>3. TypeOK'
  BY <1>1, <1>2 DEF Inv, TypeOK, syncVars, cmdVars, localVars
<1>4. /\ LockInv' /\ MonitorInv' /\ CommandInv' /\ CallbackInv' /\ SyncInv'
      /\ DivergenceIsReported'
      /\ \A x \in Threads : Starting(x)' <=> Starting(x)
  BY <1>1, ProbeKeeps
<1>5. t \in crossed \/ url[t] = NoURL
  BY <1>1 DEF Inv, UrlInv
<1>6. UrlInv'
  BY <1>1, <1>2, <1>4, <1>5 DEF Inv, TypeOK, UrlInv
<1>7. \A v \in Tunnels \ crossed : url[v] # NoURL => address'[v] = address[v]
  BY <1>1, <1>5 DEF Inv, TypeOK
<1>8. \A x \in Threads : on[x] \in Tunnels
  BY DEF Inv, TypeOK
<1>9. SeenInv'
  <2> SUFFICES ASSUME callback  PROVE SeenInv'
    BY <1>1 DEF SeenInv
  <2>1. ASSUME NEW v \in healthy \ crossed, pc[v] = "watch"
        PROVE  \/ v \in todo
               \/ cmd = "up" /\ pc[Command] = "read" /\ on[Command] = v
               \/ seen[v] = address'[v]
    <3>1. v \in Tunnels /\ url[v] # NoURL
      BY <2>1 DEF Inv, TypeOK, UrlInv
    <3> QED
      BY <1>7, <2>1, <3>1 DEF Inv, SeenInv
  <2>2. ASSUME NEW x \in Threads, Starting(x), pc[x] \in {"sync"} \cup SyncPCs,
               on[x] \notin crossed
        PROVE  seen[on[x]] = address'[on[x]]
    <3>1. url[on[x]] # NoURL
      BY <2>2 DEF Inv, UrlInv, SyncPCs
    <3> QED
      BY <1>7, <1>8, <2>2, <3>1 DEF Inv, SeenInv
  <2> QED
    BY <1>1, <1>4, <2>1, <2>2 DEF SeenInv, cmdVars
<1>10. FreshInv'
  <2>1. ASSUME NEW x \in Threads, Starting(x), on[x] \notin crossed,
               pc[x] \in {"sync"} \cup SyncPCs
        PROVE  address'[on[x]] = address[on[x]]
    <3>1. url[on[x]] # NoURL
      BY <2>1 DEF Inv, UrlInv, SyncPCs
    <3> QED
      BY <1>7, <1>8, <2>1, <3>1
  <2> QED
    BY <1>1, <1>4, <2>1 DEF Inv, FreshInv, syncVars, localVars
<1> QED
  BY <1>3, <1>4, <1>6, <1>9, <1>10 DEF Inv

(* Finding a URL changes nothing but what the probe holds.                 *)
LEMMA FindURLStep ==
  ASSUME Inv, NEW t \in Tunnels, FindURL(t)
  PROVE  Inv'
<1>1. PICK u \in printed[t] : found' = [found EXCEPT ![t] = @ \cup {u}]
  BY DEF FindURL
<1>2. UNCHANGED <<healthy, url, address, printed, crossed, handedOut, callback, lifecycleMu,
                  endpointSyncMu, syncVars, disk, cmdVars, pc, on, attempts, localVars, seen>>
  BY DEF FindURL
<1>3. TypeOK'
  BY <1>1, <1>2 DEF Inv, TypeOK, syncVars, cmdVars, localVars
<1>4. /\ LockInv' /\ MonitorInv' /\ CommandInv' /\ CallbackInv' /\ SyncInv'
      /\ DivergenceIsReported'
      /\ \A x \in Threads : Starting(x)' <=> Starting(x)
  BY <1>2, ProbeKeeps
<1>5. UrlInv'
  BY <1>1, <1>2, <1>4 DEF Inv, TypeOK, UrlInv
<1>6. SeenInv' /\ FreshInv'
  BY <1>2, <1>4 DEF Inv, SeenInv, FreshInv, syncVars, cmdVars, localVars
<1> QED
  BY <1>3, <1>4, <1>5, <1>6 DEF Inv

(* A probe stores the URL of the process, or another one: then the tunnel  *)
(* is crossed.                                                             *)
LEMMA StoreURLStep ==
  ASSUME Inv, NEW t \in Tunnels, StoreURL(t)
  PROVE  Inv'
<1>1. PICK u \in found[t] :
        /\ url' = [url EXCEPT ![t] = u]
        /\ crossed' = IF u = address[t] THEN crossed ELSE crossed \cup {t}
  BY DEF StoreURL
<1>2. UNCHANGED <<healthy, address, printed, found, handedOut, callback, lifecycleMu,
                  endpointSyncMu, syncVars, disk, cmdVars, pc, on, attempts, localVars, seen>>
  BY DEF StoreURL
<1>3. u \in URLs /\ u # NoURL /\ crossed \subseteq crossed'
  BY <1>1 DEF Inv, TypeOK, UrlInv
<1>4. TypeOK'
  BY <1>1, <1>2, <1>3 DEF Inv, TypeOK, syncVars, cmdVars, localVars
<1>5. /\ LockInv' /\ MonitorInv' /\ CommandInv' /\ CallbackInv' /\ SyncInv'
      /\ DivergenceIsReported'
      /\ \A x \in Threads : Starting(x)' <=> Starting(x)
  BY <1>2, ProbeKeeps
<1>6. UrlInv'
  <2>1. \A v \in Tunnels : url'[v] = IF v = t THEN u ELSE url[v]
    BY <1>1 DEF Inv, TypeOK
  <2>2. healthy \subseteq Tunnels /\ \A x \in Threads : on[x] \in Tunnels
    BY DEF Inv, TypeOK
  <2>3. \A v \in Tunnels \ crossed' : url'[v] \in {NoURL, address[v]}
    BY <1>1, <1>3, <2>1 DEF Inv, UrlInv
  <2> QED
    BY <1>2, <1>3, <1>5, <2>1, <2>2, <2>3 DEF Inv, UrlInv
<1>7. SeenInv' /\ FreshInv'
  BY <1>2, <1>3, <1>5 DEF Inv, SeenInv, FreshInv, syncVars, cmdVars, localVars
<1> QED
  BY <1>4, <1>5, <1>6, <1>7 DEF Inv

(* A tunnel becomes Healthy with a URL, before its monitor watches it.     *)
LEMMA BecomeHealthyStep ==
  ASSUME Inv, NEW x \in Threads, BecomeHealthy(x)
  PROVE  Inv'
<1>1. TypeOK'
  BY Ids DEF Inv, urlVars, TypeOK, PCs, BecomeHealthy, Goto, syncVars, cmdVars, localVars
<1>2. LockInv'
  BY Ids DEF Inv, urlVars, LockInv, Starting, InUp, StartPCs, CallbackPCs, SyncPCs,
             BecomeHealthy, Goto,
         cmdVars
<1>3. MonitorInv'
  BY Ids DEF Inv, urlVars, MonitorInv, StartPCs, CallbackPCs, SyncPCs, BecomeHealthy, Goto,
             cmdVars
<1>4. CommandInv'
  BY Ids DEF Inv, urlVars, CommandInv, StartPCs, CallbackPCs, SyncPCs, BecomeHealthy, Goto,
             cmdVars
<1>5. CallbackInv'
  BY Ids DEF Inv, urlVars, CallbackInv, CallbackPCs, SyncPCs, BecomeHealthy, Goto, cmdVars
<1>6. SeenInv'
  BY Ids DEF Inv, urlVars, TypeOK, PCs, CommandInv, StartPCs, CallbackPCs, SyncPCs, MonitorInv,
     SeenInv, Starting, InUp, BecomeHealthy, Goto, cmdVars
<1>7. FreshInv'
  BY Ids DEF Inv, urlVars, FreshInv, Starting, InUp, StartPCs, CallbackPCs, SyncPCs,
             BecomeHealthy, Goto, syncVars, cmdVars, localVars
<1>8. SyncInv'
  BY Ids DEF Inv, urlVars, SyncInv, SyncPCs, BecomeHealthy, Goto, syncVars, cmdVars, localVars
<1>9. DivergenceIsReported'
  BY Ids DEF Inv, urlVars, DivergenceIsReported, Persisting, BecomeHealthy, Goto, syncVars,
             cmdVars
<1>10. UrlInv'
  BY Ids DEF Inv, TypeOK, PCs, UrlInv, MonitorInv, CommandInv, Starting, InUp, StartPCs,
     CallbackPCs, SyncPCs, BecomeHealthy, Goto, StopAll, Save, mgrVars, urlVars, cmdVars
<1> QED
  BY <1>1, <1>2, <1>3, <1>4, <1>5, <1>6, <1>7, <1>8, <1>9, <1>10 DEF Inv

(* What a thread that leaves startReadyMode before the callback keeps.     *)
LEMMA FrameReturnsInv ==
  ASSUME Inv, NEW x \in Threads, NEW ok \in BOOLEAN, FrameReturns(x, ok),
         pc[x] \in {"prepare", "probe", "notify"}, ok => ~callback /\ pc[x] = "notify",
         UNCHANGED <<healthy, urlVars, callback, endpointSyncMu, endpoints,
                     endpointSyncErr, disk, phase, issued, published, todo, prior,
                     downErr, on, current, copied, loaded, failed, seen>>
  PROVE  Inv'
<1>1. Starting(x)
  BY Ids DEF Inv, CommandInv, Starting, InUp, StartPCs, CallbackPCs, SyncPCs
<1>2. LockInv' /\ MonitorInv' /\ CommandInv' /\ CallbackInv'
  BY <1>1, FrameReturnsKeeps
<1>3. /\ lifecycleMu' = NoThread
      /\ cmd' = IF x = Command THEN "none" ELSE cmd
      /\ attempts' \in [Tunnels -> Nat] /\ pc' \in [Threads -> PCs]
      /\ on[x] \in Tunnels /\ (x # Command => on[x] = x)
      /\ \A y \in Threads :
           pc'[y] = IF y = on[x]
                    THEN IF ok THEN "watch" ELSE IF x = Command THEN "gone" ELSE "loop"
                    ELSE IF y = x THEN "idle" ELSE pc[y]
  BY FrameReturnsEffect DEF Inv
<1>4. cmd' \in {"none", "up", "restart", "down"}
  BY <1>3 DEF Inv, TypeOK
<1>5. TypeOK'
  BY <1>3, <1>4 DEF urlVars, Inv, TypeOK
<1>6. \A y \in Threads : ~Starting(y)'
  <2> SUFFICES ASSUME NEW y \in Threads, Starting(y)'  PROVE FALSE
    OBVIOUS
  <2>1. pc'[y] = pc[y] /\ y # x /\ y # on[x]
    BY <1>3 DEF Starting, StartPCs, CallbackPCs, SyncPCs
  <2>2. Starting(y)
    BY <1>3, <2>1, Ids DEF Starting, InUp
  <2> QED
    BY <1>1, <2>1, <2>2, Ids DEF Inv, LockInv
<1>7. x = Command => cmd = "restart" /\ pc[on[Command]] = "gone"
  BY <1>1 DEF Inv, TypeOK, CommandInv, MonitorInv, Starting, InUp, StartPCs, CallbackPCs,
     SyncPCs
<1>8. \A y \in Threads :
        pc'[y] \in SyncPCs \cup {"publish"} <=> pc[y] \in SyncPCs \cup {"publish"}
  BY <1>3, <1>7, Ids DEF SyncPCs
<1>9. \A y \in Threads : pc'[y] \in SyncPCs \cup {"publish"} => pc'[y] = pc[y]
  BY <1>3 DEF SyncPCs
<1>10. SeenInv'
  <2> SUFFICES ASSUME callback, NEW t \in healthy \ crossed, pc'[t] = "watch"
               PROVE  \/ t \in todo
                      \/ cmd' = "up" /\ pc'[Command] = "read" /\ on[Command] = t
                      \/ seen[t] = address[t]
    BY <1>6 DEF SeenInv, urlVars
  <2>1. t \in Tunnels /\ pc[t] = "watch"
    BY <1>3, Ids DEF Inv, TypeOK
  <2>2. cmd = "up" => x # Command
    BY <1>7
  <2>3. cmd = "up" /\ pc[Command] = "read" => pc'[Command] = "read" /\ cmd' = "up"
    BY <1>3, <2>2, Ids
  <2> QED
    BY <2>1, <2>3 DEF Inv, SeenInv
<1>11. FreshInv'
  BY <1>6 DEF FreshInv
<1>12. SyncInv'
  BY <1>9, Ids DEF Inv, SyncInv, SyncPCs
<1>13. DivergenceIsReported'
  BY <1>8, <1>9 DEF Inv, DivergenceIsReported, Persisting, SyncPCs
<1>14. UrlInv'
  <2>1. ok => url[on[x]] # NoURL
    BY <1>1 DEF Inv, UrlInv
  <2>2. \A t \in healthy : pc'[t] = "watch" => url[t] # NoURL
    BY <1>3, <2>1, Ids DEF Inv, TypeOK, UrlInv
  <2> QED
    BY <1>6, <2>2 DEF Inv, UrlInv, urlVars
<1> QED
  BY <1>2, <1>5, <1>10, <1>11, <1>12, <1>13, <1>14 DEF Inv

(* A start that fails: no callback has begun.                              *)
LEMMA StartFailsStep ==
  ASSUME Inv, NEW x \in Threads, StartFails(x)
  PROVE  Inv'
BY FrameReturnsInv DEF StartFails, mgrVars, urlVars, syncVars, localVars

(* The start ends with the callback, or without one.                       *)
LEMMA NotifyHealthyStep ==
  ASSUME Inv, NEW x \in Threads, NotifyHealthy(x)
  PROVE  Inv'
<1>1. /\ pc[x] = "notify"
      /\ UNCHANGED <<healthy, urlVars, callback, endpointSyncMu, endpoints,
                     endpointSyncErr, disk, phase, issued, published, todo, prior,
                     downErr, on, current, copied, loaded, failed, seen>>
  BY DEF NotifyHealthy, Goto, mgrVars, urlVars, syncVars, localVars
<1>2. CASE ~callback /\ FrameReturns(x, TRUE)
  BY <1>1, <1>2, FrameReturnsInv
<1>3. CASE callback /\ Goto(x, "notify", "read") /\ UNCHANGED <<lifecycleMu, cmd, attempts>>
  <2>1. pc' \in [Threads -> PCs] /\ \A y \in Threads : pc'[y] = IF y = x THEN "read" ELSE pc[y]
    BY <1>3 DEF Goto, Inv, TypeOK, PCs
  <2>2. TypeOK'
    BY <1>1, <1>3, <2>1 DEF urlVars, Inv, TypeOK
  <2>3. x = Command => cmd = "restart"
    BY <1>1 DEF Inv, TypeOK, CommandInv, CallbackPCs, SyncPCs
  <2>4. \A y \in Threads : Starting(y)' <=> Starting(y)
    BY <1>1, <1>3, <2>1, <2>3 DEF Starting, InUp, StartPCs, CallbackPCs, SyncPCs
  <2>5. LockInv'
    BY <1>1, <1>3, <2>1, <2>4 DEF Inv, LockInv, SyncPCs
  <2>6. MonitorInv'
    <3>1. on[Command] \in Tunnels
      BY Ids DEF Inv, TypeOK
    <3>2. \A t \in Tunnels : on[t] = t /\ pc'[t] \in {"watch", "loop", "gone"} \cup StartPCs
      BY <2>1, Ids DEF Inv, MonitorInv, StartPCs, CallbackPCs, SyncPCs
    <3>3. cmd = "restart" /\ pc'[Command] # "lock" => pc'[on[Command]] = "gone"
      BY <1>1, <2>1, <3>1, Ids DEF Inv, MonitorInv
    <3>4. pc'[Command] = "stopped" \/ phase = "down" => \A t \in Tunnels : pc'[t] = "gone"
      BY <1>1, <2>1, Ids DEF Inv, MonitorInv
    <3> QED
      BY <1>1, <1>3, <3>2, <3>3, <3>4 DEF MonitorInv
  <2>7. CommandInv'
    BY <1>1, <1>3, <2>1, <2>3, Ids DEF Inv, CommandInv, StartPCs, CallbackPCs, SyncPCs
  <2>8. CallbackInv'
    BY <1>1, <1>3, <2>1, Ids DEF Inv, CallbackInv
  <2>9. SeenInv'
    <3>1. ASSUME NEW t \in healthy, pc'[t] = "watch"  PROVE pc[t] = "watch"
      BY <1>1, <2>1, <3>1, Ids DEF Inv, TypeOK
    <3>2. pc[Command] = "read" => pc'[Command] = "read"
      BY <1>1, <2>1, Ids
    <3>3. ASSUME NEW y \in Threads, pc'[y] \in {"sync"} \cup SyncPCs
          PROVE  pc[y] \in {"sync"} \cup SyncPCs
      BY <1>1, <2>1, <3>3 DEF SyncPCs
    <3> QED
      BY <1>1, <1>3, <2>4, <3>1, <3>2, <3>3 DEF Inv, SeenInv, urlVars
  <2>10. FreshInv'
    BY <1>1, <2>1, <2>4 DEF Inv, FreshInv, SyncPCs, urlVars
  <2>11. SyncInv'
    BY <1>1, <2>1, Ids DEF Inv, SyncInv
  <2>12. DivergenceIsReported'
    BY <1>1, <2>1 DEF Inv, DivergenceIsReported, Persisting
  <2>13. UrlInv'
    BY <1>1, <2>1, <2>4, Ids DEF Inv, TypeOK, UrlInv, urlVars
  <2> QED
    BY <2>2, <2>5, <2>6, <2>7, <2>8, <2>9, <2>10, <2>11, <2>12, <2>13 DEF Inv
<1> QED
  BY <1>1, <1>2, <1>3 DEF NotifyHealthy

-----------------------------------------------------------------------------
(* Runtime.Restart and Runtime.Down.                                       *)

(* Restart is queued behind whoever holds lifecycleMu.                     *)
LEMMA RestartStep ==
  ASSUME Inv, NEW t \in Tunnels, Restart(t)
  PROVE  Inv'
<1>1. TypeOK'
  <2>1. issued' \in 0..MaxCommands
    BY EndpointsAssumption DEF Restart, Inv, TypeOK
  <2>2. phase' \in {"new", "up", "down", "revived", "abandoned"}
    BY DEF Restart, Inv, TypeOK
  <2>3. on' \in [Threads -> Tunnels] /\ pc' \in [Threads -> PCs]
    BY Ids DEF Restart, Inv, TypeOK, PCs
  <2> QED
    BY <2>1, <2>2, <2>3 DEF Restart, Inv, TypeOK, mgrVars, urlVars, syncVars, localVars
<1>2. LockInv'
  BY Ids DEF Inv, LockInv, Starting, InUp, StartPCs, CallbackPCs, SyncPCs, Restart
<1>3. MonitorInv'
  BY Ids DEF Inv, TypeOK, PCs, MonitorInv, StartPCs, CallbackPCs, SyncPCs, Restart
<1>4. CommandInv'
  BY Ids DEF Inv, TypeOK, PCs, CommandInv, StartPCs, CallbackPCs, SyncPCs, Restart
<1>5. CallbackInv'
  BY Ids DEF Inv, TypeOK, PCs, CommandInv, StartPCs, CallbackPCs, SyncPCs, CallbackInv,
         Restart, mgrVars, urlVars
<1>6. SeenInv'
  BY Ids DEF Inv, TypeOK, PCs, SeenInv, Starting, InUp, StartPCs, CallbackPCs, SyncPCs,
         Restart, mgrVars, urlVars
<1>7. FreshInv'
  BY Ids DEF Inv, TypeOK, PCs, FreshInv, Starting, InUp, StartPCs, CallbackPCs, SyncPCs,
         Restart, mgrVars, urlVars, syncVars, localVars
<1>8. SyncInv'
  BY Ids DEF Inv, SyncInv, SyncPCs, Restart, syncVars, localVars
<1>9. DivergenceIsReported'
  BY Ids DEF Inv, TypeOK, PCs, CommandInv, StartPCs, CallbackPCs, SyncPCs,
         DivergenceIsReported, Persisting, Restart, syncVars
<1>10. UrlInv'
  BY Ids DEF Inv, TypeOK, PCs, UrlInv, MonitorInv, CommandInv, Starting, InUp, StartPCs,
     CallbackPCs, SyncPCs, Restart, Goto, StopAll, Save, mgrVars, urlVars, cmdVars
<1> QED
  BY <1>1, <1>2, <1>3, <1>4, <1>5, <1>6, <1>7, <1>8, <1>9, <1>10 DEF Inv

(* Restart ends the monitor of the tunnel it takes over.                   *)
LEMMA RestartLocksStep ==
  ASSUME Inv, RestartLocks
  PROVE  Inv'
<1>1. TypeOK'
  BY Ids DEF Inv, urlVars, TypeOK, PCs, RestartLocks, syncVars, cmdVars, localVars
<1>2. LockInv'
  BY Ids DEF Inv, urlVars, TypeOK, PCs, LockInv, Starting, InUp, StartPCs, CallbackPCs,
             SyncPCs, RestartLocks, cmdVars
<1>3. MonitorInv'
  BY Ids DEF Inv, urlVars, TypeOK, PCs, MonitorInv, StartPCs, CallbackPCs, SyncPCs,
             RestartLocks, cmdVars
<1>4. CommandInv'
  BY Ids DEF Inv, urlVars, TypeOK, PCs, CommandInv, StartPCs, CallbackPCs, SyncPCs,
             RestartLocks, cmdVars
<1>5. CallbackInv'
  BY Ids DEF Inv, urlVars, TypeOK, PCs, CallbackInv, CallbackPCs, SyncPCs, RestartLocks,
             cmdVars
<1>6. SeenInv'
  BY Ids DEF Inv, urlVars, TypeOK, PCs, SeenInv, Starting, InUp, StartPCs, CallbackPCs,
             SyncPCs, RestartLocks, cmdVars
<1>7. FreshInv'
  BY Ids DEF Inv, urlVars, TypeOK, PCs, FreshInv, Starting, InUp, StartPCs, CallbackPCs,
             SyncPCs, RestartLocks, syncVars, cmdVars, localVars
<1>8. SyncInv'
  BY Ids DEF Inv, urlVars, TypeOK, PCs, SyncInv, SyncPCs, RestartLocks, syncVars, cmdVars,
     localVars
<1>9. DivergenceIsReported'
  BY Ids DEF Inv, urlVars, TypeOK, PCs, LockInv, Starting, InUp, StartPCs, CallbackPCs,
             SyncPCs, DivergenceIsReported, Persisting, RestartLocks, syncVars, cmdVars
<1>10. UrlInv'
  BY Ids DEF Inv, TypeOK, PCs, UrlInv, MonitorInv, CommandInv, Starting, InUp, StartPCs,
     CallbackPCs, SyncPCs, RestartLocks, Goto, StopAll, Save, mgrVars, urlVars, cmdVars
<1> QED
  BY <1>1, <1>2, <1>3, <1>4, <1>5, <1>6, <1>7, <1>8, <1>9, <1>10 DEF Inv

(* Down is queued behind whoever holds lifecycleMu.                        *)
LEMMA DownStep ==
  ASSUME Inv, Down
  PROVE  Inv'
<1>1. TypeOK'
  BY Ids DEF Inv, TypeOK, PCs, Down, mgrVars, urlVars, syncVars, localVars
<1>2. LockInv'
  BY Ids DEF Inv, LockInv, Starting, InUp, StartPCs, CallbackPCs, SyncPCs, Down
<1>3. MonitorInv'
  BY Ids DEF Inv, MonitorInv, StartPCs, CallbackPCs, SyncPCs, Down
<1>4. CommandInv'
  BY Ids DEF Inv, TypeOK, PCs, CommandInv, StartPCs, CallbackPCs, SyncPCs, Down
<1>5. CallbackInv'
  BY Ids DEF Inv, TypeOK, PCs, CommandInv, StartPCs, CallbackPCs, SyncPCs, CallbackInv,
     Down, mgrVars, urlVars
<1>6. SeenInv'
  BY Ids DEF Inv, SeenInv, Starting, InUp, StartPCs, CallbackPCs, SyncPCs, Down, mgrVars,
             urlVars
<1>7. FreshInv'
  BY Ids DEF Inv, FreshInv, Starting, InUp, StartPCs, CallbackPCs, SyncPCs, Down, mgrVars,
             urlVars, syncVars, localVars
<1>8. SyncInv'
  BY Ids DEF Inv, SyncInv, SyncPCs, Down, syncVars, localVars
<1>9. DivergenceIsReported'
  BY Ids DEF Inv, TypeOK, PCs, CommandInv, StartPCs, CallbackPCs, SyncPCs,
         DivergenceIsReported, Persisting, Down, syncVars
<1>10. UrlInv'
  BY Ids DEF Inv, TypeOK, PCs, UrlInv, MonitorInv, CommandInv, Starting, InUp, StartPCs,
     CallbackPCs, SyncPCs, Down, Goto, StopAll, Save, mgrVars, urlVars, cmdVars
<1> QED
  BY <1>1, <1>2, <1>3, <1>4, <1>5, <1>6, <1>7, <1>8, <1>9, <1>10 DEF Inv

(* No start is under way when StopAll gets lifecycleMu.                    *)
LEMMA DownStopsStep ==
  ASSUME Inv, DownStops
  PROVE  Inv'
<1>1. TypeOK'
  BY Ids DEF Inv, urlVars, TypeOK, PCs, DownStops, StopAll, syncVars, localVars
<1>2. LockInv'
  BY Ids DEF Inv, urlVars, LockInv, Starting, InUp, StartPCs, CallbackPCs, SyncPCs, DownStops,
     StopAll
<1>3. MonitorInv'
  BY Ids DEF Inv, urlVars, MonitorInv, StartPCs, CallbackPCs, SyncPCs, DownStops, StopAll
<1>4. CommandInv'
  BY Ids DEF Inv, urlVars, CommandInv, StartPCs, CallbackPCs, SyncPCs, DownStops, StopAll
<1>5. CallbackInv'
  BY Ids DEF Inv, urlVars, CallbackInv, CallbackPCs, SyncPCs, DownStops, StopAll
<1>6. SeenInv'
  BY Ids DEF Inv, urlVars, SeenInv, Starting, InUp, StartPCs, CallbackPCs, SyncPCs, DownStops,
     StopAll
<1>7. FreshInv'
  BY Ids DEF Inv, urlVars, FreshInv, Starting, InUp, StartPCs, CallbackPCs, SyncPCs, DownStops,
     StopAll, syncVars, localVars
<1>8. SyncInv'
  BY Ids DEF Inv, urlVars, SyncInv, SyncPCs, DownStops, StopAll, syncVars, localVars
<1>9. DivergenceIsReported'
  BY Ids DEF Inv, urlVars, TypeOK, PCs, LockInv, Starting, InUp, StartPCs, CallbackPCs,
             SyncPCs, DivergenceIsReported, Persisting, DownStops, StopAll, syncVars
<1>10. UrlInv'
  BY Ids DEF Inv, TypeOK, PCs, UrlInv, MonitorInv, CommandInv, Starting, InUp, StartPCs,
     CallbackPCs, SyncPCs, DownStops, Goto, StopAll, Save, mgrVars, urlVars, cmdVars
<1> QED
  BY <1>1, <1>2, <1>3, <1>4, <1>5, <1>6, <1>7, <1>8, <1>9, <1>10 DEF Inv

(* Nobody is left to write the map or state.json.                          *)
LEMMA DownSavesStep ==
  ASSUME Inv, DownSaves
  PROVE  Inv'
<1>1. TypeOK'
  <2>1. [endpoints |-> NoEndpoints, stopped |-> TRUE]
          \in [endpoints : [Tunnels -> URLs], stopped : BOOLEAN]
    BY Ids DEF NoEndpoints
  <2>2. disk' \in [endpoints : [Tunnels -> URLs], stopped : BOOLEAN]
    BY <2>1 DEF DownSaves, Save, Inv, TypeOK
  <2>3. downErr' \in BOOLEAN
    BY DEF DownSaves, Inv, TypeOK
  <2>4. pc' \in [Threads -> PCs]
    BY Ids DEF DownSaves, Goto, Inv, TypeOK, PCs
  <2> QED
    BY <2>2, <2>3, <2>4 DEF DownSaves, Inv, TypeOK, mgrVars, urlVars, syncVars, localVars
<1>2. LockInv'
  BY Ids DEF Inv, LockInv, Starting, InUp, StartPCs, CallbackPCs, SyncPCs, DownSaves,
     Goto, Save
<1>3. MonitorInv'
  BY Ids DEF Inv, MonitorInv, StartPCs, CallbackPCs, SyncPCs, DownSaves, Goto, Save
<1>4. CommandInv'
  BY Ids DEF Inv, TypeOK, PCs, CommandInv, StartPCs, CallbackPCs, SyncPCs, DownSaves,
     Goto, Save
<1>5. CallbackInv'
  BY Ids DEF Inv, TypeOK, PCs, CommandInv, StartPCs, CallbackPCs, SyncPCs, CallbackInv,
         DownSaves, Goto, Save, mgrVars, urlVars
<1>6. SeenInv'
  BY Ids DEF Inv, SeenInv, Starting, InUp, StartPCs, CallbackPCs, SyncPCs, DownSaves,
     Goto, Save, mgrVars, urlVars
<1>7. FreshInv'
  BY Ids DEF Inv, FreshInv, Starting, InUp, StartPCs, CallbackPCs, SyncPCs, DownSaves,
     Goto, Save, mgrVars, urlVars, syncVars, localVars
<1>8. SyncInv'
  BY Ids DEF Inv, SyncInv, SyncPCs, DownSaves, Goto, Save, syncVars, localVars
<1>9. DivergenceIsReported'
  BY Ids DEF Inv, DivergenceIsReported, Persisting, DownSaves, Goto, Save, syncVars
<1>10. UrlInv'
  BY Ids DEF Inv, TypeOK, PCs, UrlInv, MonitorInv, CommandInv, Starting, InUp, StartPCs,
     CallbackPCs, SyncPCs, DownSaves, Goto, StopAll, Save, mgrVars, urlVars, cmdVars
<1> QED
  BY <1>1, <1>2, <1>3, <1>4, <1>5, <1>6, <1>7, <1>8, <1>9, <1>10 DEF Inv

-----------------------------------------------------------------------------
(* The specification.                                                      *)

(* The initial states satisfy the invariant.                                *)
LEMMA InitInv ==
  ASSUME Init  PROVE Inv
<1>1. NoEndpoints \in [Tunnels -> URLs] /\ url \in [Tunnels -> URLs]
  BY EndpointsAssumption, Ids DEF Init, NoEndpoints, Tunnels, URLs
<1>13. /\ address \in [Tunnels -> URLs] /\ crossed \subseteq Tunnels
       /\ printed \in [Tunnels -> SUBSET URLs] /\ found \in [Tunnels -> SUBSET URLs]
  BY EndpointsAssumption, <1>1 DEF Init, Tunnels, URLs
<1>2. pc \in [Threads -> PCs] /\ on \in [Threads -> Tunnels]
  BY Ids DEF Init, PCs
<1>3. disk \in [endpoints : [Tunnels -> URLs], stopped : BOOLEAN]
  BY <1>1 DEF Init
<1>4. attempts \in [Tunnels -> Nat]
  BY DEF Init
<1>5. /\ current \in [Threads -> URLs] /\ copied \in [Threads -> [Tunnels -> URLs]]
      /\ loaded \in [Threads -> BOOLEAN] /\ failed \in [Threads -> BOOLEAN]
  BY <1>1, Ids DEF Init
<1>6. TypeOK
  <2>1. /\ healthy \subseteq Tunnels /\ todo \subseteq Tunnels /\ handedOut \in URLs
        /\ lifecycleMu \in Threads \cup {NoThread} /\ endpointSyncMu \in Threads \cup {NoThread}
        /\ callback \in BOOLEAN /\ endpointSyncErr \in BOOLEAN
        /\ cmd = "up" /\ phase = "new" /\ prior \in BOOLEAN /\ downErr \in BOOLEAN
    BY Ids DEF Init
  <2>2. /\ endpoints \in [Tunnels -> URLs] /\ published \in [Tunnels -> URLs]
        /\ seen \in [Tunnels -> URLs]
    BY <1>1 DEF Init
  <2>3. issued \in 0..MaxCommands
    BY EndpointsAssumption DEF Init
  <2> QED
    BY <1>1, <1>2, <1>3, <1>4, <1>5, <1>13, <2>1, <2>2, <2>3 DEF TypeOK
<1>7. \A x \in Threads : pc[x] = IF x = Command THEN "collect" ELSE "watch"
  BY DEF Init
<1>8. LockInv /\ FreshInv
  BY <1>7 DEF LockInv, FreshInv, Starting, StartPCs, CallbackPCs, SyncPCs
<1>9. MonitorInv
  BY <1>7, Ids DEF Init, MonitorInv
<1>10. CommandInv /\ CallbackInv
  BY <1>7, Ids DEF Init, CommandInv, CallbackInv, CallbackPCs, SyncPCs
<1>11. SeenInv /\ DivergenceIsReported
  BY DEF Init, SeenInv, DivergenceIsReported
<1>12. SyncInv
  BY <1>7, Ids DEF Init, SyncInv
<1>14. UrlInv
  <2>1. \A x \in Threads : ~Starting(x)
    BY <1>7 DEF Starting, StartPCs, CallbackPCs, SyncPCs
  <2>2. \A t \in Tunnels : t # NoURL
    BY DEF Tunnels, NoURL
  <2> QED
    BY <2>1, <2>2 DEF Init, UrlInv
<1> QED
  BY <1>14, <1>6, <1>8, <1>9, <1>10, <1>11, <1>12 DEF Inv

(* A step of startReadyMode or of the callback keeps the invariant.         *)
LEMMA FrameStep ==
  ASSUME Inv, NEW x \in Threads, Frame(x)
  PROVE  Inv'
BY PrepareStep, BecomeHealthyStep, StartFailsStep, NotifyHealthyStep,
   ReadURLStep, RefreshEndpointStep, LoadStateStep, SaveStateStep, RecordSyncErrStep
DEF Frame, Callback

(* Every step keeps the invariant.                                          *)
LEMMA NextKeepsInv ==
  ASSUME Inv, [Next]_vars
  PROVE  Inv'
<1>1. CASE CommandStep
  BY <1>1, Ids, FrameStep, UpCollectsStep, UpSavesStep, UpAbandonsStep, UpPublishesStep,
     UpInstallsCallbackStep, UpCallsBackStep, UpReturnsStep, RestartLocksStep,
     DownStopsStep, DownSavesStep
  DEF CommandStep
<1>2. CASE \E t \in Tunnels : MonitorStep(t) \/ ProbeStep(t) \/ TunnelLost(t) \/ Restart(t)
  <2>1. PICK t \in Tunnels : MonitorStep(t) \/ ProbeStep(t) \/ TunnelLost(t) \/ Restart(t)
    BY <1>2
  <2>2. CASE MonitorStep(t)
    BY <2>2, Ids, FrameStep, RecoveryBeginsStep, RecoveryGivesUpStep DEF MonitorStep
  <2>3. CASE ProbeStep(t)
    BY <2>3, ProcessPrintsStep, FindURLStep, StoreURLStep DEF ProbeStep
  <2> QED
    BY <2>1, <2>2, <2>3, TunnelLostStep, RestartStep
<1>3. CASE Down
  BY <1>3, DownStep
<1>4. CASE UNCHANGED vars
  BY <1>4 DEF vars, mgrVars, urlVars, syncVars, cmdVars, localVars, Inv, TypeOK, LockInv,
     MonitorInv,
     CommandInv, CallbackInv, UrlInv, SeenInv, FreshInv, SyncInv, DivergenceIsReported,
     Persisting, Starting, InUp
<1> QED
  BY <1>1, <1>2, <1>3, <1>4 DEF Next

(* The invariant holds in every reachable state.                            *)
THEOREM Invariance == Spec => []Inv
<1>1. Init => Inv
  BY InitInv
<1>2. Inv /\ [Next]_vars => Inv'
  BY NextKeepsInv
<1> QED
  BY <1>1, <1>2, PTL DEF Spec

(* Every variable holds a value of its kind, whatever the number of tunnels. *)
THEOREM EndpointsTypes == Spec => []TypeOK
<1>1. Inv => TypeOK
  BY DEF Inv
<1> QED
  BY <1>1, Invariance, PTL

(* While the Runtime is up, state.json and the endpoint map differ only    *)
(* when endpointSyncErr says so: handleHealthyService refreshes the map and *)
(* saves it under one endpointSyncMu.                                       *)
THEOREM DivergenceIsReportedHolds == Spec => []DivergenceIsReported
<1>1. Inv => DivergenceIsReported
  BY DEF Inv
<1> QED
  BY <1>1, Invariance, PTL

(* Once Up has returned, the last URL the Runtime has read of a watched    *)
(* tunnel is the one its process has printed: SetHealthyCallback calls back *)
(* for every service that is Healthy when it installs the callback.  The    *)
(* exception is a tunnel whose last Prepare a probe crossed.                *)
THEOREM NoMissedRecoveryHolds == Spec => []NoMissedRecovery
<1>1. Inv => NoMissedRecovery
  <2> SUFFICES ASSUME Inv, phase = "up", cmd # "up", NEW t \in healthy \ crossed,
                      pc[t] = "watch"
               PROVE  seen[t] = address[t]
    BY DEF NoMissedRecovery
  <2>1. pc[Command] \in {"idle", "lock", "stopped"} \cup StartPCs
    BY DEF Inv, TypeOK, CommandInv
  <2>2. callback /\ todo = {}
    BY <2>1 DEF Inv, CommandInv, CallbackInv, StartPCs, CallbackPCs, SyncPCs
  <2> QED
    BY <2>2 DEF Inv, SeenInv
<1> QED
  BY <1>1, Invariance, PTL

-----------------------------------------------------------------------------
(* The action properties.                                                  *)

(* A tunnel is watched again only when a start of it returns, from          *)
(* notifyHealthy or from the callback.                                      *)
LEMMA OnlyStartsWatch ==
  ASSUME Inv, [Next]_vars, NEW t \in Tunnels, cmd # "up",
         pc[t] # "watch", pc'[t] = "watch"
  PROVE  \E x \in Threads :
           /\ on[x] = t /\ FrameReturns(x, TRUE)
           /\ \/ ~callback /\ NotifyHealthy(x)
              \/ url[t] = NoURL /\ ReadURL(x)
              \/ RefreshEndpoint(x) \/ RecordSyncErr(x)
<1>1. /\ t # Command /\ t \in Threads /\ pc \in [Threads -> PCs]
      /\ \A x \in Threads : on[x] \in Tunnels
  BY Ids DEF Inv, TypeOK
<1>2. ASSUME NEW x \in Threads, NEW ok \in BOOLEAN, FrameReturns(x, ok)
      PROVE  ok /\ on[x] = t
  BY <1>1, <1>2, FrameReturnsEffect DEF Inv
<1>3. ASSUME NEW x \in Threads, NEW p \in STRING, NEW q \in STRING, Goto(x, p, q)
      PROVE  q = "watch"
  BY <1>1, <1>3 DEF Goto
<1>4. ASSUME NEW x \in Threads, Frame(x)
      PROVE  /\ on[x] = t /\ FrameReturns(x, TRUE)
             /\ \/ ~callback /\ NotifyHealthy(x)
                \/ url[t] = NoURL /\ ReadURL(x)
                \/ RefreshEndpoint(x) \/ RecordSyncErr(x)
  <2>1. ~Prepare(x) /\ ~BecomeHealthy(x) /\ ~LoadState(x) /\ ~SaveState(x)
    BY <1>1 DEF Prepare, BecomeHealthy, LoadState, SaveState, Goto
  <2>3. ~StartFails(x)
    BY <1>2 DEF StartFails
  <2>4. CASE NotifyHealthy(x)
    <3>1. ~callback /\ FrameReturns(x, TRUE)
      BY <1>1, <2>4 DEF NotifyHealthy, Goto
    <3> QED
      BY <1>2, <2>4, <3>1
  <2>5. CallbackReturns(x) => FrameReturns(x, TRUE) /\ on[x] = t
    BY <1>2 DEF CallbackReturns
  <2>6. CASE ReadURL(x)
    <3>1. url[on[x]] = NoURL /\ CallbackReturns(x)
      BY <1>1, <2>6 DEF ReadURL, Goto
    <3> QED
      BY <2>5, <2>6, <3>1
  <2>7. CASE RefreshEndpoint(x)
    <3>1. CallbackReturns(x)
      BY <1>1, <2>7 DEF RefreshEndpoint, Goto
    <3> QED
      BY <2>5, <2>7, <3>1
  <2>8. CASE RecordSyncErr(x)
    BY <2>5, <2>8 DEF RecordSyncErr
  <2> QED
    BY <1>4, <2>1, <2>3, <2>4, <2>6, <2>7, <2>8 DEF Frame, Callback
<1>5. \E x \in Threads : Frame(x)
  <2>1. ~UpCollects /\ ~UpSaves /\ ~UpPublishes /\ ~UpInstallsCallback /\ ~UpCallsBack
        /\ ~UpReturns /\ ~DownSaves
    BY <1>1, Ids DEF UpCollects, UpSaves, UpPublishes, UpInstallsCallback, UpCallsBack,
       UpReturns, DownSaves, Goto
  <2>2. ~UpAbandons /\ ~DownStops /\ ~RestartLocks
    BY <1>1, Ids DEF UpAbandons, DownStops, StopAll, RestartLocks
  <2>3. ASSUME NEW u \in Tunnels
        PROVE  /\ ~RecoveryBegins(u) /\ ~RecoveryGivesUp(u) /\ ~TunnelLost(u)
               /\ ~Restart(u) /\ ~ProbeStep(u)
    BY <1>1, Ids DEF RecoveryBegins, RecoveryGivesUp, TunnelLost, Restart, Goto, ProbeStep,
       ProcessPrints, FindURL, StoreURL
  <2>4. ~Down /\ ~UNCHANGED vars
    BY <1>1, Ids DEF Down, vars
  <2> QED
    BY <2>1, <2>2, <2>3, <2>4, Ids DEF Next, CommandStep, MonitorStep
<1> QED
  BY <1>4, <1>5

(* A start that ends after Up has returned and leaves the tunnel Healthy    *)
(* has put the URL its process printed into the endpoint map: its callback  *)
(* reads it and refreshes the map while the start holds lifecycleMu, so no  *)
(* Prepare of that tunnel intervenes, and only a probe that crossed the     *)
(* last Prepare can have put another URL in its place.                      *)
THEOREM RecoveryIsPublishedHolds == Spec => RecoveryIsPublished
<1> DEFINE Published == \A t \in Tunnels \ crossed :
      cmd # "up" /\ pc[t] # "watch" /\ pc'[t] = "watch" => endpoints'[t] = address[t]
<1>1. ASSUME Inv, [Next]_vars  PROVE Published
  <2> SUFFICES ASSUME NEW t \in Tunnels \ crossed, cmd # "up", pc[t] # "watch",
                      pc'[t] = "watch"
               PROVE  endpoints'[t] = address[t]
    OBVIOUS
  <2>1. PICK x \in Threads :
          /\ on[x] = t /\ FrameReturns(x, TRUE)
          /\ \/ ~callback /\ NotifyHealthy(x)
             \/ url[t] = NoURL /\ ReadURL(x)
             \/ RefreshEndpoint(x) \/ RecordSyncErr(x)
    BY <1>1, OnlyStartsWatch
  <2>2. pc[x] \in StartPCs => Starting(x)
    BY DEF Starting, InUp
  <2>3. CASE ~callback /\ NotifyHealthy(x)
    <3>1. pc[x] = "notify"
      BY <2>3 DEF NotifyHealthy, Goto
    <3>2. phase # "new" /\ pc[Command] # "install"
      BY <1>1 DEF Inv, TypeOK, CommandInv, StartPCs, CallbackPCs, SyncPCs
    <3>3. phase = "abandoned"
      BY <1>1, <2>3, <3>2 DEF Inv, CallbackInv
    <3>4. pc[Command] = "stopped"
      BY <1>1, <3>3 DEF Inv, CommandInv
    <3> QED
      BY <1>1, <3>1, <3>4, Ids DEF Inv, MonitorInv
  <2>4. CASE url[t] = NoURL /\ ReadURL(x)
    BY <1>1, <2>1, <2>2, <2>4 DEF ReadURL, Inv, UrlInv, StartPCs, CallbackPCs
  <2>5. CASE RefreshEndpoint(x)
    <3>1. pc[x] = "sync" /\ current[x] = address[t]
      BY <1>1, <2>1, <2>2, <2>5 DEF RefreshEndpoint, Inv, FreshInv, StartPCs, CallbackPCs
    <3> QED
      BY <1>1, <2>1, <2>5, <3>1 DEF RefreshEndpoint, Inv, TypeOK
  <2>6. CASE RecordSyncErr(x)
    <3>1. endpoints[t] = address[t]
      BY <1>1, <2>1, <2>2, <2>6
      DEF RecordSyncErr, Inv, FreshInv, StartPCs, CallbackPCs, SyncPCs
    <3> QED
      BY <2>6, <3>1 DEF RecordSyncErr
  <2> QED
    BY <2>1, <2>3, <2>4, <2>5, <2>6
<1>2. Inv /\ [Next]_vars => [Published]_vars
  BY <1>1
<1> QED
  BY <1>2, Invariance, PTL DEF Spec, RecoveryIsPublished

(* Once Down has returned, state.json stays what Down left: StopAll has     *)
(* ended every monitor, and no callback is under way.                       *)
THEOREM DownIsLastToSaveHolds == Spec => DownIsLastToSave
<1>1. ASSUME Inv, [Next]_vars, phase = "down"  PROVE disk' = disk
  <2>1. cmd = "none" /\ pc[Command] = "idle" /\ \A t \in Tunnels : pc[t] = "gone"
    BY <1>1 DEF Inv, CommandInv, MonitorInv
  <2>2. ~CommandStep
    BY <2>1 DEF CommandStep, UpCollects, UpSaves, UpAbandons, UpPublishes,
       UpInstallsCallback, UpCallsBack, UpReturns, RestartLocks, DownStops, DownSaves,
       Frame, Prepare, BecomeHealthy, StartFails, NotifyHealthy, Callback,
       ReadURL, RefreshEndpoint, LoadState, SaveState, RecordSyncErr, Goto
  <2>3. ASSUME NEW t \in Tunnels  PROVE ~MonitorStep(t) /\ ~TunnelLost(t)
    BY <2>1 DEF MonitorStep, RecoveryBegins, RecoveryGivesUp, TunnelLost,
       Frame, Prepare, BecomeHealthy, StartFails, NotifyHealthy, Callback,
       ReadURL, RefreshEndpoint, LoadState, SaveState, RecordSyncErr, Goto
  <2>4. Down \/ (\E t \in Tunnels : Restart(t) \/ ProbeStep(t)) \/ UNCHANGED vars
    BY <1>1, <2>2, <2>3 DEF Next
  <2> QED
    BY <2>4 DEF Down, Restart, ProbeStep, ProcessPrints, FindURL, StoreURL, vars
<1>2. Inv /\ [Next]_vars => [phase = "down" /\ phase' = "down" => disk' = disk]_vars
  BY <1>1
<1> QED
  BY <1>2, Invariance, PTL DEF Spec, DownIsLastToSave

=============================================================================

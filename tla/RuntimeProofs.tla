----------------------------- MODULE RuntimeProofs -----------------------------
(***************************************************************************)
(* Proofs about the Runtime, for every set of services, repositories,      *)
(* requests and versions and every bound: its inductive invariant, the     *)
(* invariants that follow from it and the action properties.               *)
(***************************************************************************)
EXTENDS RuntimeInv, TLAPS

(* The steps of module Workspace keep the type of the directories.         *)
LEMMA TreeEdits ==
  ASSUME NEW t \in Tree!Trees
  PROVE /\ [t EXCEPT !.phase = "checkout"] \in Tree!Trees
        /\ [t EXCEPT !.phase = "whole"] \in Tree!Trees
        /\ \A h \in Branches \cup Tags : [t EXCEPT !.head = h] \in Tree!Trees
        /\ \A b \in BOOLEAN : [t EXCEPT !.dirty = b] \in Tree!Trees
BY DEF Tree!Trees

LEMMA TreeUpdate ==
  ASSUME NEW d \in Roots, NEW t \in Tree!Trees, tree \in [Roots -> Tree!Trees],
         tree' = [tree EXCEPT ![d] = t]
  PROVE tree' \in [Roots -> Tree!Trees]
OBVIOUS

LEMMA CloneTypes ==
  ASSUME Tree!WorkspaceTypeOK, NEW d \in Roots,
         Tree!CloneAdvances(d) \/ Tree!CloneFails(d) \/ Tree!CloneKilled(d)
  PROVE Tree!WorkspaceTypeOK'
<1>1. tree \in [Roots -> Tree!Trees] /\ clones \subseteq Roots /\ tree[d] \in Tree!Trees
  BY DEF Tree!WorkspaceTypeOK
<1>2. clones' \subseteq Roots
  BY <1>1 DEF Tree!CloneAdvances, Tree!CloneFails, Tree!CloneKilled
<1>3. Tree!Absent \in Tree!Trees
  BY DEF Tree!Absent, Tree!Trees, Tree!None
<1>4. CASE Tree!CloneAdvances(d)
  <2>1. PICK p \in {"checkout", "whole"} : tree' = [tree EXCEPT ![d] = [@ EXCEPT !.phase = p]]
    BY <1>4, Zenon DEF Tree!CloneAdvances
  <2>2. [tree[d] EXCEPT !.phase = p] \in Tree!Trees
    BY <1>1, TreeEdits
  <2> QED
    BY <1>1, <1>2, <2>1, <2>2, TreeUpdate DEF Tree!WorkspaceTypeOK
<1>5. CASE Tree!CloneFails(d)
  <2>1. tree' = [tree EXCEPT ![d] = Tree!Absent]
    BY <1>5, Zenon DEF Tree!CloneFails
  <2> QED
    BY <1>1, <1>2, <1>3, <2>1, TreeUpdate DEF Tree!WorkspaceTypeOK
<1>6. CASE Tree!CloneKilled(d)
  BY <1>1, <1>2, <1>6 DEF Tree!CloneKilled, Tree!WorkspaceTypeOK
<1> QED
  BY <1>4, <1>5, <1>6

LEMMA EditTypes ==
  ASSUME Tree!WorkspaceTypeOK, NEW d \in Roots,
         \/ Tree!UserEdits(d) \/ Tree!UserCleans(d)
         \/ \E ref \in Branches \cup Tags : Tree!Checkout(d, ref)
  PROVE Tree!WorkspaceTypeOK'
<1>1. tree \in [Roots -> Tree!Trees] /\ clones' \subseteq Roots /\ tree[d] \in Tree!Trees
  BY DEF Tree!WorkspaceTypeOK, Tree!UserEdits, Tree!UserCleans, Tree!Checkout
<1>2. PICK t \in Tree!Trees : tree' = [tree EXCEPT ![d] = t]
  <2>1. CASE Tree!UserEdits(d) \/ Tree!UserCleans(d)
    <3>1. PICK b \in BOOLEAN : tree' = [tree EXCEPT ![d] = [@ EXCEPT !.dirty = b]]
      BY <2>1, Zenon DEF Tree!UserEdits, Tree!UserCleans
    <3> QED
      BY <1>1, <3>1, TreeEdits, Zenon
  <2>2. ASSUME NEW ref \in Branches \cup Tags, Tree!Checkout(d, ref)
        PROVE \E t \in Tree!Trees : tree' = [tree EXCEPT ![d] = t]
    <3>1. tree' = [tree EXCEPT ![d] = [@ EXCEPT !.head = ref]]
      BY <2>2, Zenon DEF Tree!Checkout
    <3> QED
      BY <1>1, <3>1, TreeEdits, Zenon
  <2> QED
    BY <2>1, <2>2
<1> QED
  BY <1>1, <1>2, TreeUpdate DEF Tree!WorkspaceTypeOK

LEMMA CloneBeginsTypes ==
  ASSUME RuntimeAssumption, Tree!WorkspaceTypeOK, NEW r \in Requests,
         Tree!CloneBegins(Root[r.repo], r.repo, r.ref)
  PROVE Tree!WorkspaceTypeOK'
<1> DEFINE d == Root[r.repo]
           asked == IF r.ref = NoRef THEN Main ELSE r.ref
           t == [phase |-> "cloning", origin |-> r.repo, head |-> asked, dirty |-> FALSE,
                 branch |-> IF asked \in Branches THEN asked ELSE Tree!None]
<1>1. r.repo \in Repos /\ r.ref \in Branches \cup Tags \cup {NoRef} /\ Main \in Branches
  BY DEF RuntimeAssumption
<1>2. d \in Roots
  BY <1>1 DEF RuntimeAssumption
<1>3. asked \in Branches \cup Tags
  BY <1>1
<1>4. t \in Tree!Trees
  BY <1>1, <1>3 DEF Tree!Trees
<1>5. tree' = [tree EXCEPT ![d] = t] /\ clones' = clones \cup {d}
  BY Zenon DEF Tree!CloneBegins, Tree!NoRef, NoRef
<1> QED
  BY <1>2, <1>4, <1>5, TreeUpdate DEF Tree!WorkspaceTypeOK

(* What the steps of module Workspace do to the directory they are about.  *)
OnlyAt(d) == \A e \in Roots \ {d} : tree'[e] = tree[e]

LEMMA CloneBeginsStep ==
  ASSUME Tree!WorkspaceTypeOK, NEW d \in Roots, NEW repo, NEW ref, Tree!CloneBegins(d, repo, ref)
  PROVE /\ OnlyAt(d) /\ tree[d].phase = "absent"
        /\ tree'[d].phase = "cloning" /\ tree'[d].origin = repo /\ tree'[d].dirty = FALSE
<1>1. PICK h, b : tree' = [tree EXCEPT ![d] =
        [phase |-> "cloning", origin |-> repo, head |-> h, dirty |-> FALSE, branch |-> b]]
  BY Zenon DEF Tree!CloneBegins
<1> QED
  BY <1>1 DEF Tree!WorkspaceTypeOK, OnlyAt, Tree!CloneBegins, Tree!Exists

LEMMA CloneAdvancesStep ==
  ASSUME Tree!WorkspaceTypeOK, NEW d \in Roots, Tree!CloneAdvances(d)
  PROVE /\ OnlyAt(d) /\ tree'[d].origin = tree[d].origin /\ tree'[d].dirty = tree[d].dirty
        /\ \/ tree[d].phase = "cloning"  /\ tree'[d].phase = "checkout"
           \/ tree[d].phase = "checkout" /\ tree'[d].phase = "whole"
<1>1. tree \in [Roots -> Tree!Trees] /\ tree[d] \in Tree!Trees
  BY DEF Tree!WorkspaceTypeOK
<1>2. PICK p \in {"checkout", "whole"} :
        /\ tree' = [tree EXCEPT ![d] = [@ EXCEPT !.phase = p]]
        /\ tree[d].phase = IF p = "whole" THEN "checkout" ELSE "cloning"
  BY Zenon DEF Tree!CloneAdvances
<1> DEFINE t == [tree[d] EXCEPT !.phase = p]
<1>3. tree'[d] = t /\ OnlyAt(d)
  BY <1>1, <1>2, Zenon DEF OnlyAt
<1>4. t.phase = p /\ t.origin = tree[d].origin /\ t.dirty = tree[d].dirty
  BY <1>1 DEF Tree!Trees
<1> QED
  BY <1>2, <1>3, <1>4

LEMMA CloneFailsStep ==
  ASSUME Tree!WorkspaceTypeOK, NEW d \in Roots, Tree!CloneFails(d)
  PROVE /\ OnlyAt(d) /\ tree[d].phase = "cloning"
        /\ tree'[d].phase = "absent" /\ tree'[d].dirty = FALSE
BY DEF Tree!WorkspaceTypeOK, OnlyAt, Tree!CloneFails, Tree!Absent

LEMMA CheckoutStep ==
  ASSUME Tree!WorkspaceTypeOK, NEW d \in Roots, NEW ref, Tree!Checkout(d, ref)
  PROVE /\ OnlyAt(d) /\ tree'[d].phase = tree[d].phase
        /\ tree'[d].origin = tree[d].origin /\ tree'[d].dirty = tree[d].dirty
<1>1. tree \in [Roots -> Tree!Trees] /\ tree[d] \in Tree!Trees
  BY DEF Tree!WorkspaceTypeOK
<1>2. tree' = [tree EXCEPT ![d] = [@ EXCEPT !.head = ref]]
  BY Zenon DEF Tree!Checkout
<1> DEFINE t == [tree[d] EXCEPT !.head = ref]
<1>3. tree'[d] = t /\ OnlyAt(d)
  BY <1>1, <1>2, Zenon DEF OnlyAt
<1>4. t.phase = tree[d].phase /\ t.origin = tree[d].origin /\ t.dirty = tree[d].dirty
  BY <1>1 DEF Tree!Trees
<1> QED
  BY <1>3, <1>4

LEMMA UserStep ==
  ASSUME Tree!WorkspaceTypeOK, DirtyInv, NEW d \in Roots, Tree!UserEdits(d) \/ Tree!UserCleans(d)
  PROVE /\ OnlyAt(d) /\ tree'[d].phase = tree[d].phase /\ tree'[d].origin = tree[d].origin
        /\ tree[d].phase \in {"checkout", "whole"}
<1>1. tree \in [Roots -> Tree!Trees] /\ tree[d] \in Tree!Trees
  BY DEF Tree!WorkspaceTypeOK
<1>2. PICK b : tree' = [tree EXCEPT ![d] = [@ EXCEPT !.dirty = b]]
  BY Zenon DEF Tree!UserEdits, Tree!UserCleans
<1> DEFINE t == [tree[d] EXCEPT !.dirty = b]
<1>3. tree'[d] = t /\ OnlyAt(d)
  BY <1>1, <1>2, Zenon DEF OnlyAt
<1>4. t.phase = tree[d].phase /\ t.origin = tree[d].origin
  BY <1>1 DEF Tree!Trees
<1>5. tree[d].phase \in {"checkout", "whole"}
  BY DEF Tree!UserEdits, Tree!UserCleans, Tree!HasHead, DirtyInv
<1> QED
  BY <1>3, <1>4, <1>5

(* A composition starts its service as it says, and nothing else.          *)
LEMMA StartsProcess ==
  ASSUME RuntimeAssumption, ManagerTypes, FlowInv, ToolInv, Composed,
         NEW s \in Services, Starts(s)
  PROVE /\ state'[s] = "healthy" /\ alive'[s] # NoProcess
        /\ alive'[s] = [root |-> mgr.root, version |-> rt.version, password |-> mgr.password]
        /\ \A u \in Services \ {s} : alive'[u] = alive[u] /\ state'[u] = state[u]
<1>1. bin[s] = rt.version /\ rt.version \in Nat \ {0}
  BY DEF ToolInv, FlowInv, Composed, Preparing, RuntimeAssumption
<1> DEFINE p == [root |-> mgr.root, version |-> rt.version, password |-> mgr.password]
<1>2. alive' = [alive EXCEPT ![s] = p] /\ state' = [state EXCEPT ![s] = "healthy"]
  BY <1>1, Zenon DEF Starts
<1>3. p # NoProcess
  BY <1>1 DEF NoProcess
<1> QED
  BY <1>2, <1>3 DEF ManagerTypes

LEMMA StopAllStep ==
  ASSUME StopAll PROVE \A s \in Services : state'[s] = "stopped" /\ alive'[s] = NoProcess
BY DEF StopAll, NoneAlive

LEMMA DaemonGoneStep ==
  ASSUME DaemonGone
  PROVE /\ rt'.managed = FALSE /\ rt'.running = FALSE /\ rt'.terminal = FALSE
        /\ rt'.down = "never"
        /\ pc' = "idle" /\ answer' = "lost" /\ prior' = FALSE /\ died' = TRUE
        /\ \A s \in Services : state'[s] = "absent" /\ alive'[s] = NoProcess
BY DEF DaemonGone, NewRuntime, NewManager, NoneAlive, Answer

LEMMA SavesCredentialsStep ==
  ASSUME RtTypes, UpSavesCredentials
  PROVE /\ rt'.managed = rt.managed /\ rt'.running = rt.running
        /\ rt'.version = rt.version /\ rt'.terminal = rt.terminal /\ rt'.down = rt.down
        /\ pc = "credentials"
        /\ \/ pc' = "inspect" /\ saved' = rt'.password /\ UNCHANGED <<req, todo, prior, answer>>
           \/ pc' = "idle" /\ answer' = "error" /\ prior' = FALSE /\ fault' = TRUE /\ rt' = rt
<1>1. \E n : rt' = [rt EXCEPT !.password = n]
  <2>1. rt = [rt EXCEPT !.password = rt.password]
    BY DEF RtTypes
  <2> QED
    BY <2>1, Zenon DEF UpSavesCredentials
<1>2. /\ rt'.managed = rt.managed /\ rt'.running = rt.running
      /\ rt'.version = rt.version /\ rt'.terminal = rt.terminal /\ rt'.down = rt.down
  BY <1>1 DEF RtTypes
<1>3. \/ \E n : /\ pc' = "inspect" /\ saved' = n /\ rt' = [rt EXCEPT !.password = n]
                /\ UNCHANGED <<localVars, answer>>
      \/ pc' = "idle" /\ answer' = "error" /\ prior' = FALSE /\ fault' = TRUE /\ UNCHANGED rt
  BY Zenon DEF UpSavesCredentials, Answer
<1>4. pc = "credentials"
  BY Zenon DEF UpSavesCredentials
<1> QED
  BY <1>2, <1>3, <1>4 DEF RtTypes, localVars

(* Nothing runs without a composition.                                     *)
LEMMA NoneUncomposed ==
  ASSUME ServiceInv, ~Composed PROVE \A s \in Services : alive[s] = NoProcess
BY DEF ServiceInv, Active

(* No step but git clone's own changes whose clone a directory is, and     *)
(* none takes its commit away.                                             *)
Keeps(d) ==
  /\ Tree!HasHead(d) => Tree!HasHead(d)'
  /\ Tree!Exists(d)' => Tree!Exists(d) /\ tree'[d].origin = tree[d].origin

LEMMA TreeStepKeeps ==
  ASSUME Tree!WorkspaceTypeOK, DirtyInv, NEW e \in Roots,
         \/ \E d \in Roots : \/ Tree!CloneAdvances(d) \/ Tree!CloneFails(d)
                             \/ Tree!UserEdits(d) \/ Tree!UserCleans(d)
         \/ UNCHANGED tree
  PROVE Keeps(e)
<1>1. CASE UNCHANGED tree
  BY <1>1 DEF Keeps, Tree!HasHead, Tree!Exists
<1>2. ASSUME NEW d \in Roots, Tree!CloneAdvances(d) PROVE Keeps(e)
  BY <1>2, CloneAdvancesStep DEF Keeps, OnlyAt, Tree!HasHead, Tree!Exists
<1>3. ASSUME NEW d \in Roots, Tree!CloneFails(d) PROVE Keeps(e)
  BY <1>3, CloneFailsStep DEF Keeps, OnlyAt, Tree!HasHead, Tree!Exists
<1>4. ASSUME NEW d \in Roots, Tree!UserEdits(d) \/ Tree!UserCleans(d) PROVE Keeps(e)
  BY <1>4, UserStep DEF Keeps, OnlyAt, Tree!HasHead, Tree!Exists
<1> QED
  BY <1>1, <1>2, <1>3, <1>4

-----------------------------------------------------------------------------
(* Each part of the type invariant is kept.                                *)

LEMMA CountTypesKept ==
  ASSUME CountTypes, CountInv, [Next]_vars PROVE CountTypes'
<1> USE RuntimeAssumption DEF CountTypes, CountInv, treeVars, toolVars, files, mgrVars,
                              countVars, localVars
<1>1. ASSUME UpStep PROVE CountTypes'
  <2>0. UNCHANGED <<ending, countVars>>
    BY <1>1 DEF UpStep
  <2>1. CASE UpWhileRunning \/ UpIsRefused \/ UpLoadsVersions \/ UpLoadsCredentials \/
             UpSavesCredentials \/ UpClones \/ UpFindsTree \/ UpAwaitsClone \/
             UpInspectsTree \/ UpChecksOut \/ UpReadsHead \/ UpDownloads \/ UpInstalls \/
             UpComposes \/ UpFails \/ (\E s \in Services : UpStarts(s)) \/
             (\E s \in Services : UpStartFails(s)) \/ UpPublishes \/ UpSaveFails
    BY <2>1, <2>0 DEF UpWhileRunning, UpIsRefused, UpLoadsVersions, UpLoadsCredentials,
                      UpSavesCredentials, UpClones, UpFindsTree, UpAwaitsClone,
                      UpInspectsTree, UpChecksOut, UpReadsHead, UpDownloads, UpInstalls,
                      UpComposes, UpFails, UpStarts, UpStartFails, UpPublishes,
                      UpSaveFails
  <2> QED
    BY <1>1, <2>1 DEF UpStep
<1>2. ASSUME DownStep PROVE CountTypes'
  <2>0. UNCHANGED <<treeVars, toolVars, mgrVars, countVars, passwords>>
    BY <1>2 DEF DownStep
  <2>1. CASE DownDestroys \/ DownDestroyFails \/ DownClears \/ DownClearFails
    BY <2>1, <2>0 DEF DownDestroys, DownDestroyFails, DownClears, DownClearFails
  <2> QED
    BY <1>2, <2>1 DEF DownStep
<1>3. ASSUME Monitor PROVE CountTypes'
  <2>0. UNCHANGED <<treeVars, toolVars, files, rt, ending, mgr, pc, localVars, countVars,
                    passwords, answer, fault>>
    BY <1>3 DEF Monitor
  <2>1. CASE \E s \in Services : ServiceExits(s) \/ NoticesExit(s) \/ Recovers(s)
    BY <2>1, <2>0 DEF ServiceExits, NoticesExit, Recovers
  <2> QED
    BY <1>3, <2>1 DEF Monitor
<1>4. CASE (\E r \in Requests : UpBegins(r)) \/ (\E s \in Services : Restart(s)) \/
           DownStops \/ DownAgain \/ Git \/ User
  BY <1>4 DEF UpBegins, Restart, DownStops, DownAgain, Git, User
<1>5. CASE StatusPanics
  BY <1>5 DEF StatusPanics, DaemonGone
<1>6. CASE DaemonEnds
  BY <1>6 DEF DaemonEnds, DaemonGone
<1>7. CASE DaemonKilled
  BY <1>7 DEF DaemonKilled, DaemonGone
<1>8. CASE UNCHANGED vars
  BY <1>8 DEF vars
<1> QED
  BY <1>1, <1>2, <1>3, <1>4, <1>5, <1>6, <1>7, <1>8 DEF Next

LEMMA FlagTypesKept ==
  ASSUME FlagTypes, [Next]_vars PROVE FlagTypes'
<1> USE DEF FlagTypes, treeVars, toolVars, files, mgrVars, countVars, localVars
<1>1. ASSUME UpStep PROVE FlagTypes'
  <2>0. UNCHANGED <<ending, countVars>>
    BY <1>1 DEF UpStep
  <2>1. CASE UpWhileRunning \/ UpIsRefused \/ UpLoadsVersions \/ UpLoadsCredentials \/
             UpSavesCredentials \/ UpClones \/ UpFindsTree \/ UpAwaitsClone \/
             UpInspectsTree \/ UpChecksOut \/ UpReadsHead \/ UpDownloads \/ UpInstalls \/
             UpComposes \/ UpFails \/ (\E s \in Services : UpStarts(s)) \/
             (\E s \in Services : UpStartFails(s)) \/ UpPublishes \/ UpSaveFails
    BY <2>1, <2>0 DEF UpWhileRunning, UpIsRefused, UpLoadsVersions, UpLoadsCredentials,
                      UpSavesCredentials, UpClones, UpFindsTree, UpAwaitsClone,
                      UpInspectsTree, UpChecksOut, UpReadsHead, UpDownloads, UpInstalls,
                      UpComposes, UpFails, UpStarts, UpStartFails, UpPublishes,
                      UpSaveFails
  <2> QED
    BY <1>1, <2>1 DEF UpStep
<1>2. ASSUME DownStep PROVE FlagTypes'
  <2>0. UNCHANGED <<treeVars, toolVars, mgrVars, countVars, passwords>>
    BY <1>2 DEF DownStep
  <2>1. CASE DownDestroys \/ DownDestroyFails \/ DownClears \/ DownClearFails
    BY <2>1, <2>0 DEF DownDestroys, DownDestroyFails, DownClears, DownClearFails
  <2> QED
    BY <1>2, <2>1 DEF DownStep
<1>3. ASSUME Monitor PROVE FlagTypes'
  <2>0. UNCHANGED <<treeVars, toolVars, files, rt, ending, mgr, pc, localVars, countVars,
                    passwords, answer, fault>>
    BY <1>3 DEF Monitor
  <2>1. CASE \E s \in Services : ServiceExits(s) \/ NoticesExit(s) \/ Recovers(s)
    BY <2>1, <2>0 DEF ServiceExits, NoticesExit, Recovers
  <2> QED
    BY <1>3, <2>1 DEF Monitor
<1>4. CASE (\E r \in Requests : UpBegins(r)) \/ (\E s \in Services : Restart(s)) \/
           DownStops \/ DownAgain \/ Git \/ User
  BY <1>4 DEF UpBegins, Restart, DownStops, DownAgain, Git, User
<1>5. CASE StatusPanics
  BY <1>5 DEF StatusPanics, DaemonGone
<1>6. CASE DaemonEnds
  BY <1>6 DEF DaemonEnds, DaemonGone
<1>7. CASE DaemonKilled
  BY <1>7 DEF DaemonKilled, DaemonGone
<1>8. CASE UNCHANGED vars
  BY <1>8 DEF vars
<1> QED
  BY <1>1, <1>2, <1>3, <1>4, <1>5, <1>6, <1>7, <1>8 DEF Next

LEMMA HandlerTypesKept ==
  ASSUME HandlerTypes, FileTypes, [Next]_vars PROVE HandlerTypes'
<1> USE DEF HandlerTypes, PCs, treeVars, toolVars, files, mgrVars, countVars, localVars
<1>1. ASSUME UpStep PROVE HandlerTypes'
  <2>0. UNCHANGED <<ending, countVars>>
    BY <1>1 DEF UpStep
  <2>1. CASE UpWhileRunning
    BY <2>1, <2>0 DEF UpWhileRunning, Answer, NoRequest
  <2>2. CASE UpIsRefused
    BY <2>2, <2>0 DEF UpIsRefused, Answer, NoRequest
  <2>3. CASE UpLoadsVersions \/ UpLoadsCredentials \/ (\E s \in Services : UpStarts(s))
    BY <2>3, <2>0 DEF UpLoadsVersions, Goto, UpLoadsCredentials, UpStarts
  <2>4. CASE UpSavesCredentials
    BY <2>4, <2>0 DEF UpSavesCredentials, Answer, NoRequest, Passwords
  <2>5. CASE UpClones
    BY <2>5, <2>0 DEF UpClones, Goto, Dir, Tree!CloneBegins, Tree!Exists
  <2>6. CASE UpFindsTree
    BY <2>6, <2>0 DEF UpFindsTree, Goto, Dir, Tree!Exists
  <2>7. CASE UpAwaitsClone
    BY <2>7, <2>0 DEF UpAwaitsClone, Answer, NoRequest, Dir, Tree!CloneFails,
                      Tree!CloneKilled
  <2>8. CASE UpInspectsTree
    BY <2>8, <2>0 DEF UpInspectsTree, Answer, NoRequest, Dir, Tree!SameOrigin, Tree!Exists
  <2>9. CASE UpChecksOut
    BY <2>9, <2>0 DEF UpChecksOut, Answer, NoRequest, Dir, Tree!Checkout,
                      Tree!CheckoutRefused, Tree!Resolves, Tree!HasHead,
                      Tree!workspaceVars
  <2>10. CASE UpReadsHead
    BY <2>10, <2>0 DEF UpReadsHead, Answer, NoRequest, Dir
  <2>11. CASE UpDownloads
    BY <2>11, <2>0 DEF UpDownloads, Goto, Tool!Download
  <2>12. CASE UpInstalls
    BY <2>12, <2>0 DEF UpInstalls, Answer, NoRequest, Tool!Discard, Tool!Place,
                       Tool!DigestMatches
  <2>13. CASE UpComposes
    BY <2>13, <2>0 DEF UpComposes, Goto, Dir
  <2>14. CASE UpFails
    BY <2>14, <2>0 DEF UpFails, Answer, NoRequest, Tool!Discard
  <2>15. ASSUME NEW s \in Services, UpStartFails(s) PROVE HandlerTypes'
    BY <2>15, <2>0 DEF UpStartFails, Answer, NoRequest, StopAll
  <2>16. CASE UpPublishes
    BY <2>16, <2>0 DEF UpPublishes, Answer, NoRequest
  <2>17. CASE UpSaveFails
    BY <2>17, <2>0 DEF UpSaveFails, Answer, NoRequest, StopAll
  <2> QED
    BY <1>1, <2>1, <2>2, <2>3, <2>4, <2>5, <2>6, <2>7, <2>8, <2>9, <2>10, <2>11, <2>12,
       <2>13, <2>14, <2>15, <2>16, <2>17 DEF UpStep
<1>2. ASSUME DownStep PROVE HandlerTypes'
  <2>0. UNCHANGED <<treeVars, toolVars, mgrVars, countVars, passwords>>
    BY <1>2 DEF DownStep
  <2>1. CASE DownDestroys
    BY <2>1, <2>0 DEF DownDestroys, Goto
  <2>2. CASE DownDestroyFails
    BY <2>2, <2>0 DEF DownDestroyFails, Answer, NoRequest
  <2>3. CASE DownClears
    BY <2>3, <2>0 DEF DownClears, Answer, NoRequest
  <2>4. CASE DownClearFails
    BY <2>4, <2>0 DEF DownClearFails, Answer, NoRequest
  <2> QED
    BY <1>2, <2>1, <2>2, <2>3, <2>4 DEF DownStep
<1>3. ASSUME Monitor PROVE HandlerTypes'
  <2>0. UNCHANGED <<treeVars, toolVars, files, rt, ending, mgr, pc, localVars, countVars,
                    passwords, answer, fault>>
    BY <1>3 DEF Monitor
  <2>1. CASE \E s \in Services : ServiceExits(s) \/ NoticesExit(s) \/ Recovers(s)
    BY <2>1, <2>0 DEF ServiceExits, NoticesExit, Recovers
  <2> QED
    BY <1>3, <2>1 DEF Monitor
<1>4. ASSUME NEW r \in Requests, UpBegins(r) PROVE HandlerTypes'
  BY <1>4 DEF UpBegins, Goto, NoRequest
<1>5. ASSUME NEW s \in Services, Restart(s) PROVE HandlerTypes'
  BY <1>5 DEF Restart, Restarts
<1>6. CASE StatusPanics
  BY <1>6 DEF StatusPanics, DaemonGone, Answer, NoRequest
<1>7. CASE DownStops
  BY <1>7 DEF DownStops, StopAll, FileTypes
<1>8. CASE DownAgain
  BY <1>8 DEF DownAgain
<1>9. CASE Git
  BY <1>9 DEF Git, Tree!CloneAdvances, Tree!CloneFails, Tree!CloneKilled
<1>10. CASE User
  BY <1>10 DEF User, UserEndsSession, UserChanges, Tree!UserEdits, Tree!UserCleans
<1>11. CASE DaemonEnds
  BY <1>11 DEF DaemonEnds, DaemonGone, Answer, NoRequest
<1>12. CASE DaemonKilled
  BY <1>12 DEF DaemonKilled, DaemonGone, Answer, NoRequest
<1>13. CASE UNCHANGED vars
  BY <1>13 DEF vars
<1> QED
  BY <1>1, <1>2, <1>3, <1>4, <1>5, <1>6, <1>7, <1>8, <1>9, <1>10, <1>11, <1>12, <1>13 DEF Next

LEMMA FileTypesKept ==
  ASSUME FileTypes, RtTypes, ManagerTypes, CountTypes, CountInv, [Next]_vars PROVE FileTypes'
<1> USE RuntimeAssumption DEF FileTypes, Passwords, treeVars, toolVars, files, mgrVars,
                              countVars, localVars
<1>1. ASSUME UpStep PROVE FileTypes'
  <2>0. UNCHANGED <<ending, countVars>>
    BY <1>1 DEF UpStep
  <2>1. CASE UpWhileRunning \/ UpIsRefused \/ UpLoadsVersions \/ UpLoadsCredentials \/
             UpClones \/ UpFindsTree \/ UpAwaitsClone \/ UpInspectsTree \/ UpChecksOut \/
             UpReadsHead \/ UpDownloads \/ UpInstalls \/ UpComposes \/ UpFails
    BY <2>1, <2>0 DEF UpWhileRunning, UpIsRefused, UpLoadsVersions, UpLoadsCredentials,
                      UpClones, UpFindsTree, UpAwaitsClone, UpInspectsTree, UpChecksOut,
                      UpReadsHead, UpDownloads, UpInstalls, UpComposes, UpFails
  <2>2. CASE UpSavesCredentials
    BY <2>2, <2>0 DEF UpSavesCredentials, RtTypes, CountTypes, CountInv, NoPassword
  <2>3. ASSUME NEW s \in Services, UpStarts(s) PROVE FileTypes'
    BY <2>3, <2>0 DEF UpStarts, Starts, SessionFor, ManagerTypes
  <2>4. ASSUME NEW s \in Services, UpStartFails(s) PROVE FileTypes'
    BY <2>4, <2>0 DEF UpStartFails, SessionFor, ManagerTypes
  <2>5. CASE UpPublishes
    BY <2>5, <2>0 DEF UpPublishes, Answer
  <2>6. CASE UpSaveFails
    <3>1. [exists |-> TRUE, healthy |-> {s \in Services : state[s] = "healthy"}]
            \in [exists : BOOLEAN, healthy : SUBSET Services]
      OBVIOUS
    <3> QED
      BY <2>6, <2>0, <3>1 DEF UpSaveFails
  <2> QED
    BY <1>1, <2>1, <2>2, <2>3, <2>4, <2>5, <2>6 DEF UpStep
<1>2. ASSUME DownStep PROVE FileTypes'
  <2>0. UNCHANGED <<treeVars, toolVars, mgrVars, countVars, passwords>>
    BY <1>2 DEF DownStep
  <2>1. CASE DownDestroys \/ DownDestroyFails \/ DownClears \/ DownClearFails
    BY <2>1, <2>0 DEF DownDestroys, DownDestroyFails, DownClears, DownClearFails
  <2> QED
    BY <1>2, <2>1 DEF DownStep
<1>3. ASSUME Monitor PROVE FileTypes'
  <2>0. UNCHANGED <<treeVars, toolVars, files, rt, ending, mgr, pc, localVars, countVars,
                    passwords, answer, fault>>
    BY <1>3 DEF Monitor
  <2>1. ASSUME NEW s \in Services, ServiceExits(s) \/ NoticesExit(s) PROVE FileTypes'
    BY <2>1, <2>0 DEF ServiceExits, NoticesExit
  <2>2. ASSUME NEW s \in Services, Recovers(s) PROVE FileTypes'
    BY <2>2, <2>0 DEF Recovers, Starts, SessionFor, ManagerTypes
  <2> QED
    BY <1>3, <2>1, <2>2 DEF Monitor
<1>4. CASE (\E r \in Requests : UpBegins(r)) \/ DownStops \/ DownAgain \/ Git
  BY <1>4 DEF UpBegins, DownStops, DownAgain, Git
<1>5. ASSUME NEW s \in Services, Restart(s) PROVE FileTypes'
  BY <1>5 DEF Restart, Restarts, Starts, SessionFor, ManagerTypes
<1>6. CASE StatusPanics
  BY <1>6 DEF StatusPanics, DaemonGone
<1>7. CASE User
  BY <1>7 DEF User, UserEndsSession, UserChanges
<1>8. CASE DaemonEnds
  BY <1>8 DEF DaemonEnds, DaemonGone
<1>9. CASE DaemonKilled
  BY <1>9 DEF DaemonKilled, DaemonGone
<1>10. CASE UNCHANGED vars
  BY <1>10 DEF vars
<1> QED
  BY <1>1, <1>2, <1>3, <1>4, <1>5, <1>6, <1>7, <1>8, <1>9, <1>10 DEF Next

LEMMA RtTypesKept ==
  ASSUME RtTypes, FileTypes, HandlerTypes, CountTypes, CountInv, [Next]_vars PROVE RtTypes'
<1> USE RuntimeAssumption DEF RtTypes, treeVars, toolVars, files, mgrVars, countVars,
                              localVars
<1>1. ASSUME UpStep PROVE RtTypes'
  <2>0. UNCHANGED <<ending, countVars>>
    BY <1>1 DEF UpStep
  <2>1. CASE UpWhileRunning \/ UpIsRefused \/ UpClones \/ UpFindsTree \/ UpAwaitsClone \/
             UpInspectsTree \/ UpChecksOut \/ UpReadsHead \/ UpDownloads \/ UpInstalls \/
             UpComposes \/ UpFails \/ (\E s \in Services : UpStarts(s)) \/
             (\E s \in Services : UpStartFails(s)) \/ UpSaveFails
    BY <2>1, <2>0 DEF UpWhileRunning, UpIsRefused, UpClones, UpFindsTree, UpAwaitsClone,
                      UpInspectsTree, UpChecksOut, UpReadsHead, UpDownloads, UpInstalls,
                      UpComposes, UpFails, UpStarts, UpStartFails, UpSaveFails
  <2>2. CASE UpLoadsVersions
    BY <2>2, <2>0 DEF UpLoadsVersions, HandlerTypes, Goto, PCs
  <2>3. CASE UpLoadsCredentials
    BY <2>3, <2>0 DEF UpLoadsCredentials, FileTypes
  <2>4. CASE UpSavesCredentials
    BY <2>4, <2>0 DEF UpSavesCredentials, CountTypes, CountInv, Passwords
  <2>5. CASE UpPublishes
    BY <2>5, <2>0 DEF UpPublishes, HandlerTypes
  <2> QED
    BY <1>1, <2>1, <2>2, <2>3, <2>4, <2>5 DEF UpStep
<1>2. ASSUME DownStep PROVE RtTypes'
  <2>0. UNCHANGED <<treeVars, toolVars, mgrVars, countVars, passwords>>
    BY <1>2 DEF DownStep
  <2>1. CASE DownDestroys \/ DownDestroyFails \/ DownClears \/ DownClearFails
    BY <2>1, <2>0 DEF DownDestroys, DownDestroyFails, DownClears, DownClearFails
  <2> QED
    BY <1>2, <2>1 DEF DownStep
<1>3. ASSUME Monitor PROVE RtTypes'
  <2>0. UNCHANGED <<treeVars, toolVars, files, rt, ending, mgr, pc, localVars, countVars,
                    passwords, answer, fault>>
    BY <1>3 DEF Monitor
  <2>1. CASE \E s \in Services : ServiceExits(s) \/ NoticesExit(s) \/ Recovers(s)
    BY <2>1, <2>0 DEF ServiceExits, NoticesExit, Recovers
  <2> QED
    BY <1>3, <2>1 DEF Monitor
<1>4. CASE (\E r \in Requests : UpBegins(r)) \/ (\E s \in Services : Restart(s)) \/
           DownStops \/ DownAgain \/ Git \/ User
  BY <1>4 DEF UpBegins, Restart, DownStops, DownAgain, Git, User
<1>5. CASE StatusPanics
  BY <1>5 DEF StatusPanics, DaemonGone, NewRuntime, NoPassword, Passwords
<1>6. CASE DaemonEnds
  BY <1>6 DEF DaemonEnds, DaemonGone, NewRuntime, NoPassword, Passwords
<1>7. CASE DaemonKilled
  BY <1>7 DEF DaemonKilled, DaemonGone, NewRuntime, NoPassword, Passwords
<1>8. CASE UNCHANGED vars
  BY <1>8 DEF vars
<1> QED
  BY <1>1, <1>2, <1>3, <1>4, <1>5, <1>6, <1>7, <1>8 DEF Next

LEMMA ManagerTypesKept ==
  ASSUME ManagerTypes, RtTypes, Tool!InstallerTypeOK, HandlerTypes, [Next]_vars
  PROVE ManagerTypes'
<1> USE RuntimeAssumption DEF ManagerTypes, Processes, treeVars, toolVars, files, mgrVars,
                              countVars, localVars
<1>1. ASSUME UpStep PROVE ManagerTypes'
  <2>0. UNCHANGED <<ending, countVars>>
    BY <1>1 DEF UpStep
  <2>1. CASE UpWhileRunning \/ UpIsRefused \/ UpLoadsVersions \/ UpLoadsCredentials \/
             UpSavesCredentials \/ UpClones \/ UpFindsTree \/ UpAwaitsClone \/
             UpInspectsTree \/ UpChecksOut \/ UpReadsHead \/ UpDownloads \/ UpInstalls \/
             UpFails \/ UpPublishes
    BY <2>1, <2>0 DEF UpWhileRunning, UpIsRefused, UpLoadsVersions, UpLoadsCredentials,
                      UpSavesCredentials, UpClones, UpFindsTree, UpAwaitsClone,
                      UpInspectsTree, UpChecksOut, UpReadsHead, UpDownloads, UpInstalls,
                      UpFails, UpPublishes
  <2>2. CASE UpComposes
    BY <2>2, <2>0 DEF UpComposes, Dir, NewManager, RtTypes, HandlerTypes, Goto, PCs
  <2>3. ASSUME NEW s \in Services, UpStarts(s) PROVE ManagerTypes'
    BY <2>3, <2>0 DEF UpStarts, Starts, Tool!InstallerTypeOK
  <2>4. ASSUME NEW s \in Services, UpStartFails(s) PROVE ManagerTypes'
    BY <2>4, <2>0 DEF UpStartFails, StopAll, NoneAlive, NoProcess, Passwords, NoPassword,
                      Tool!Contents, Tool!Missing
  <2>5. CASE UpSaveFails
    BY <2>5, <2>0 DEF UpSaveFails, StopAll, NoneAlive, NoProcess, Passwords, NoPassword,
                      Tool!Contents, Tool!Missing
  <2> QED
    BY <1>1, <2>1, <2>2, <2>3, <2>4, <2>5 DEF UpStep
<1>2. ASSUME DownStep PROVE ManagerTypes'
  <2>0. UNCHANGED <<treeVars, toolVars, mgrVars, countVars, passwords>>
    BY <1>2 DEF DownStep
  <2>1. CASE DownDestroys \/ DownDestroyFails \/ DownClears \/ DownClearFails
    BY <2>1, <2>0 DEF DownDestroys, DownDestroyFails, DownClears, DownClearFails
  <2> QED
    BY <1>2, <2>1 DEF DownStep
<1>3. ASSUME Monitor PROVE ManagerTypes'
  <2>0. UNCHANGED <<treeVars, toolVars, files, rt, ending, mgr, pc, localVars, countVars,
                    passwords, answer, fault>>
    BY <1>3 DEF Monitor
  <2>1. ASSUME NEW s \in Services, ServiceExits(s) \/ NoticesExit(s) PROVE ManagerTypes'
    BY <2>1, <2>0 DEF ServiceExits, NoticesExit, NoProcess, Passwords, NoPassword,
                      Tool!Contents, Tool!Missing
  <2>2. ASSUME NEW s \in Services, Recovers(s) PROVE ManagerTypes'
    BY <2>2, <2>0 DEF Recovers, Starts, Tool!InstallerTypeOK
  <2> QED
    BY <1>3, <2>1, <2>2 DEF Monitor
<1>4. CASE (\E r \in Requests : UpBegins(r)) \/ DownAgain \/ Git \/ User
  BY <1>4 DEF UpBegins, DownAgain, Git, User
<1>5. ASSUME NEW s \in Services, Restart(s) PROVE ManagerTypes'
  <2>1. CASE Restarts(s) /\ Starts(s)
    BY <1>5, <2>1 DEF Restart, Starts, Tool!InstallerTypeOK
  <2>2. NoProcess \in Processes
    BY DEF NoProcess, Passwords, NoPassword, Tool!Contents, Tool!Missing
  <2>3. CASE /\ alive' = [alive EXCEPT ![s] = NoProcess]
             /\ state' = [state EXCEPT ![s] = "unhealthy"]
    BY <1>5, <2>2, <2>3 DEF Restart
  <2>4. CASE UNCHANGED <<alive, state>>
    BY <1>5, <2>4 DEF Restart
  <2> QED
    BY <1>5, <2>1, <2>3, <2>4 DEF Restart, Restarts
<1>6. CASE StatusPanics
  BY <1>6 DEF StatusPanics, DaemonGone, NewManager, NoManager, NoneAlive, NoProcess,
              Passwords, NoPassword, Tool!Contents, Tool!Missing
<1>7. CASE DownStops
  BY <1>7 DEF DownStops, StopAll, NoneAlive, NoProcess, Passwords, NoPassword,
              Tool!Contents, Tool!Missing
<1>8. CASE DaemonEnds
  BY <1>8 DEF DaemonEnds, DaemonGone, NewManager, NoManager, NoneAlive, NoProcess,
              Passwords, NoPassword, Tool!Contents, Tool!Missing
<1>9. CASE DaemonKilled
  BY <1>9 DEF DaemonKilled, DaemonGone, NewManager, NoManager, NoneAlive, NoProcess,
              Passwords, NoPassword, Tool!Contents, Tool!Missing
<1>10. CASE UNCHANGED vars
  BY <1>10 DEF vars
<1> QED
  BY <1>1, <1>2, <1>3, <1>4, <1>5, <1>6, <1>7, <1>8, <1>9, <1>10 DEF Next

LEMMA ToolTypesKept ==
  ASSUME Tool!InstallerTypeOK, RtTypes, HandlerTypes, FlowInv, [Next]_vars
  PROVE Tool!InstallerTypeOK'
<1> USE RuntimeAssumption DEF Tool!InstallerTypeOK, Tool!Contents, treeVars, toolVars,
                              files, mgrVars, countVars, localVars
<1>1. ASSUME UpStep PROVE Tool!InstallerTypeOK'
  <2>0. UNCHANGED <<ending, countVars>>
    BY <1>1 DEF UpStep
  <2>1. CASE UpWhileRunning \/ UpIsRefused \/ UpLoadsVersions \/ UpLoadsCredentials \/
             UpSavesCredentials \/ UpClones \/ UpFindsTree \/ UpAwaitsClone \/
             UpInspectsTree \/ UpChecksOut \/ UpReadsHead \/ UpComposes \/
             (\E s \in Services : UpStarts(s)) \/ (\E s \in Services : UpStartFails(s)) \/
             UpPublishes \/ UpSaveFails
    BY <2>1, <2>0 DEF UpWhileRunning, UpIsRefused, UpLoadsVersions, UpLoadsCredentials,
                      UpSavesCredentials, UpClones, UpFindsTree, UpAwaitsClone,
                      UpInspectsTree, UpChecksOut, UpReadsHead, UpComposes, UpStarts,
                      UpStartFails, UpPublishes, UpSaveFails
  <2>2. CASE UpDownloads
    BY <2>2, <2>0 DEF UpDownloads, Goto, Tool!Download, Tool!Corrupt, FlowInv, Preparing
  <2>3. CASE UpInstalls
    BY <2>3, <2>0 DEF UpInstalls, Tool!Discard, Tool!Place, Tool!Missing
  <2>4. CASE UpFails
    BY <2>4, <2>0 DEF UpFails, Tool!Discard, Tool!Missing
  <2> QED
    BY <1>1, <2>1, <2>2, <2>3, <2>4 DEF UpStep
<1>2. ASSUME DownStep PROVE Tool!InstallerTypeOK'
  <2>0. UNCHANGED <<treeVars, toolVars, mgrVars, countVars, passwords>>
    BY <1>2 DEF DownStep
  <2>1. CASE DownDestroys \/ DownDestroyFails \/ DownClears \/ DownClearFails
    BY <2>1, <2>0 DEF DownDestroys, DownDestroyFails, DownClears, DownClearFails
  <2> QED
    BY <1>2, <2>1 DEF DownStep
<1>3. ASSUME Monitor PROVE Tool!InstallerTypeOK'
  <2>0. UNCHANGED <<treeVars, toolVars, files, rt, ending, mgr, pc, localVars, countVars,
                    passwords, answer, fault>>
    BY <1>3 DEF Monitor
  <2>1. CASE \E s \in Services : ServiceExits(s) \/ NoticesExit(s) \/ Recovers(s)
    BY <2>1, <2>0 DEF ServiceExits, NoticesExit, Recovers
  <2> QED
    BY <1>3, <2>1 DEF Monitor
<1>4. CASE (\E r \in Requests : UpBegins(r)) \/ (\E s \in Services : Restart(s)) \/
           DownStops \/ DownAgain \/ Git \/ User
  BY <1>4 DEF UpBegins, Restart, DownStops, DownAgain, Git, User
<1>5. CASE StatusPanics
  BY <1>5 DEF StatusPanics, DaemonGone, Tool!Missing
<1>6. CASE DaemonEnds
  BY <1>6 DEF DaemonEnds, DaemonGone, Tool!Missing
<1>7. CASE DaemonKilled
  BY <1>7 DEF DaemonKilled, DaemonGone, Tool!Missing
<1>8. CASE UNCHANGED vars
  BY <1>8 DEF vars
<1> QED
  BY <1>1, <1>2, <1>3, <1>4, <1>5, <1>6, <1>7, <1>8 DEF Next

LEMMA TreeTypesKept ==
  ASSUME Tree!WorkspaceTypeOK, HandlerTypes, [Next]_vars PROVE Tree!WorkspaceTypeOK'
<1> USE RuntimeAssumption DEF Tree!WorkspaceTypeOK, treeVars, toolVars, files, mgrVars,
                              countVars, localVars
<1>1. ASSUME UpStep PROVE Tree!WorkspaceTypeOK'
  <2>0. UNCHANGED <<ending, countVars>>
    BY <1>1 DEF UpStep
  <2>1. CASE UpWhileRunning \/ UpIsRefused \/ UpLoadsVersions \/ UpLoadsCredentials \/
             UpSavesCredentials \/ UpFindsTree \/ UpInspectsTree \/ UpReadsHead \/
             UpDownloads \/ UpInstalls \/ UpComposes \/ UpFails \/
             (\E s \in Services : UpStarts(s)) \/ (\E s \in Services : UpStartFails(s)) \/
             UpPublishes \/ UpSaveFails
    BY <2>1, <2>0 DEF UpWhileRunning, UpIsRefused, UpLoadsVersions, UpLoadsCredentials,
                      UpSavesCredentials, UpFindsTree, UpInspectsTree, UpReadsHead,
                      UpDownloads, UpInstalls, UpComposes, UpFails, UpStarts,
                      UpStartFails, UpPublishes, UpSaveFails
  <2>2. CASE UpClones
    <3>1. req \in Requests /\ Tree!CloneBegins(Root[req.repo], req.repo, req.ref)
      BY <2>2 DEF UpClones, Goto, Dir, HandlerTypes
    <3> QED
      BY <3>1, CloneBeginsTypes
  <2>3. CASE UpAwaitsClone
    <3>1. Dir \in Roots
      BY <2>3 DEF UpAwaitsClone, Dir, HandlerTypes, RuntimeAssumption
    <3>2. UNCHANGED treeVars \/ Tree!CloneFails(Dir) \/ Tree!CloneKilled(Dir)
      BY <2>3 DEF UpAwaitsClone
    <3> QED
      BY <3>1, <3>2, CloneTypes DEF Tree!WorkspaceTypeOK
  <2>4. CASE UpChecksOut
    <3>1. Dir \in Roots /\ req.ref \in Branches \cup Tags \cup {NoRef}
      BY <2>4 DEF UpChecksOut, Dir, HandlerTypes, RuntimeAssumption
    <3>2. UNCHANGED treeVars \/ Tree!Checkout(Dir, req.ref)
      BY <2>4 DEF UpChecksOut, Tree!CheckoutRefused, Tree!workspaceVars
    <3>3. CASE Tree!Checkout(Dir, req.ref)
      <4>1. tree[Dir].branch \in Branches \cup {Tree!None}
        BY <3>1 DEF Tree!Trees
      <4>2. req.ref \in Branches \cup Tags
        BY <3>1, <3>3, <4>1 DEF Tree!Checkout, Tree!Resolves, Tree!None, NoRef
      <4> QED
        BY <3>1, <3>3, <4>2, EditTypes
    <3> QED
      BY <3>2, <3>3 DEF Tree!WorkspaceTypeOK
  <2> QED
    BY <1>1, <2>1, <2>2, <2>3, <2>4 DEF UpStep
<1>2. ASSUME DownStep PROVE Tree!WorkspaceTypeOK'
  <2>0. UNCHANGED <<treeVars, toolVars, mgrVars, countVars, passwords>>
    BY <1>2 DEF DownStep
  <2>1. CASE DownDestroys \/ DownDestroyFails \/ DownClears \/ DownClearFails
    BY <2>1, <2>0 DEF DownDestroys, DownDestroyFails, DownClears, DownClearFails
  <2> QED
    BY <1>2, <2>1 DEF DownStep
<1>3. ASSUME Monitor PROVE Tree!WorkspaceTypeOK'
  <2>0. UNCHANGED <<treeVars, toolVars, files, rt, ending, mgr, pc, localVars, countVars,
                    passwords, answer, fault>>
    BY <1>3 DEF Monitor
  <2>1. CASE \E s \in Services : ServiceExits(s) \/ NoticesExit(s) \/ Recovers(s)
    BY <2>1, <2>0 DEF ServiceExits, NoticesExit, Recovers
  <2> QED
    BY <1>3, <2>1 DEF Monitor
<1>4. CASE (\E r \in Requests : UpBegins(r)) \/ (\E s \in Services : Restart(s)) \/
           DownStops \/ DownAgain
  BY <1>4 DEF UpBegins, Restart, DownStops, DownAgain
<1>5. CASE StatusPanics
  BY <1>5 DEF StatusPanics, DaemonGone
<1>6. CASE Git
  BY <1>6, CloneTypes DEF Git
<1>7. CASE User
  BY <1>7, EditTypes DEF User, UserEndsSession, UserChanges, Tree!WorkspaceTypeOK
<1>8. CASE DaemonEnds
  BY <1>8 DEF DaemonEnds, DaemonGone
<1>9. CASE DaemonKilled
  BY <1>9 DEF DaemonKilled, DaemonGone
<1>10. CASE UNCHANGED vars
  BY <1>10 DEF vars
<1> QED
  BY <1>1, <1>2, <1>3, <1>4, <1>5, <1>6, <1>7, <1>8, <1>9, <1>10 DEF Next

-----------------------------------------------------------------------------
(* Each part of the inductive invariant is kept.                           *)

LEMMA CountKept ==
  ASSUME CountInv, CountTypes, [Next]_vars PROVE CountInv'
<1> USE RuntimeAssumption DEF CountInv, CountTypes, treeVars, toolVars, files, mgrVars,
                              countVars, localVars
<1>1. ASSUME UpStep PROVE CountInv'
  <2>0. UNCHANGED <<ending, countVars>>
    BY <1>1 DEF UpStep
  <2>1. CASE UpWhileRunning \/ UpIsRefused \/ UpLoadsVersions \/ UpLoadsCredentials \/
             UpSavesCredentials \/ UpClones \/ UpFindsTree \/ UpAwaitsClone \/
             UpInspectsTree \/ UpChecksOut \/ UpReadsHead \/ UpDownloads \/ UpInstalls \/
             UpComposes \/ UpFails \/ (\E s \in Services : UpStarts(s)) \/
             (\E s \in Services : UpStartFails(s)) \/ UpPublishes \/ UpSaveFails
    BY <2>1, <2>0 DEF UpWhileRunning, Answer, UpIsRefused, UpLoadsVersions, Goto,
                      UpLoadsCredentials, UpSavesCredentials, UpClones, UpFindsTree,
                      UpAwaitsClone, UpInspectsTree, UpChecksOut, UpReadsHead,
                      UpDownloads, UpInstalls, UpComposes, UpFails, UpStarts,
                      UpStartFails, UpPublishes, UpSaveFails
  <2> QED
    BY <1>1, <2>1 DEF UpStep
<1>2. ASSUME DownStep PROVE CountInv'
  <2>0. UNCHANGED <<treeVars, toolVars, mgrVars, countVars, passwords>>
    BY <1>2 DEF DownStep
  <2>1. CASE DownDestroys \/ DownDestroyFails \/ DownClears \/ DownClearFails
    BY <2>1, <2>0 DEF DownDestroys, Goto, DownDestroyFails, Answer, DownClears,
                      DownClearFails
  <2> QED
    BY <1>2, <2>1 DEF DownStep
<1>3. ASSUME Monitor PROVE CountInv'
  <2>0. UNCHANGED <<treeVars, toolVars, files, rt, ending, mgr, pc, localVars, countVars,
                    passwords, answer, fault>>
    BY <1>3 DEF Monitor
  <2>1. CASE \E s \in Services : ServiceExits(s) \/ NoticesExit(s) \/ Recovers(s)
    BY <2>1, <2>0 DEF ServiceExits, NoticesExit, Answer, Recovers
  <2> QED
    BY <1>3, <2>1 DEF Monitor
<1>4. CASE (\E r \in Requests : UpBegins(r)) \/ (\E s \in Services : Restart(s)) \/
           DownStops \/ DownAgain \/ Git \/ User
  BY <1>4 DEF UpBegins, Goto, Restart, Answer, DownStops, DownAgain, Git, User
<1>5. CASE StatusPanics
  BY <1>5 DEF StatusPanics, DaemonGone, Answer
<1>6. CASE DaemonEnds
  BY <1>6 DEF DaemonEnds, DaemonGone, Answer
<1>7. CASE DaemonKilled
  BY <1>7 DEF DaemonKilled, DaemonGone, Answer
<1>8. CASE UNCHANGED vars
  BY <1>8 DEF vars
<1> QED
  BY <1>1, <1>2, <1>3, <1>4, <1>5, <1>6, <1>7, <1>8 DEF Next

LEMMA DirtyKept ==
  ASSUME DirtyInv, Tree!WorkspaceTypeOK, HandlerTypes, [Next]_vars PROVE DirtyInv'
<1> USE RuntimeAssumption DEF DirtyInv, treeVars, toolVars, files, mgrVars, countVars,
                              localVars
<1>1. ASSUME UpStep PROVE DirtyInv'
  <2>0. UNCHANGED <<ending, countVars>>
    BY <1>1 DEF UpStep
  <2>1. CASE UpWhileRunning \/ UpIsRefused \/ UpLoadsVersions \/ UpLoadsCredentials \/
             UpSavesCredentials \/ UpFindsTree \/ UpInspectsTree \/ UpReadsHead \/
             UpDownloads \/ UpInstalls \/ UpComposes \/ UpFails \/
             (\E s \in Services : UpStarts(s)) \/ (\E s \in Services : UpStartFails(s)) \/
             UpPublishes \/ UpSaveFails
    BY <2>1, <2>0 DEF UpWhileRunning, UpIsRefused, UpLoadsVersions, UpLoadsCredentials,
                      UpSavesCredentials, UpFindsTree, UpInspectsTree, UpReadsHead,
                      UpDownloads, UpInstalls, UpComposes, UpFails, UpStarts,
                      UpStartFails, UpPublishes, UpSaveFails
  <2>2. CASE UpClones
    <3>1. Dir \in Roots /\ Tree!CloneBegins(Dir, req.repo, req.ref)
      BY <2>2 DEF UpClones, Goto, Dir, HandlerTypes, RuntimeAssumption
    <3> QED
      BY <3>1, CloneBeginsStep DEF OnlyAt
  <2>3. CASE UpAwaitsClone
    <3>1. Dir \in Roots
      BY <2>3 DEF UpAwaitsClone, Dir, HandlerTypes, RuntimeAssumption
    <3>2. UNCHANGED tree \/ Tree!CloneFails(Dir)
      BY <2>3 DEF UpAwaitsClone, Tree!CloneKilled
    <3> QED
      BY <3>1, <3>2, CloneFailsStep DEF OnlyAt
  <2>4. CASE UpChecksOut
    <3>1. Dir \in Roots
      BY <2>4 DEF UpChecksOut, Dir, HandlerTypes, RuntimeAssumption
    <3>2. UNCHANGED tree \/ Tree!Checkout(Dir, req.ref)
      BY <2>4 DEF UpChecksOut, Tree!CheckoutRefused, Tree!workspaceVars
    <3> QED
      BY <3>1, <3>2, CheckoutStep DEF OnlyAt
  <2> QED
    BY <1>1, <2>1, <2>2, <2>3, <2>4 DEF UpStep
<1>2. ASSUME DownStep PROVE DirtyInv'
  <2>0. UNCHANGED <<treeVars, toolVars, mgrVars, countVars, passwords>>
    BY <1>2 DEF DownStep
  <2>1. CASE DownDestroys \/ DownDestroyFails \/ DownClears \/ DownClearFails
    BY <2>1, <2>0 DEF DownDestroys, DownDestroyFails, DownClears, DownClearFails
  <2> QED
    BY <1>2, <2>1 DEF DownStep
<1>3. ASSUME Monitor PROVE DirtyInv'
  <2>0. UNCHANGED <<treeVars, toolVars, files, rt, ending, mgr, pc, localVars, countVars,
                    passwords, answer, fault>>
    BY <1>3 DEF Monitor
  <2>1. CASE \E s \in Services : ServiceExits(s) \/ NoticesExit(s) \/ Recovers(s)
    BY <2>1, <2>0 DEF ServiceExits, NoticesExit, Recovers
  <2> QED
    BY <1>3, <2>1 DEF Monitor
<1>4. CASE (\E r \in Requests : UpBegins(r)) \/ (\E s \in Services : Restart(s)) \/
           DownStops \/ DownAgain
  BY <1>4 DEF UpBegins, Restart, DownStops, DownAgain
<1>5. CASE StatusPanics
  BY <1>5 DEF StatusPanics, DaemonGone
<1>6. CASE Git
  <2>1. PICK d \in Roots : Tree!CloneAdvances(d) \/ Tree!CloneFails(d) \/ UNCHANGED tree
    BY <1>6 DEF Git, Tree!CloneKilled
  <2> QED
    BY <2>1, CloneAdvancesStep, CloneFailsStep DEF OnlyAt
<1>7. CASE User
  <2>1. UNCHANGED tree \/ \E d \in Roots : Tree!UserEdits(d) \/ Tree!UserCleans(d)
    BY <1>7 DEF User, UserEndsSession, UserChanges
  <2> QED
    BY <2>1, UserStep DEF OnlyAt
<1>8. CASE DaemonEnds
  BY <1>8 DEF DaemonEnds, DaemonGone
<1>9. CASE DaemonKilled
  BY <1>9 DEF DaemonKilled, DaemonGone
<1>10. CASE UNCHANGED vars
  BY <1>10 DEF vars
<1> QED
  BY <1>1, <1>2, <1>3, <1>4, <1>5, <1>6, <1>7, <1>8, <1>9, <1>10 DEF Next

LEMMA FlowKept ==
  ASSUME FlowInv, RtTypes, HandlerTypes, [Next]_vars PROVE FlowInv'
<1> USE RuntimeAssumption DEF FlowInv, Preparing, Composed, RtTypes, treeVars, toolVars,
                              files, mgrVars, countVars, localVars
<1>1. ASSUME UpStep PROVE FlowInv'
  <2>0. UNCHANGED <<ending, countVars>>
    BY <1>1 DEF UpStep
  <2>1. CASE UpWhileRunning \/ UpIsRefused \/ UpLoadsCredentials \/ UpClones \/
             UpFindsTree \/ UpAwaitsClone \/ UpInspectsTree \/ UpChecksOut \/
             UpReadsHead \/ UpDownloads \/ UpInstalls \/ UpComposes \/ UpFails \/
             (\E s \in Services : UpStarts(s)) \/ (\E s \in Services : UpStartFails(s)) \/
             UpPublishes \/ UpSaveFails
    BY <2>1, <2>0 DEF UpWhileRunning, Answer, UpIsRefused, UpLoadsCredentials, Goto,
                      UpClones, UpFindsTree, UpAwaitsClone, UpInspectsTree, UpChecksOut,
                      UpReadsHead, UpDownloads, UpInstalls, UpComposes, UpFails, UpStarts,
                      UpStartFails, UpPublishes, UpSaveFails
  <2>2. CASE UpLoadsVersions
    BY <2>2, <2>0 DEF UpLoadsVersions, Goto, HandlerTypes, PCs
  <2>3. CASE UpSavesCredentials
    BY <2>3, SavesCredentialsStep
  <2> QED
    BY <1>1, <2>1, <2>2, <2>3 DEF UpStep
<1>2. ASSUME DownStep PROVE FlowInv'
  <2>0. UNCHANGED <<treeVars, toolVars, mgrVars, countVars, passwords>>
    BY <1>2 DEF DownStep
  <2>1. CASE DownDestroys \/ DownDestroyFails \/ DownClears \/ DownClearFails
    BY <2>1, <2>0 DEF DownDestroys, Goto, DownDestroyFails, Answer, DownClears,
                      DownClearFails
  <2> QED
    BY <1>2, <2>1 DEF DownStep
<1>3. ASSUME Monitor PROVE FlowInv'
  <2>0. UNCHANGED <<treeVars, toolVars, files, rt, ending, mgr, pc, localVars, countVars,
                    passwords, answer, fault>>
    BY <1>3 DEF Monitor
  <2>1. CASE \E s \in Services : ServiceExits(s) \/ NoticesExit(s) \/ Recovers(s)
    BY <2>1, <2>0 DEF ServiceExits, NoticesExit, Recovers
  <2> QED
    BY <1>3, <2>1 DEF Monitor
<1>4. CASE (\E r \in Requests : UpBegins(r)) \/ DownStops \/ DownAgain \/ Git
  BY <1>4 DEF UpBegins, Goto, DownStops, DownAgain, Git
<1>5. ASSUME NEW s \in Services, Restart(s) PROVE FlowInv'
  BY <1>5 DEF Restart, Restarts
<1>6. CASE StatusPanics
  BY <1>6 DEF StatusPanics, DaemonGone, Answer, NewRuntime
<1>7. CASE User
  BY <1>7 DEF User, UserEndsSession, UserChanges
<1>8. CASE DaemonEnds
  BY <1>8 DEF DaemonEnds, DaemonGone, Answer, NewRuntime
<1>9. CASE DaemonKilled
  BY <1>9 DEF DaemonKilled, DaemonGone, Answer, NewRuntime
<1>10. CASE UNCHANGED vars
  BY <1>10 DEF vars
<1> QED
  BY <1>1, <1>2, <1>3, <1>4, <1>5, <1>6, <1>7, <1>8, <1>9, <1>10 DEF Next

LEMMA ServiceKept ==
  ASSUME ServiceInv, FlowInv, ToolInv, ManagerTypes, RtTypes, HandlerTypes, [Next]_vars
  PROVE ServiceInv'
<1> USE RuntimeAssumption DEF ServiceInv, Composed, Active, Stopping, Preparing, treeVars,
                              toolVars, files, mgrVars, countVars, localVars
<1>1. ASSUME UpStep PROVE ServiceInv'
  <2>0. UNCHANGED <<ending, countVars>>
    BY <1>1 DEF UpStep
  <2>1. CASE UpWhileRunning \/ UpIsRefused \/ UpClones \/ UpFindsTree \/ UpAwaitsClone \/
             UpInspectsTree \/ UpChecksOut \/ UpReadsHead \/ UpDownloads \/ UpInstalls \/
             UpFails
    BY <2>1, <2>0 DEF UpWhileRunning, Answer, UpIsRefused, UpClones, Goto, UpFindsTree,
                      UpAwaitsClone, UpInspectsTree, UpChecksOut, UpReadsHead,
                      UpDownloads, UpInstalls, UpFails
  <2>2. CASE UpLoadsVersions
    BY <2>2, <2>0 DEF UpLoadsVersions, Goto, RtTypes
  <2>3. CASE UpLoadsCredentials
    BY <2>3, <2>0 DEF UpLoadsCredentials, Goto, RtTypes
  <2>4. CASE UpSavesCredentials
    BY <2>4, <2>0, SavesCredentialsStep DEF UpSavesCredentials
  <2>5. CASE UpComposes
    <3>1. \A s \in Services : state'[s] = "absent" /\ alive'[s] = alive[s]
      BY <2>5 DEF UpComposes, NewManager
    <3>2. pc' = "start" /\ todo' = Services /\ rt'.managed = rt.managed
      BY <2>5 DEF UpComposes, Goto, RtTypes
    <3>3. ~Composed
      BY <2>5 DEF UpComposes, Goto, FlowInv
    <3>4. \A s \in Services : alive[s] = NoProcess
      BY <3>3
    <3> QED
      BY <3>1, <3>2, <3>3, <3>4 DEF FlowInv
  <2>6. ASSUME NEW s \in Services, UpStarts(s) PROVE ServiceInv'
    <3>1. Starts(s) /\ pc = "start" /\ todo' = todo \ {s} /\ UNCHANGED <<pc, rt>>
      BY <2>6 DEF UpStarts
    <3> QED
      BY <3>1, StartsProcess DEF FlowInv
  <2>7. ASSUME NEW s \in Services, UpStartFails(s) PROVE ServiceInv'
    BY <2>7, <2>0, StopAllStep DEF UpStartFails, Answer, FlowInv
  <2>8. CASE UpPublishes
    BY <2>8, <2>0 DEF UpPublishes, Answer, RtTypes, FlowInv, HandlerTypes
  <2>9. CASE UpSaveFails
    BY <2>9, <2>0, StopAllStep DEF UpSaveFails, Answer, FlowInv
  <2> QED
    BY <1>1, <2>1, <2>2, <2>3, <2>4, <2>5, <2>6, <2>7, <2>8, <2>9 DEF UpStep
<1>2. ASSUME DownStep PROVE ServiceInv'
  <2>0. UNCHANGED <<treeVars, toolVars, mgrVars, countVars, passwords>>
    BY <1>2 DEF DownStep
  <2>1. CASE DownDestroys
    BY <2>1, <2>0 DEF DownDestroys, Goto, FlowInv
  <2>2. CASE DownDestroyFails
    BY <2>2, <2>0 DEF DownDestroyFails, Answer, RtTypes
  <2>3. CASE DownClears
    BY <2>3, <2>0 DEF DownClears, Answer, RtTypes
  <2>4. CASE DownClearFails
    BY <2>4, <2>0 DEF DownClearFails, Answer, RtTypes
  <2> QED
    BY <1>2, <2>1, <2>2, <2>3, <2>4 DEF DownStep
<1>3. ASSUME Monitor PROVE ServiceInv'
  <2>0. UNCHANGED <<treeVars, toolVars, files, rt, ending, mgr, pc, localVars, countVars,
                    passwords, answer, fault>>
    BY <1>3 DEF Monitor
  <2>1. ASSUME NEW s \in Services, ServiceExits(s) \/ NoticesExit(s) PROVE ServiceInv'
    BY <2>1, <2>0 DEF ServiceExits, NoticesExit, Live, ManagerTypes
  <2>2. ASSUME NEW s \in Services, Recovers(s) PROVE ServiceInv'
    <3>1. UNCHANGED <<pc, rt, todo>> /\ state[s] = "lost" /\ (Starts(s) \/ UNCHANGED <<state, alive>>)
      BY <2>2, <2>0 DEF Recovers
    <3>2. CASE Starts(s)
      BY <3>1, <3>2, StartsProcess
    <3> QED
      BY <3>1, <3>2
  <2> QED
    BY <1>3, <2>1, <2>2 DEF Monitor
<1>4. CASE (\E r \in Requests : UpBegins(r)) \/ Git \/ User
  BY <1>4 DEF UpBegins, Goto, Git, Answer, User
<1>5. ASSUME NEW s \in Services, Restart(s) PROVE ServiceInv'
  <2>1. pc = "idle" /\ UNCHANGED <<pc, rt, todo>>
    BY <1>5 DEF Restart
  <2>2. CASE rt.managed /\ Starts(s)
    BY <2>1, <2>2, StartsProcess
  <2>3. CASE /\ rt.managed /\ alive' = [alive EXCEPT ![s] = NoProcess]
             /\ state' = [state EXCEPT ![s] = "unhealthy"]
    BY <2>1, <2>3 DEF ManagerTypes
  <2>4. CASE UNCHANGED <<state, alive>>
    BY <2>1, <2>4
  <2> QED
    BY <1>5, <2>2, <2>3, <2>4 DEF Restart, Restarts
<1>6. CASE StatusPanics
  BY <1>6, DaemonGoneStep DEF StatusPanics
<1>7. CASE DownStops
  BY <1>7, StopAllStep DEF DownStops, FlowInv
<1>8. CASE DownAgain
  BY <1>8 DEF DownAgain, FlowInv
<1>9. CASE DaemonEnds
  BY <1>9, DaemonGoneStep DEF DaemonEnds
<1>10. CASE DaemonKilled
  BY <1>10, DaemonGoneStep DEF DaemonKilled
<1>11. CASE UNCHANGED vars
  BY <1>11 DEF vars
<1> QED
  BY <1>1, <1>2, <1>3, <1>4, <1>5, <1>6, <1>7, <1>8, <1>9, <1>10, <1>11 DEF Next

LEMMA ProcessKept ==
  ASSUME ProcessInv, ServiceInv, FlowInv, ToolInv, ManagerTypes, RtTypes, [Next]_vars
  PROVE ProcessInv'
<1> USE RuntimeAssumption DEF ProcessInv, Live, Composed, Preparing, treeVars, toolVars,
                              files, mgrVars, countVars, localVars
<1>1. ASSUME UpStep PROVE ProcessInv'
  <2>0. UNCHANGED <<ending, countVars>>
    BY <1>1 DEF UpStep
  <2>1. CASE UpWhileRunning \/ UpIsRefused \/ UpClones \/ UpFindsTree \/ UpAwaitsClone \/
             UpInspectsTree \/ UpChecksOut \/ UpReadsHead \/ UpDownloads \/ UpInstalls \/
             UpFails
    BY <2>1, <2>0 DEF UpWhileRunning, Answer, UpIsRefused, UpClones, Goto, UpFindsTree,
                      UpAwaitsClone, UpInspectsTree, UpChecksOut, UpReadsHead,
                      UpDownloads, UpInstalls, UpFails
  <2>2. CASE UpLoadsVersions
    <3>1. \A s \in Services : alive[s] = NoProcess
      BY <2>2, NoneUncomposed DEF UpLoadsVersions, Goto, FlowInv
    <3> QED
      BY <2>2, <3>1 DEF UpLoadsVersions, Goto, FlowInv, RtTypes
  <2>3. CASE UpLoadsCredentials
    <3>1. \A s \in Services : alive[s] = NoProcess
      BY <2>3, NoneUncomposed DEF UpLoadsCredentials, Goto, FlowInv
    <3> QED
      BY <2>3, <3>1 DEF UpLoadsCredentials, Goto, FlowInv, RtTypes
  <2>4. CASE UpSavesCredentials
    <3>1. ~rt.managed /\ ~Composed
      BY <2>4, SavesCredentialsStep DEF FlowInv
    <3>2. UNCHANGED <<mgr, alive>>
      BY <2>4 DEF UpSavesCredentials
    <3> QED
      BY <2>4, <3>1, <3>2, NoneUncomposed, SavesCredentialsStep DEF ServiceInv
  <2>5. CASE UpComposes
    <3>1. \A s \in Services : alive[s] = NoProcess
      BY <2>5, NoneUncomposed DEF UpComposes, Goto, FlowInv
    <3>2. /\ rt'.managed = rt.managed /\ rt'.password = rt.password
          /\ pc = "download" /\ UNCHANGED <<alive, saved>>
          /\ mgr'.password = rt.password
      BY <2>5 DEF UpComposes, Goto, RtTypes
    <3> QED
      BY <3>1, <3>2
  <2>6. ASSUME NEW s \in Services, UpStarts(s) PROVE ProcessInv'
    <3>1. Starts(s) /\ Composed /\ UNCHANGED <<pc, rt, mgr, saved>>
      BY <2>6 DEF UpStarts
    <3> QED
      BY <3>1, StartsProcess
  <2>7. ASSUME NEW s \in Services, UpStartFails(s) PROVE ProcessInv'
    BY <2>7, <2>0, StopAllStep DEF UpStartFails, Answer, FlowInv
  <2>8. CASE UpPublishes
    BY <2>8, <2>0 DEF UpPublishes, Answer, RtTypes
  <2>9. CASE UpSaveFails
    BY <2>9, <2>0, StopAllStep DEF UpSaveFails, Answer, FlowInv
  <2> QED
    BY <1>1, <2>1, <2>2, <2>3, <2>4, <2>5, <2>6, <2>7, <2>8, <2>9 DEF UpStep
<1>2. ASSUME DownStep PROVE ProcessInv'
  <2>0. UNCHANGED <<treeVars, toolVars, mgrVars, countVars, passwords>>
    BY <1>2 DEF DownStep
  <2>1. CASE DownDestroys
    BY <2>1, <2>0 DEF DownDestroys, Goto
  <2>2. CASE DownDestroyFails
    BY <2>2, <2>0 DEF DownDestroyFails, Answer, RtTypes
  <2>3. CASE DownClears
    BY <2>3, <2>0 DEF DownClears, Answer, RtTypes
  <2>4. CASE DownClearFails
    BY <2>4, <2>0 DEF DownClearFails, Answer, RtTypes
  <2> QED
    BY <1>2, <2>1, <2>2, <2>3, <2>4 DEF DownStep
<1>3. ASSUME Monitor PROVE ProcessInv'
  <2>0. UNCHANGED <<treeVars, toolVars, files, rt, ending, mgr, pc, localVars, countVars,
                    passwords, answer, fault>>
    BY <1>3 DEF Monitor
  <2>1. ASSUME NEW s \in Services, ServiceExits(s) \/ NoticesExit(s) PROVE ProcessInv'
    BY <2>1, <2>0 DEF ServiceExits, NoticesExit, ManagerTypes
  <2>2. ASSUME NEW s \in Services, Recovers(s) PROVE ProcessInv'
    <3>1. UNCHANGED <<pc, rt, mgr, saved>> /\ state[s] = "lost" /\ (Starts(s) \/ UNCHANGED alive)
      BY <2>2, <2>0 DEF Recovers
    <3>2. CASE Starts(s)
      BY <3>1, <3>2, StartsProcess DEF ServiceInv, Active
    <3> QED
      BY <3>1, <3>2
  <2> QED
    BY <1>3, <2>1, <2>2 DEF Monitor
<1>4. CASE (\E r \in Requests : UpBegins(r)) \/ DownAgain \/ Git \/ User
  BY <1>4 DEF UpBegins, Goto, DownAgain, Answer, Git, User
<1>5. ASSUME NEW s \in Services, Restart(s) PROVE ProcessInv'
  <2>1. pc = "idle" /\ UNCHANGED <<pc, rt, mgr, saved>>
    BY <1>5 DEF Restart
  <2>2. CASE rt.managed /\ Starts(s)
    BY <2>1, <2>2, StartsProcess
  <2>3. CASE alive' = [alive EXCEPT ![s] = NoProcess]
    BY <2>1, <2>3 DEF ManagerTypes
  <2>4. CASE UNCHANGED alive
    BY <2>1, <2>4
  <2> QED
    BY <1>5, <2>2, <2>3, <2>4 DEF Restart, Restarts
<1>6. CASE StatusPanics
  BY <1>6, DaemonGoneStep DEF StatusPanics
<1>7. CASE DownStops
  BY <1>7, StopAllStep DEF DownStops, FlowInv
<1>8. CASE DaemonEnds
  BY <1>8, DaemonGoneStep DEF DaemonEnds
<1>9. CASE DaemonKilled
  BY <1>9, DaemonGoneStep DEF DaemonKilled
<1>10. CASE UNCHANGED vars
  BY <1>10 DEF vars
<1> QED
  BY <1>1, <1>2, <1>3, <1>4, <1>5, <1>6, <1>7, <1>8, <1>9, <1>10 DEF Next

LEMMA ToolKept ==
  ASSUME ToolInv, FlowInv, RtTypes, HandlerTypes, Tool!InstallerTypeOK, [Next]_vars
  PROVE ToolInv'
<1> USE RuntimeAssumption DEF ToolInv, Composed, treeVars, toolVars, files, mgrVars,
                              countVars, localVars
<1>1. ASSUME UpStep PROVE ToolInv'
  <2>0. UNCHANGED <<ending, countVars>>
    BY <1>1 DEF UpStep
  <2>1. CASE UpWhileRunning \/ UpIsRefused \/ UpClones \/ UpFindsTree \/ UpAwaitsClone \/
             UpInspectsTree \/ UpChecksOut \/ (\E s \in Services : UpStarts(s)) \/
             (\E s \in Services : UpStartFails(s)) \/ UpSaveFails
    BY <2>1, <2>0 DEF UpWhileRunning, Answer, UpIsRefused, UpClones, Goto, UpFindsTree,
                      UpAwaitsClone, UpInspectsTree, UpChecksOut, UpStarts, UpStartFails,
                      UpSaveFails
  <2>2. CASE UpLoadsVersions
    BY <2>2, <2>0 DEF UpLoadsVersions, Goto, RtTypes, FlowInv, Preparing
  <2>3. CASE UpLoadsCredentials
    BY <2>3, <2>0 DEF UpLoadsCredentials, Goto, RtTypes
  <2>4. CASE UpSavesCredentials
    BY <2>4, SavesCredentialsStep DEF UpSavesCredentials, FlowInv, Preparing
  <2>5. CASE UpReadsHead
    BY <2>5 DEF UpReadsHead, Answer
  <2>6. CASE UpDownloads
    BY <2>6, <2>0 DEF UpDownloads, Goto, Tool!Download, FlowInv, Preparing
  <2>7. CASE UpInstalls
    <3>1. CASE Tool!Discard /\ Answer("error")
      BY <2>7, <3>1 DEF UpInstalls, Tool!Discard, Answer, FlowInv, Preparing
    <3>2. ASSUME NEW s \in todo, Tool!DigestMatches(rt.version), Tool!Place(s),
    todo' = todo \ {s},
                 pc' = "download"
          PROVE ToolInv'
      BY <2>7, <3>2 DEF UpInstalls, Tool!DigestMatches, Tool!Place, FlowInv, Preparing,
                     HandlerTypes, Tool!InstallerTypeOK
    <3> QED
      BY <2>7, <3>1, <3>2 DEF UpInstalls
  <2>8. CASE UpComposes
    BY <2>8, <2>0 DEF UpComposes, Goto, RtTypes
  <2>9. CASE UpFails
    BY <2>9, <2>0 DEF UpFails, Tool!Discard, Answer
  <2>10. CASE UpPublishes
    BY <2>10, <2>0 DEF UpPublishes, Answer, RtTypes
  <2> QED
    BY <1>1, <2>1, <2>2, <2>3, <2>4, <2>5, <2>6, <2>7, <2>8, <2>9, <2>10 DEF UpStep
<1>2. ASSUME DownStep PROVE ToolInv'
  <2>0. UNCHANGED <<treeVars, toolVars, mgrVars, countVars, passwords>>
    BY <1>2 DEF DownStep
  <2>1. CASE DownDestroys
    BY <2>1, <2>0 DEF DownDestroys, Goto
  <2>2. CASE DownDestroyFails
    BY <2>2, <2>0 DEF DownDestroyFails, Answer, RtTypes
  <2>3. CASE DownClears
    BY <2>3, <2>0 DEF DownClears, Answer, RtTypes
  <2>4. CASE DownClearFails
    BY <2>4, <2>0 DEF DownClearFails, Answer, RtTypes
  <2> QED
    BY <1>2, <2>1, <2>2, <2>3, <2>4 DEF DownStep
<1>3. ASSUME Monitor PROVE ToolInv'
  <2>0. UNCHANGED <<treeVars, toolVars, files, rt, ending, mgr, pc, localVars, countVars,
                    passwords, answer, fault>>
    BY <1>3 DEF Monitor
  <2>1. CASE \E s \in Services : ServiceExits(s) \/ NoticesExit(s) \/ Recovers(s)
    BY <2>1, <2>0 DEF ServiceExits, NoticesExit, Answer, Recovers
  <2> QED
    BY <1>3, <2>1 DEF Monitor
<1>4. CASE (\E r \in Requests : UpBegins(r)) \/ (\E s \in Services : Restart(s)) \/
           DownStops \/ DownAgain \/ Git \/ User
  BY <1>4 DEF UpBegins, Goto, Restart, Answer, DownStops, DownAgain, Git, User
<1>5. CASE StatusPanics
  BY <1>5, DaemonGoneStep DEF StatusPanics
<1>6. CASE DaemonEnds
  BY <1>6, DaemonGoneStep DEF DaemonEnds
<1>7. CASE DaemonKilled
  BY <1>7, DaemonGoneStep DEF DaemonKilled
<1>8. CASE UNCHANGED vars
  BY <1>8 DEF vars
<1> QED
  BY <1>1, <1>2, <1>3, <1>4, <1>5, <1>6, <1>7, <1>8 DEF Next

LEMMA PlaceKept ==
  ASSUME PlaceInv, FlowInv, DirtyInv, RtTypes, HandlerTypes, Tree!WorkspaceTypeOK, [Next]_vars
  PROVE PlaceInv'
<1> USE RuntimeAssumption DEF PlaceInv, Settled, Dir, Tree!HasHead, Tree!Exists, treeVars,
                              toolVars, files, mgrVars, countVars, localVars
<1>1. ASSUME UpStep PROVE PlaceInv'
  <2>0. UNCHANGED <<ending, countVars>>
    BY <1>1 DEF UpStep
  <2>1. CASE UpWhileRunning \/ UpIsRefused \/ UpFindsTree \/ UpReadsHead \/ UpDownloads \/
             UpInstalls \/ UpFails \/ (\E s \in Services : UpStarts(s)) \/
             (\E s \in Services : UpStartFails(s)) \/ UpSaveFails
    BY <2>1, <2>0 DEF UpWhileRunning, Answer, UpIsRefused, UpFindsTree, Goto, UpReadsHead,
                      UpDownloads, UpInstalls, UpFails, UpStarts, UpStartFails,
                      UpSaveFails
  <2>2. CASE UpLoadsVersions
    BY <2>2, <2>0 DEF UpLoadsVersions, Goto, RtTypes
  <2>3. CASE UpLoadsCredentials
    BY <2>3, <2>0 DEF UpLoadsCredentials, Goto, RtTypes
  <2>4. CASE UpSavesCredentials
    <3>1. rt'.managed = rt.managed /\ rt.managed = rt.running /\ ~rt.managed /\ pc' \in {"idle", "inspect"}
      BY <2>4, SavesCredentialsStep DEF FlowInv, Preparing
    <3> QED
      BY <2>4, <3>1 DEF UpSavesCredentials
  <2>5. CASE UpClones
    BY <2>5, <2>0 DEF UpClones, Goto, FlowInv, Preparing
  <2>6. CASE UpAwaitsClone
    BY <2>6, <2>0 DEF UpAwaitsClone, Answer, FlowInv, Preparing
  <2>7. CASE UpInspectsTree
    BY <2>7, <2>0 DEF UpInspectsTree, Answer, Tree!SameOrigin
  <2>8. CASE UpChecksOut
    <3>1. Dir \in Roots /\ ~rt.managed
      BY <2>8 DEF UpChecksOut, HandlerTypes, FlowInv, Preparing
    <3>2. UNCHANGED tree \/ Tree!Checkout(Dir, req.ref)
      BY <2>8 DEF UpChecksOut, Tree!CheckoutRefused, Tree!workspaceVars
    <3>3. CASE UNCHANGED tree
      BY <2>8, <3>3 DEF UpChecksOut, Answer
    <3>4. CASE Tree!Checkout(Dir, req.ref)
      <4>1. tree'[Dir].phase = tree[Dir].phase /\ tree'[Dir].origin = tree[Dir].origin
        BY <3>1, <3>4, CheckoutStep
      <4> QED
        BY <2>8, <3>1, <4>1 DEF UpChecksOut, Answer
    <3> QED
      BY <3>2, <3>3, <3>4
  <2>9. CASE UpComposes
    <3>1. ~rt.managed /\ rt'.managed = rt.managed
      BY <2>9 DEF UpComposes, Goto, RtTypes, FlowInv, Preparing
    <3>2. pc = "download" /\ pc' = "start" /\ mgr'.root = Dir /\ UNCHANGED <<tree, req>>
      BY <2>9 DEF UpComposes, Goto
    <3> QED
      BY <3>1, <3>2
  <2>10. CASE UpPublishes
    BY <2>10, <2>0 DEF UpPublishes, Answer, RtTypes, HandlerTypes, PCs
  <2> QED
    BY <1>1, <2>1, <2>2, <2>3, <2>4, <2>5, <2>6, <2>7, <2>8, <2>9, <2>10 DEF UpStep
<1>2. ASSUME DownStep PROVE PlaceInv'
  <2>0. UNCHANGED <<treeVars, toolVars, mgrVars, countVars, passwords>>
    BY <1>2 DEF DownStep
  <2>1. CASE DownDestroys
    BY <2>1, <2>0 DEF DownDestroys, Goto
  <2>2. CASE DownDestroyFails
    BY <2>2, <2>0 DEF DownDestroyFails, Answer, RtTypes
  <2>3. CASE DownClears
    BY <2>3, <2>0 DEF DownClears, Answer, RtTypes
  <2>4. CASE DownClearFails
    BY <2>4, <2>0 DEF DownClearFails, Answer, RtTypes
  <2> QED
    BY <1>2, <2>1, <2>2, <2>3, <2>4 DEF DownStep
<1>3. ASSUME Monitor PROVE PlaceInv'
  <2>0. UNCHANGED <<treeVars, toolVars, files, rt, ending, mgr, pc, localVars, countVars,
                    passwords, answer, fault>>
    BY <1>3 DEF Monitor
  <2>1. CASE \E s \in Services : ServiceExits(s) \/ NoticesExit(s) \/ Recovers(s)
    BY <2>1, <2>0 DEF ServiceExits, NoticesExit, Answer, Recovers
  <2> QED
    BY <1>3, <2>1 DEF Monitor
<1>4. CASE (\E r \in Requests : UpBegins(r)) \/ (\E s \in Services : Restart(s)) \/
           DownStops \/ DownAgain
  BY <1>4 DEF UpBegins, Goto, Restart, Answer, DownStops, DownAgain
<1>5. CASE StatusPanics
  BY <1>5, DaemonGoneStep DEF StatusPanics
<1>6. CASE Git
  <2>1. \A e \in Roots : Keeps(e)
    BY <1>6, TreeStepKeeps DEF Git, Tree!CloneKilled
  <2>2. pc \in {"checkout", "head", "download", "install", "start"} => Dir \in Roots
    BY DEF HandlerTypes
  <2> QED
    BY <1>6, <2>1, <2>2 DEF Git, Keeps
<1>7. CASE User
  <2>1. \A e \in Roots : Keeps(e)
    BY <1>7, TreeStepKeeps DEF User, UserEndsSession, UserChanges
  <2>2. pc \in {"checkout", "head", "download", "install", "start"} => Dir \in Roots
    BY DEF HandlerTypes
  <2> QED
    BY <1>7, <2>1, <2>2 DEF User, Keeps
<1>8. CASE DaemonEnds
  BY <1>8, DaemonGoneStep DEF DaemonEnds
<1>9. CASE DaemonKilled
  BY <1>9, DaemonGoneStep DEF DaemonKilled
<1>10. CASE UNCHANGED vars
  BY <1>10 DEF vars
<1> QED
  BY <1>1, <1>2, <1>3, <1>4, <1>5, <1>6, <1>7, <1>8, <1>9, <1>10 DEF Next

LEMMA DiskKept ==
  ASSUME DiskInv, FileTypes, [Next]_vars PROVE DiskInv'
<1> USE DEF DiskInv, treeVars, toolVars, files, mgrVars, countVars, localVars
<1>1. ASSUME UpStep PROVE DiskInv'
  <2>1. CASE UpWhileRunning \/ UpIsRefused \/ UpLoadsVersions \/ UpLoadsCredentials \/
             UpSavesCredentials \/ UpClones \/ UpFindsTree \/ UpAwaitsClone \/
             UpInspectsTree \/ UpChecksOut \/ UpReadsHead \/ UpDownloads \/ UpInstalls \/
             UpComposes \/ UpFails \/ (\E s \in Services : UpStarts(s)) \/
             (\E s \in Services : UpStartFails(s))
    BY <2>1 DEF UpWhileRunning, UpIsRefused, UpLoadsVersions, UpLoadsCredentials,
                UpSavesCredentials, UpClones, UpFindsTree, UpAwaitsClone, UpInspectsTree,
                UpChecksOut, UpReadsHead, UpDownloads, UpInstalls, UpComposes, UpFails,
                UpStarts, UpStartFails
  <2>2. CASE UpPublishes \/ UpSaveFails
    BY <2>2 DEF UpPublishes, UpSaveFails
  <2> QED
    BY <1>1, <2>1, <2>2 DEF UpStep
<1>2. CASE DownStep
  BY <1>2 DEF DownStep, DownDestroys, DownDestroyFails, DownClears, DownClearFails, FileTypes
<1>3. CASE Monitor \/ Git \/ User
  BY <1>3 DEF Monitor, Git, User
<1>4. CASE (\E r \in Requests : UpBegins(r)) \/ (\E s \in Services : Restart(s)) \/
           DownStops \/ DownAgain
  BY <1>4 DEF UpBegins, Restart, DownStops, DownAgain
<1>5. CASE StatusPanics \/ DaemonEnds \/ DaemonKilled
  BY <1>5 DEF StatusPanics, DaemonEnds, DaemonKilled
<1>6. CASE UNCHANGED vars
  BY <1>6 DEF vars
<1> QED
  BY <1>1, <1>2, <1>3, <1>4, <1>5, <1>6 DEF Next

LEMMA SessionKept ==
  ASSUME SessionInv, FlowInv, ServiceInv, RtTypes, HandlerTypes, FileTypes, [Next]_vars
  PROVE SessionInv'
<1> USE RuntimeAssumption DEF SessionInv, Stopping, treeVars, toolVars, files, mgrVars,
                              countVars, localVars
<1>1. ASSUME UpStep PROVE SessionInv'
  <2>0. UNCHANGED <<ending, countVars>>
    BY <1>1 DEF UpStep
  <2>1. CASE UpWhileRunning \/ UpIsRefused \/ UpClones \/ UpFindsTree \/ UpAwaitsClone \/
             UpInspectsTree \/ UpChecksOut \/ UpReadsHead \/ UpDownloads \/ UpInstalls \/
             UpFails
    BY <2>1, <2>0 DEF UpWhileRunning, Answer, UpIsRefused, UpClones, Goto, UpFindsTree,
                      UpAwaitsClone, UpInspectsTree, UpChecksOut, UpReadsHead,
                      UpDownloads, UpInstalls, UpFails
  <2>2. CASE UpLoadsVersions
    BY <2>2, <2>0 DEF UpLoadsVersions, Goto, RtTypes
  <2>3. CASE UpLoadsCredentials
    BY <2>3, <2>0 DEF UpLoadsCredentials, Goto, RtTypes
  <2>4. CASE UpSavesCredentials
    BY <2>4, <2>0, SavesCredentialsStep DEF UpSavesCredentials
  <2>5. CASE UpComposes
    BY <2>5, <2>0 DEF UpComposes, Goto, RtTypes
  <2>6. ASSUME NEW s \in Services, UpStarts(s) PROVE SessionInv'
    BY <2>6, <2>0 DEF UpStarts, Starts, SessionFor, FlowInv, Composed
  <2>7. ASSUME NEW s \in Services, UpStartFails(s) PROVE SessionInv'
    BY <2>7, <2>0 DEF UpStartFails, Answer, SessionFor, FlowInv, Composed
  <2>8. CASE UpPublishes
    BY <2>8, <2>0 DEF UpPublishes, Answer, RtTypes, FlowInv, Composed
  <2>9. CASE UpSaveFails
    BY <2>9, <2>0 DEF UpSaveFails, Answer, FlowInv, Composed
  <2> QED
    BY <1>1, <2>1, <2>2, <2>3, <2>4, <2>5, <2>6, <2>7, <2>8, <2>9 DEF UpStep
<1>2. ASSUME DownStep PROVE SessionInv'
  <2>0. UNCHANGED <<treeVars, toolVars, mgrVars, countVars, passwords>>
    BY <1>2 DEF DownStep
  <2>1. CASE DownDestroys
    BY <2>1, <2>0 DEF DownDestroys, Goto
  <2>2. CASE DownDestroyFails
    BY <2>2, <2>0 DEF DownDestroyFails, Answer, RtTypes
  <2>3. CASE DownClears
    BY <2>3, <2>0 DEF DownClears, Answer, RtTypes, FileTypes
  <2>4. CASE DownClearFails
    BY <2>4, <2>0 DEF DownClearFails, Answer, RtTypes, FileTypes
  <2> QED
    BY <1>2, <2>1, <2>2, <2>3, <2>4 DEF DownStep
<1>3. ASSUME Monitor PROVE SessionInv'
  <2>0. UNCHANGED <<treeVars, toolVars, files, rt, ending, mgr, pc, localVars, countVars,
                    passwords, answer, fault>>
    BY <1>3 DEF Monitor
  <2>1. ASSUME NEW s \in Services, ServiceExits(s) \/ NoticesExit(s) PROVE SessionInv'
    BY <2>1, <2>0 DEF ServiceExits, NoticesExit, Answer
  <2>2. ASSUME NEW s \in Services, Recovers(s) PROVE SessionInv'
    BY <2>2, <2>0 DEF Recovers, Starts, SessionFor, ServiceInv, FlowInv, Active, Composed
  <2> QED
    BY <1>3, <2>1, <2>2 DEF Monitor
<1>4. CASE (\E r \in Requests : UpBegins(r)) \/ DownStops \/ DownAgain \/ Git
  BY <1>4 DEF UpBegins, Goto, DownStops, Answer, DownAgain, Git
<1>5. ASSUME NEW s \in Services, Restart(s) PROVE SessionInv'
  BY <1>5 DEF Restart, Restarts, Starts, SessionFor, FlowInv, Composed
<1>6. CASE StatusPanics
  BY <1>6, DaemonGoneStep DEF StatusPanics
<1>7. CASE User
  BY <1>7 DEF User, UserEndsSession, UserChanges
<1>8. CASE DaemonEnds
  BY <1>8, DaemonGoneStep DEF DaemonEnds
<1>9. CASE DaemonKilled
  BY <1>9, DaemonGoneStep DEF DaemonKilled
<1>10. CASE UNCHANGED vars
  BY <1>10 DEF vars
<1> QED
  BY <1>1, <1>2, <1>3, <1>4, <1>5, <1>6, <1>7, <1>8, <1>9, <1>10 DEF Next

-----------------------------------------------------------------------------
(* What no step does.                                                      *)

LEMMA ShellSpared ==
  ASSUME CountTypes, [Next]_vars PROVE SparesShell
<1> USE DEF SparesShell, treeVars, toolVars, files, mgrVars, countVars, localVars
<1>1. ASSUME UpStep PROVE SparesShell
  <2>0. UNCHANGED <<ending, countVars>>
    BY <1>1 DEF UpStep
  <2>1. CASE UpWhileRunning \/ UpIsRefused \/ UpLoadsVersions \/ UpLoadsCredentials \/
             UpSavesCredentials \/ UpClones \/ UpFindsTree \/ UpAwaitsClone \/
             UpInspectsTree \/ UpChecksOut \/ UpReadsHead \/ UpDownloads \/ UpInstalls \/
             UpComposes \/ UpFails \/ UpPublishes \/ UpSaveFails
    BY <2>1, <2>0 DEF UpWhileRunning, UpIsRefused, UpLoadsVersions, UpLoadsCredentials,
                      UpSavesCredentials, UpClones, UpFindsTree, UpAwaitsClone,
                      UpInspectsTree, UpChecksOut, UpReadsHead, UpDownloads, UpInstalls,
                      UpComposes, UpFails, UpPublishes, UpSaveFails
  <2>2. ASSUME NEW s \in Services, UpStarts(s) PROVE SparesShell
    BY <2>2, <2>0 DEF UpStarts, Starts, SessionFor
  <2>3. ASSUME NEW s \in Services, UpStartFails(s) PROVE SparesShell
    BY <2>3, <2>0 DEF UpStartFails, SessionFor
  <2> QED
    BY <1>1, <2>1, <2>2, <2>3 DEF UpStep
<1>2. ASSUME DownStep PROVE SparesShell
  <2>0. UNCHANGED <<treeVars, toolVars, mgrVars, countVars, passwords>>
    BY <1>2 DEF DownStep
  <2>1. CASE DownDestroys \/ DownDestroyFails \/ DownClears \/ DownClearFails
    BY <2>1, <2>0 DEF DownDestroys, Goto, DownDestroyFails, DownClears, DownClearFails
  <2> QED
    BY <1>2, <2>1 DEF DownStep
<1>3. ASSUME Monitor PROVE SparesShell
  <2>0. UNCHANGED <<treeVars, toolVars, files, rt, ending, mgr, pc, localVars, countVars,
                    passwords, answer, fault>>
    BY <1>3 DEF Monitor
  <2>1. ASSUME NEW s \in Services, ServiceExits(s) \/ NoticesExit(s) PROVE SparesShell
    BY <2>1, <2>0 DEF ServiceExits, NoticesExit
  <2>2. ASSUME NEW s \in Services, Recovers(s) PROVE SparesShell
    BY <2>2, <2>0 DEF Recovers, Starts, SessionFor
  <2> QED
    BY <1>3, <2>1, <2>2 DEF Monitor
<1>4. CASE (\E r \in Requests : UpBegins(r)) \/ DownStops \/ DownAgain \/ Git
  BY <1>4 DEF UpBegins, DownStops, DownAgain, Git
<1>5. ASSUME NEW s \in Services, Restart(s) PROVE SparesShell
  BY <1>5 DEF Restart, Restarts, Starts, SessionFor
<1>6. CASE StatusPanics
  BY <1>6 DEF StatusPanics, DaemonGone
<1>7. CASE User
  BY <1>7 DEF User, CountTypes
<1>8. CASE DaemonEnds
  BY <1>8 DEF DaemonEnds, DaemonGone
<1>9. CASE DaemonKilled
  BY <1>9 DEF DaemonKilled, DaemonGone
<1>10. CASE UNCHANGED vars
  BY <1>10 DEF vars
<1> QED
  BY <1>1, <1>2, <1>3, <1>4, <1>5, <1>6, <1>7, <1>8, <1>9, <1>10 DEF Next

LEMMA EditsSpared ==
  ASSUME DirtyInv, Tree!WorkspaceTypeOK, HandlerTypes, CountTypes, [Next]_vars
  PROVE SparesEdits
<1> USE RuntimeAssumption DEF SparesEdits, treeVars, toolVars, files, mgrVars, countVars,
                              localVars
<1>1. ASSUME UpStep PROVE SparesEdits
  <2>0. UNCHANGED <<ending, countVars>>
    BY <1>1 DEF UpStep
  <2>1. CASE UpWhileRunning \/ UpIsRefused \/ UpLoadsVersions \/ UpLoadsCredentials \/
             UpSavesCredentials \/ UpFindsTree \/ UpInspectsTree \/ UpReadsHead \/
             UpDownloads \/ UpInstalls \/ UpComposes \/ UpFails \/
             (\E s \in Services : UpStarts(s)) \/ (\E s \in Services : UpStartFails(s)) \/
             UpPublishes \/ UpSaveFails
    BY <2>1, <2>0 DEF UpWhileRunning, UpIsRefused, UpLoadsVersions, UpLoadsCredentials,
                      UpSavesCredentials, UpFindsTree, UpInspectsTree, UpReadsHead,
                      UpDownloads, UpInstalls, UpComposes, UpFails, UpStarts,
                      UpStartFails, UpPublishes, UpSaveFails
  <2>2. CASE UpClones
    <3>1. Dir \in Roots /\ Tree!CloneBegins(Dir, req.repo, req.ref)
      BY <2>2 DEF UpClones, Goto, Dir, HandlerTypes, RuntimeAssumption
    <3> QED
      BY <3>1, CloneBeginsStep DEF OnlyAt, DirtyInv
  <2>3. CASE UpAwaitsClone
    <3>1. Dir \in Roots
      BY <2>3 DEF UpAwaitsClone, Dir, HandlerTypes, RuntimeAssumption
    <3>2. UNCHANGED tree \/ Tree!CloneFails(Dir)
      BY <2>3 DEF UpAwaitsClone, Tree!CloneKilled
    <3> QED
      BY <3>1, <3>2, CloneFailsStep DEF OnlyAt, DirtyInv
  <2>4. CASE UpChecksOut
    <3>1. Dir \in Roots
      BY <2>4 DEF UpChecksOut, Dir, HandlerTypes, RuntimeAssumption
    <3>2. UNCHANGED tree \/ Tree!Checkout(Dir, req.ref)
      BY <2>4 DEF UpChecksOut, Tree!CheckoutRefused, Tree!workspaceVars
    <3> QED
      BY <3>1, <3>2, CheckoutStep DEF OnlyAt
  <2> QED
    BY <1>1, <2>1, <2>2, <2>3, <2>4 DEF UpStep
<1>2. ASSUME DownStep PROVE SparesEdits
  <2>0. UNCHANGED <<treeVars, toolVars, mgrVars, countVars, passwords>>
    BY <1>2 DEF DownStep
  <2>1. CASE DownDestroys \/ DownDestroyFails \/ DownClears \/ DownClearFails
    BY <2>1, <2>0 DEF DownDestroys, DownDestroyFails, DownClears, DownClearFails
  <2> QED
    BY <1>2, <2>1 DEF DownStep
<1>3. ASSUME Monitor PROVE SparesEdits
  <2>0. UNCHANGED <<treeVars, toolVars, files, rt, ending, mgr, pc, localVars, countVars,
                    passwords, answer, fault>>
    BY <1>3 DEF Monitor
  <2>1. CASE \E s \in Services : ServiceExits(s) \/ NoticesExit(s) \/ Recovers(s)
    BY <2>1, <2>0 DEF ServiceExits, NoticesExit, Recovers
  <2> QED
    BY <1>3, <2>1 DEF Monitor
<1>4. CASE (\E r \in Requests : UpBegins(r)) \/ (\E s \in Services : Restart(s)) \/
           DownStops \/ DownAgain
  BY <1>4 DEF UpBegins, Restart, DownStops, DownAgain
<1>5. CASE StatusPanics
  BY <1>5 DEF StatusPanics, DaemonGone
<1>6. CASE Git
  <2>1. PICK d \in Roots : Tree!CloneAdvances(d) \/ Tree!CloneFails(d) \/ UNCHANGED tree
    BY <1>6 DEF Git, Tree!CloneKilled
  <2> QED
    BY <2>1, CloneAdvancesStep, CloneFailsStep DEF OnlyAt, DirtyInv
<1>7. CASE User
  BY <1>7 DEF User, CountTypes
<1>8. CASE DaemonEnds
  BY <1>8 DEF DaemonEnds, DaemonGone
<1>9. CASE DaemonKilled
  BY <1>9 DEF DaemonKilled, DaemonGone
<1>10. CASE UNCHANGED vars
  BY <1>10 DEF vars
<1> QED
  BY <1>1, <1>2, <1>3, <1>4, <1>5, <1>6, <1>7, <1>8, <1>9, <1>10 DEF Next

LEMMA DownsClear ==
  ASSUME DiskInv, SessionInv, FileTypes, [Next]_vars,
         pc = "clear", pc' = "idle", answer' = "down"
  PROVE disk'.healthy = {} \/ fault'
<1> USE DEF treeVars, toolVars, files, mgrVars, countVars, localVars
<1>1. ~UpStep
  BY DEF UpStep, UpWhileRunning, UpIsRefused, UpLoadsVersions, UpLoadsCredentials,
         UpSavesCredentials, UpClones, UpFindsTree, UpAwaitsClone, UpInspectsTree, UpChecksOut,
         UpReadsHead, UpDownloads, UpInstalls, UpComposes, UpFails, UpStarts, UpStartFails,
         UpPublishes, UpSaveFails, Goto
<1>2. ASSUME DownStep PROVE disk'.healthy = {} \/ fault'
  <2>1. CASE DownDestroys \/ DownDestroyFails \/ DownClearFails
    BY <2>1 DEF DownDestroys, Goto, DownDestroyFails, DownClearFails, Answer
  <2>2. CASE DownClears
    BY <2>2 DEF DownClears, DiskInv, SessionInv, Stopping, FileTypes
  <2> QED
    BY <1>2, <2>1, <2>2 DEF DownStep
<1>3. ~(Monitor \/ Git \/ User \/ DownStops \/ DownAgain \/ UNCHANGED vars)
  BY DEF Monitor, Git, User, DownStops, DownAgain, vars
<1>4. ~((\E r \in Requests : UpBegins(r)) \/ (\E s \in Services : Restart(s)))
  BY DEF UpBegins, Goto, Restart
<1>5. ~(StatusPanics \/ DaemonEnds \/ DaemonKilled)
  BY DaemonGoneStep DEF StatusPanics, DaemonEnds, DaemonKilled
<1> QED
  BY <1>1, <1>2, <1>3, <1>4, <1>5 DEF Next

LEMMA UpsFailForCause ==
  ASSUME Inv, [Next]_vars PROVE FailsForCause
<1> USE DEF FailsForCause, Dir, treeVars, toolVars, files, mgrVars, countVars, localVars
<1>1. ASSUME UpStep PROVE FailsForCause
  <2>0. UNCHANGED <<ending, countVars>>
    BY <1>1 DEF UpStep
  <2>1. CASE UpWhileRunning \/ UpLoadsVersions \/ UpLoadsCredentials \/ UpClones \/
             UpFindsTree \/ UpAwaitsClone \/ UpInspectsTree \/ UpReadsHead \/
             UpDownloads \/ UpComposes \/ UpFails \/ (\E s \in Services : UpStarts(s)) \/
             UpPublishes \/ UpSaveFails
    BY <2>1, <2>0 DEF UpWhileRunning, Answer, UpLoadsVersions, Goto, UpLoadsCredentials,
                      UpClones, UpFindsTree, UpAwaitsClone, UpInspectsTree, UpReadsHead,
                      UpDownloads, UpComposes, UpFails, UpStarts, UpPublishes, UpSaveFails
  <2>2. CASE UpIsRefused
    <3>1. CASE PortsFree
      BY <2>2, <3>1 DEF UpIsRefused
    <3>2. Live = {}
      BY <2>2, NoneUncomposed DEF UpIsRefused, Inv, FlowInv, Composed, Live
    <3> QED
      BY <3>1, <3>2 DEF PortsFree
  <2>3. CASE UpSavesCredentials
    BY <2>3, SavesCredentialsStep DEF Inv, TypeOK
  <2>4. CASE UpChecksOut
    BY <2>4, <2>0 DEF UpChecksOut, Answer, Tree!CheckoutRefused, Inv, PlaceInv
  <2>5. CASE UpInstalls
    BY <2>5 DEF UpInstalls, Answer, Tool!DigestMatches, Inv, ToolInv
  <2>6. ASSUME NEW s \in Services, UpStartFails(s) PROVE FailsForCause
    BY <2>6 DEF UpStartFails, Answer, VersionAgrees, Inv, ToolInv, Composed
  <2> QED
    BY <1>1, <2>1, <2>2, <2>3, <2>4, <2>5, <2>6 DEF UpStep
<1>2. ASSUME DownStep PROVE FailsForCause
  <2>0. UNCHANGED <<treeVars, toolVars, mgrVars, countVars, passwords>>
    BY <1>2 DEF DownStep
  <2>1. CASE DownDestroys \/ DownDestroyFails \/ DownClears \/ DownClearFails
    BY <2>1, <2>0 DEF DownDestroys, Goto, DownDestroyFails, Answer, DownClears,
                      DownClearFails
  <2> QED
    BY <1>2, <2>1 DEF DownStep
<1>3. ASSUME Monitor PROVE FailsForCause
  <2>0. UNCHANGED <<treeVars, toolVars, files, rt, ending, mgr, pc, localVars, countVars,
                    passwords, answer, fault>>
    BY <1>3 DEF Monitor
  <2>1. CASE \E s \in Services : ServiceExits(s) \/ NoticesExit(s) \/ Recovers(s)
    BY <2>1, <2>0 DEF ServiceExits, NoticesExit, Answer, Recovers
  <2> QED
    BY <1>3, <2>1 DEF Monitor
<1>4. CASE (\E r \in Requests : UpBegins(r)) \/ (\E s \in Services : Restart(s)) \/
           DownStops \/ DownAgain \/ Git \/ User
  BY <1>4 DEF UpBegins, Goto, Restart, Answer, DownStops, DownAgain, Git, User
<1>5. CASE StatusPanics
  BY <1>5, DaemonGoneStep DEF StatusPanics
<1>6. CASE DaemonEnds
  BY <1>6, DaemonGoneStep DEF DaemonEnds
<1>7. CASE DaemonKilled
  BY <1>7, DaemonGoneStep DEF DaemonKilled
<1>8. CASE UNCHANGED vars
  BY <1>8 DEF vars
<1> QED
  BY <1>1, <1>2, <1>3, <1>4, <1>5, <1>6, <1>7, <1>8 DEF Next

-----------------------------------------------------------------------------
(* The invariant.                                                          *)

LEMMA InitInv == Init => Inv
<1> SUFFICES ASSUME Init PROVE Inv
  OBVIOUS
<1> USE RuntimeAssumption DEF Init
<1>1. Tree!WorkspaceTypeOK
  BY DEF Tree!Init, Tree!Absent, Tree!None, Tree!WorkspaceTypeOK, Tree!Trees
<1>2. Tool!InstallerTypeOK
  BY DEF Tool!Init, Tool!Missing, Tool!InstallerTypeOK, Tool!Contents
<1>3. FileTypes
  BY DEF FileTypes, Passwords, NoPassword
<1>4. RtTypes
  BY DEF RtTypes, NewRuntime, Passwords, NoPassword
<1>5. ManagerTypes
  BY DEF ManagerTypes, NoManager, NewManager, NoneAlive, NoProcess, Processes, Passwords,
         NoPassword, Tool!Contents, Tool!Missing
<1>6. HandlerTypes
  BY DEF HandlerTypes, PCs
<1>7. CountTypes
  BY DEF CountTypes
<1>8. FlagTypes
  BY DEF FlagTypes
<1>9. CountInv /\ DirtyInv
  BY DEF CountInv, DirtyInv, Tree!Init, Tree!Absent
<1>10. FlowInv /\ ServiceInv
  BY DEF FlowInv, ServiceInv, Preparing, Stopping, Active, Composed, NewRuntime, NewManager,
         NoneAlive
<1>11. ProcessInv /\ ToolInv /\ PlaceInv /\ DiskInv /\ SessionInv
  BY DEF ProcessInv, ToolInv, PlaceInv, DiskInv, SessionInv, Preparing, Stopping, Composed,
         NewRuntime, NoneAlive, Live
<1> QED
  BY <1>1, <1>2, <1>3, <1>4, <1>5, <1>6, <1>7, <1>8, <1>9, <1>10, <1>11
  DEF Inv, TypeOK

(* Every step of every actor keeps the invariant.                          *)
LEMMA NextInv == Inv /\ [Next]_vars => Inv'
<1> SUFFICES ASSUME Inv, [Next]_vars PROVE Inv'
  OBVIOUS
<1>1. TypeOK'
  BY CountTypesKept, FlagTypesKept, HandlerTypesKept, FileTypesKept, RtTypesKept,
     ManagerTypesKept, ToolTypesKept, TreeTypesKept DEF Inv, TypeOK
<1>2. CountInv' /\ DirtyInv' /\ FlowInv' /\ ServiceInv'
  BY CountKept, DirtyKept, FlowKept, ServiceKept DEF Inv, TypeOK
<1>3. ProcessInv' /\ ToolInv' /\ PlaceInv' /\ SessionInv'
  BY ProcessKept, ToolKept, PlaceKept, SessionKept DEF Inv, TypeOK
<1>4. DiskInv'
  BY DiskKept DEF Inv, TypeOK
<1> QED
  BY <1>1, <1>2, <1>3, <1>4 DEF Inv

(* The invariant is inductive: it holds in every reachable state.          *)
THEOREM Invariance == Spec => []Inv
<1>1. Init => Inv
  BY InitInv
<1>2. Inv /\ [Next]_vars => Inv'
  BY NextInv
<1> QED
  BY <1>1, <1>2, PTL DEF Spec

-----------------------------------------------------------------------------
(* The invariants that follow.                                             *)

(* Every variable keeps a value of its kind.                               *)
THEOREM TypesAreCorrect == Spec => []TypeOK
<1>1. Inv => TypeOK
  BY DEF Inv
<1> QED
  BY <1>1, Invariance, PTL

(* Between commands, and before a composition is there, no process runs    *)
(* that a command could not reach.                                         *)
THEOREM NothingRunsUnmanagedHolds == Spec => []NothingRunsUnmanaged
<1>1. Inv => NothingRunsUnmanaged
  BY NoneUncomposed DEF Inv, NothingRunsUnmanaged, Composed, Live
<1> QED
  BY <1>1, Invariance, PTL

(* The password that up answers, the one on disk and the one every running *)
(* service was started with are the same.                                  *)
THEOREM CredentialsMatchHolds == Spec => []CredentialsMatch
<1>1. Inv => CredentialsMatch
  BY NoneUncomposed DEF Inv, CredentialsMatch, ProcessInv, Composed, Preparing, Live
<1> QED
  BY <1>1, Invariance, PTL

(* No unverified or other version of a tool is ever running.               *)
THEOREM LaunchedIsPinnedHolds == Spec => []LaunchedIsPinned
<1>1. Inv => LaunchedIsPinned
  BY DEF Inv, LaunchedIsPinned, ProcessInv
<1> QED
  BY <1>1, Invariance, PTL

(* What a running Runtime has started works in a clone of its repository.  *)
THEOREM RunsInItsRepositoryHolds == Spec => []RunsInItsRepository
<1>1. Inv => RunsInItsRepository
  BY DEF Inv, RunsInItsRepository, ProcessInv, PlaceInv, FlowInv, Settled
<1> QED
  BY <1>1, Invariance, PTL

(* The URLs that up answers are those of services that are managed and not *)
(* stopped.                                                                *)
THEOREM SummaryIsBackedHolds == Spec => []SummaryIsBacked
<1>1. Inv => SummaryIsBacked
  BY DEF Inv, SummaryIsBacked, FlowInv, ServiceInv, Active, Stopping
<1> QED
  BY <1>1, Invariance, PTL

-----------------------------------------------------------------------------
(* The action properties.                                                  *)

(* An up that fails has a reason outside the Runtime, or in its request.   *)
THEOREM UpFailsForCauseHolds == Spec => UpFailsForCause
<1>1. Inv /\ [Next]_vars => FailsForCause
  BY UpsFailForCause
<1>2. Inv /\ [Next]_vars => [FailsForCause]_vars
  BY <1>1
<1> QED
  BY <1>2, Invariance, PTL DEF Spec, UpFailsForCause

(* No command but Down, no recovery and no crash ends the user's shell.    *)
THEOREM ShellSurvivesHolds == Spec => ShellSurvives
<1>1. Inv /\ [Next]_vars => SparesShell
  BY ShellSpared DEF Inv, TypeOK
<1>2. Inv /\ [Next]_vars => [SparesShell]_vars
  BY <1>1
<1> QED
  BY <1>2, Invariance, PTL DEF Spec, ShellSurvives

(* No command changes what the user has not committed.                     *)
THEOREM EditsAreKeptHolds == Spec => EditsAreKept
<1>1. Inv /\ [Next]_vars => SparesEdits
  BY EditsSpared DEF Inv, TypeOK
<1>2. Inv /\ [Next]_vars => [SparesEdits]_vars
  BY <1>1
<1> QED
  BY <1>2, Invariance, PTL DEF Spec, EditsAreKept

(* A successful Down leaves neither process nor session that it could know *)
(* of.                                                                     *)
THEOREM DownLeavesNothingHolds == Spec => DownLeavesNothing
<1>1. Inv /\ [Next]_vars => LeavesNothing
  BY DownsClear DEF LeavesNothing, Inv, TypeOK, ServiceInv, SessionInv, Stopping, Live
<1>2. Inv /\ [Next]_vars => [LeavesNothing]_vars
  BY <1>1
<1> QED
  BY <1>2, Invariance, PTL DEF Spec, DownLeavesNothing

=============================================================================

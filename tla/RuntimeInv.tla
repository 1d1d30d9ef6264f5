------------------------------ MODULE RuntimeInv ------------------------------
(***************************************************************************)
(* The inductive invariant of the Runtime: what an Up has established at   *)
(* each of its control points, and what a published Manager keeps of it.   *)
(* RuntimeProofs shows that it is inductive.                               *)
(***************************************************************************)
EXTENDS Runtime

(* An Up that has found the ports free, up to its answer.                  *)
Preparing == {"credentials", "inspect", "clone", "verify", "checkout", "head", "download",
              "install", "start"}
Stopping  == {"destroy", "clear"}
Active    == {"healthy", "lost", "unhealthy"}

(* There is a composition: of this Up, or of the Manager published.        *)
Composed == rt.managed \/ pc = "start"

(* Only an Up makes new passwords, one at most.                            *)
CountInv == pc \in {"up", "credentials"} => passwords < commands

(* Changes nobody committed are in clones that have files.                 *)
DirtyInv == \A d \in Roots : tree[d].dirty => tree[d].phase \in {"checkout", "whole"}

FlowInv ==
  /\ rt.managed = rt.running
  /\ pc \in Preparing => ~rt.running
  /\ answer = "up" => rt.managed
  /\ rt.managed \/ pc \in Preparing => rt.version \in Versions
  /\ Composed => rt.terminal

(* What runs is Healthy, and what is Healthy belongs to a composition.  A   *)
(* Healthy service need not run: its monitor may have to notice yet.       *)
ServiceInv ==
  /\ \A s \in Services : alive[s] # NoProcess => state[s] = "healthy"
  /\ \A s \in Services : state[s] \in Active => Composed
  /\ pc = "start" => \A s \in Services \ todo : state[s] \in Active
  /\ rt.managed /\ rt.down = "never" /\ pc \notin Stopping =>
       \A s \in Services : state[s] \in Active
  /\ pc \in Stopping => \A s \in Services : state[s] \notin {"healthy", "lost"}

(* What runs is what the composition says.                                 *)
ProcessInv ==
  /\ \A s \in Live :
       alive[s] = [root |-> mgr.root, version |-> rt.version, password |-> mgr.password]
  /\ Composed => mgr.password = rt.password
  /\ rt.managed \/ pc \in Preparing \ {"credentials"} => saved = rt.password

(* The tools installed are those of the manifest.                          *)
ToolInv ==
  /\ pc \in {"download", "install"} => \A s \in Services \ todo : bin[s] = rt.version
  /\ Composed => \A s \in Services : bin[s] = rt.version
  /\ pc = "install" => body = rt.version \/ fault

(* The directory is a clone of the repository asked for, with a commit.  A *)
(* checkout is of some ref.                                                *)
Settled(d, repo) == tree[d].origin = repo /\ Tree!HasHead(d)

PlaceInv ==
  /\ pc \in {"checkout", "head"} /\ Tree!Exists(Dir) =>
       tree[Dir].origin = req.repo
  /\ pc = "checkout" => req.ref # NoRef
  /\ pc \in {"download", "install", "start"} => Settled(Dir, req.repo)
  /\ pc = "start" => mgr.root = Dir
  /\ rt.managed => rt.repo \in Repos /\ mgr.root = Root[rt.repo] /\ Settled(mgr.root, rt.repo)

(* No state.json, no services in it.                                       *)
DiskInv == disk.healthy # {} => disk.exists

(* Down knows of the session, unless the daemon that created it died       *)
(* before it saved anything.                                               *)
SessionInv ==
  /\ session # NoRoot /\ ~rt.terminal => died
  /\ pc \in Stopping /\ ~prior => ~disk.exists \/ fault
  /\ pc = "clear" /\ session # NoRoot => ~rt.terminal /\ ~prior

Inv ==
  /\ TypeOK /\ CountInv /\ DirtyInv /\ FlowInv /\ ServiceInv /\ ProcessInv /\ ToolInv
  /\ PlaceInv /\ DiskInv /\ SessionInv

=============================================================================

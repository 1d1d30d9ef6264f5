------------------------------- MODULE Workspace -------------------------------
(***************************************************************************)
(* The workspace manager, internal/workspace/workspace.go: the directories *)
(* that hold the target repositories, the git commands Prepare runs in one *)
(* of them, and what the user does there meanwhile, through the terminal    *)
(* or OpenCode.                                                             *)
(*                                                                          *)
(* The caller runs the steps of Prepare in their order; a step here is what *)
(* one git command does to the directory, or what it finds there.  Of a     *)
(* repository only what decides the outcome of those commands is kept: how  *)
(* far its clone has come, its origin, the one branch git clone creates,    *)
(* where HEAD is, and whether there are changes nobody committed.           *)
(***************************************************************************)
CONSTANTS
  Repos,     (* repositories (repositoryIdentity of their URLs)             *)
  Roots,     (* directories under the workspace root                        *)
  Branches,  (* branches of the remotes                                     *)
  Tags,      (* tags, and commits, of the remotes                           *)
  Main       (* the default branch of the remotes                           *)

VARIABLES
  tree,      (* what each directory holds                                   *)
  clones     (* the directories in which a git clone is at work             *)

workspaceVars == <<tree, clones>>

None  == "none"
NoRef == ""    (* no ref asked for: git clone takes the default branch     *)

Absent ==
  [phase |-> "absent", origin |-> None, branch |-> None, head |-> None, dirty |-> FALSE]

Init ==
  /\ tree = [r \in Roots |-> Absent]
  /\ clones = {}

(* os.Stat(.git)                                                           *)
Exists(r) == tree[r].phase # "absent"

(* rev-parse HEAD finds a commit: git clone has fetched the objects.       *)
HasHead(r) == tree[r].phase \in {"checkout", "whole"}

(* status --porcelain prints nothing.  Before the clone has a commit there *)
(* is nothing to compare with; while it checks files out they all differ.  *)
Clean(r) == tree[r].phase = "cloning" \/ (tree[r].phase = "whole" /\ ~tree[r].dirty)

(* Fault of the next operator: no verifyOrigin.                            *)
AnyOrigin(r, repo) == Exists(r)

(* verifyOrigin: remote get-url origin names the requested repository.     *)
SameOrigin(r, repo) == Exists(r) /\ tree[r].origin = repo

(* checkout --detach ref resolves ref: HEAD is born, and ref is a tag, a   *)
(* commit, or the branch the clone created.  Other branches exist only     *)
(* under origin/, where --detach does not look.                            *)
Resolves(r, ref) == HasHead(r) /\ (ref \in Tags \/ ref = tree[r].branch)

(* git clone [--branch ref]: git creates the directory and .git,           *)
CloneBegins(r, repo, ref) ==
  LET asked == IF ref = NoRef THEN Main ELSE ref IN
  /\ ~Exists(r) /\ r \notin clones
  /\ tree' = [tree EXCEPT ![r] =
                [phase |-> "cloning", origin |-> repo, head |-> asked, dirty |-> FALSE,
                 branch |-> IF asked \in Branches THEN asked ELSE None]]
  /\ clones' = clones \cup {r}

(* fetches the objects and sets HEAD, and then checks out the files.       *)
CloneAdvances(r) ==
  /\ r \in clones
  /\ \/ /\ tree[r].phase = "cloning"
        /\ tree' = [tree EXCEPT ![r].phase = "checkout"]
        /\ UNCHANGED clones
     \/ /\ tree[r].phase = "checkout"
        /\ tree' = [tree EXCEPT ![r].phase = "whole"]
        /\ clones' = clones \ {r}

(* When the fetch fails git clone removes what it has created;             *)
CloneFails(r) ==
  /\ r \in clones /\ tree[r].phase = "cloning"
  /\ tree' = [tree EXCEPT ![r] = Absent]
  /\ clones' = clones \ {r}

(* when the deadline of the startup kills it (SIGKILL), or the checkout of *)
(* the files fails, it does not.                                           *)
CloneKilled(r) ==
  /\ r \in clones
  /\ clones' = clones \ {r}
  /\ UNCHANGED tree

(* Fault of the next operator: checkout --force.                           *)
CheckoutForced(r, ref) ==
  /\ Resolves(r, ref)
  /\ tree' = [tree EXCEPT ![r].head = ref, ![r].dirty = FALSE]
  /\ UNCHANGED clones

(* checkout --detach ref, which carries along what was changed meanwhile.  *)
Checkout(r, ref) ==
  /\ Resolves(r, ref)
  /\ tree' = [tree EXCEPT ![r].head = ref]
  /\ UNCHANGED clones

(* It refuses when it would overwrite such a change.                       *)
CheckoutRefused(r) == tree[r].dirty /\ UNCHANGED workspaceVars

(* The user edits files that git has written, in a clone that goes on or   *)
(* was cut short as well as in a whole one.                                *)
UserEdits(r) ==
  /\ HasHead(r) /\ ~tree[r].dirty
  /\ tree' = [tree EXCEPT ![r].dirty = TRUE]
  /\ UNCHANGED clones

(* The user commits everything, or throws it away.                         *)
UserCleans(r) ==
  /\ tree[r].dirty
  /\ tree' = [tree EXCEPT ![r].dirty = FALSE]
  /\ UNCHANGED clones

Trees ==
  [phase : {"absent", "cloning", "checkout", "whole"}, origin : Repos \cup {None},
   branch : Branches \cup {None}, head : Branches \cup Tags \cup {None}, dirty : BOOLEAN]

WorkspaceTypeOK == tree \in [Roots -> Trees] /\ clones \subseteq Roots

=============================================================================

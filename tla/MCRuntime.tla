------------------------------- MODULE MCRuntime -------------------------------
(* A small composition and the requests of a user with two workspaces.     *)
EXTENDS RuntimeInv

MCServices == {"opencode", "terminal"}

(* Two repositories whose paths end in the same name share a directory.    *)
MCRoot == [r \in {"one", "fork", "two"} |-> IF r = "two" THEN "dir2" ELSE "dir1"]

MCRequests ==
  {[repo |-> "one",  ref |-> "main", version |-> 1],
   [repo |-> "one",  ref |-> "dev",  version |-> 1],
   [repo |-> "fork", ref |-> "",     version |-> 1],
   [repo |-> "two",  ref |-> "",     version |-> 2]}

=============================================================================

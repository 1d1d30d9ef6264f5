--------------------------- MODULE ServiceLifecycle ---------------------------
(***************************************************************************)
(* What the supervisor promises about each service it manages, without the *)
(* handle map, the generations, the lock and the goroutines that bring it   *)
(* about: the state it reports (supervisor.State) and whether a process of  *)
(* the service runs.                                                        *)
(***************************************************************************)
CONSTANT Services

VARIABLES
  state,     (* the state reported for each service                        *)
  running    (* the services with a process that has not been given up     *)

lifecycle == <<state, running>>

Init ==
  /\ state = [s \in Services |-> "absent"]
  /\ running = {}

Move(s, from, to) ==
  /\ state[s] \in from
  /\ state' = [state EXCEPT ![s] = to]
  /\ UNCHANGED running

(* A start begins only where the service is not healthy and has no process. *)
Begin(s) == s \notin running /\ Move(s, {"absent", "stopped", "unhealthy"}, "starting")

(* A process is launched only during a start, and only if there is none.    *)
Launch(s) ==
  /\ state[s] = "starting" /\ s \notin running
  /\ running' = running \cup {s}
  /\ UNCHANGED state

Ready(s) == Move(s, {"starting"}, "healthy")
Fail(s)  == Move(s, {"starting"}, "unhealthy")

(* A healthy service becomes unhealthy only because its process is gone.    *)
Lose(s)  == s \notin running /\ Move(s, {"healthy"}, "unhealthy")

Stop(s)  == Move(s, {"absent", "stopped", "starting", "healthy", "unhealthy"}, "stopped")

(* A process exits, by itself or because it is stopped, or it is given up   *)
(* because its Stop has failed.                                             *)
Exit(s) ==
  /\ s \in running
  /\ running' = running \ {s}
  /\ UNCHANGED state

Next ==
  \E s \in Services :
    Begin(s) \/ Launch(s) \/ Ready(s) \/ Fail(s) \/ Lose(s) \/ Stop(s) \/ Exit(s)

Spec == Init /\ [][Next]_lifecycle

=============================================================================

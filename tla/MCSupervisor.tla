----------------------------- MODULE MCSupervisor -----------------------------
(* Small compositions of services for TLC.                                 *)
EXTENDS SupervisorInv

(* terminal <- tunnel, as compose() builds it.                             *)
PairServices == {"terminal", "tunnel"}
PairDeps == [s \in PairServices |-> IF s = "tunnel" THEN {"terminal"} ELSE {}]

=============================================================================

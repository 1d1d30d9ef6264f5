---------------------------- MODULE MCControlPlane ----------------------------
(***************************************************************************)
(* The instances of ControlPlane that TLC checks: two or three invocations, *)
(* model values that the safety runs may permute.                           *)
(***************************************************************************)
EXTENDS ControlPlaneInv, TLC

ClientSymmetry == Permutations(Clients)

=============================================================================

------------------------------ MODULE MCRedeem ------------------------------
(* Instances of Redeem for TLC. *)
EXTENDS Redeem

CONSTANTS p1, p2
=============================================================================

------------------------------ MODULE MCScanner ------------------------------
(* An instance of Scanner for TLC. *)
EXTENDS Scanner
=============================================================================

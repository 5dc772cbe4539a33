----------------------------- MODULE MCTracking -----------------------------
(* An instance of Tracking for TLC. *)
EXTENDS Tracking

\* Two locations, which may be one place inserted twice, and two organisations.
CONSTANTS l1, l2, o1, o2

\* An invalid fix, two that are good enough and two that are not.
MCAccuracies == {-1, 5, 10, 30, 60}
=============================================================================

------------------------------- MODULE MCHunt -------------------------------
(* Instances of Hunt for TLC. *)
EXTENDS Hunt, TLC

CONSTANTS p1, p2, c1, c2, c3

\* Two coins of one location and one of another, which the second project has too.
MCCoinsOf == (p1 :> {c1, c2, c3}) @@ (p2 :> {c3})
MCLocationOf == (c1 :> "arena") @@ (c2 :> "arena") @@ (c3 :> "bath")
MCRank == (c1 :> 1) @@ (c2 :> 1) @@ (c3 :> 2)

\* The two coins of one location carry one name too: only their identity differs.
MCSymmetry == Permutations({c1, c2})
=============================================================================

------------------------------ MODULE MCSaver -------------------------------
(* Instances of Saver for TLC. *)
EXTENDS Saver, TLC

CONSTANTS p1, p2, c1, l1, l2

\* No coins, no locations; one coin; one coin that is named like the
\* organisation, whose object carries the name of the project: their images share a
\* file.
NoCoin == (p1 :> {}) @@ (p2 :> {})
NoLocation == (p1 :> {}) @@ (p2 :> {})
OneCoin == (p1 :> {c1}) @@ (p2 :> {})
OrganisationCoin == (p1 :> {p1})

\* Two projects; the location of the second is malformed.
TwoLocations == (p1 :> {l1}) @@ (p2 :> {l2})
=============================================================================

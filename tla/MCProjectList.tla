--------------------------- MODULE MCProjectList ----------------------------
(* Instances of ProjectList for TLC. *)
EXTENDS ProjectList, TLC

CONSTANTS o1, o2, p1, p2, p3

\* Two organisations with a project each, one of them with a malformed one too.
MCProjectsOf == (o1 :> {p1}) @@ (o2 :> {p2, p3})
=============================================================================

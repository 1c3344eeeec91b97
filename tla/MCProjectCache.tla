---------------------------- MODULE MCProjectCache ----------------------------
(* Three projects, the first two created without a key. *)
EXTENDS ProjectCache, TLC

CONSTANTS p1, p2, p3

MCProjects == {p1, p2, p3}
MCCreatedAt == p1 :> 1 @@ p2 :> 2 @@ p3 :> 3
MCKeyOf == p1 :> "" @@ p2 :> "" @@ p3 :> "KEY"
=============================================================================

--------------------------- MODULE MCHostSession ---------------------------
(* Instances of HostSession for TLC. *)
EXTENDS HostSession, TLC

CONSTANTS c1, c2

(* One code; and one that expires early beside one that lasts longer. *)
OneExpiry == c1 :> 3
ShortExpiries == (c1 :> 1) @@ (c2 :> 2)
TwoExpiries == (c1 :> 2) @@ (c2 :> 3)

(* The requests to validate are interchangeable. *)
Symmetry == Permutations(Caller)
=============================================================================

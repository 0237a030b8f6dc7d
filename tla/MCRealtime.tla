----------------------------- MODULE MCRealtime -----------------------------
(* Instances of Realtime for TLC. *)
EXTENDS Realtime, TLC

(* The connections of tabs are interchangeable. *)
Symmetry == Permutations(HostConn)
=============================================================================

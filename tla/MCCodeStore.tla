---------------------------- MODULE MCCodeStore ----------------------------
(* Instances of CodeStore for TLC. *)
EXTENDS CodeStore, TLC

(* Invocations, requests and visitors are interchangeable, and so are codes.  *)
Symmetry == Permutations(Handler) \cup Permutations(Request)
              \cup Permutations(Code) \cup Permutations(Cookie)
=============================================================================

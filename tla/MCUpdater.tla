------------------------------ MODULE MCUpdater ------------------------------
(* Instances of Updater for TLC. *)
EXTENDS Updater, TLC

(* Three releases; the last ships no `interface`. *)
Releases == {<<1, 9, 1>>, <<1, 10>>, <<2>>}
Bundles == [v \in Releases |-> IF v = <<2>> THEN Entry \ {"interface"} ELSE Entry]

(* Versions of other lengths, numbered alike (2 and 2.0), or not numbers *)
Compared == Releases \cup {<<1, 9>>, <<2, 0>>, <<2, 0, 1>>, <<NaN>>, <<1, NaN, 10>>, <<NaN, 10>>}
=============================================================================

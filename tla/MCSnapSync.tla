----------------------------- MODULE MCSnapSync -----------------------------
(* Instances of SnapSync for TLC. *)
EXTENDS SnapSync, TLC

CONSTANTS m1, w1, w2

OneMap == {m1}
TwoWorlds == {w1, w2}
OneWorld == {w1}

(* No action tells one world from the other. *)
AnyWorld == Permutations(TwoWorlds)
=============================================================================

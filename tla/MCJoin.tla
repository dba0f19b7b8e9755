------------------------------- MODULE MCJoin -------------------------------
(* Instances of Join for TLC. *)
EXTENDS Join

CONSTANTS m1, m2, m3

AllMaps == {m1, m2, m3}
TwoMaps == {m1, m2}
OneMap == {m1}
=============================================================================

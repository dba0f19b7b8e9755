---------------------------- MODULE MCNetServer ----------------------------
(* Instances of NetServer for TLC: one player who keeps coming back. *)
EXTENDS NetServer

CONSTANTS a1, h1, k1

OneHost == [a \in Addrs |-> h1]
OnePlayer == [a \in Addrs |-> k1]
ThreeTimes == [a \in Addrs |-> 3]
=============================================================================

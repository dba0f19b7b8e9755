----------------------------- MODULE MCNetConn ------------------------------
(* Instances of NetConn for TLC. *)
EXTENDS NetConn

(* One side queues enough chunks for its numbers to wrap, the other none. *)
OneWay == [p \in Peer |-> IF p = A THEN 7 ELSE 0]

(* Both sides queue. *)
BothWays == [p \in Peer |-> IF p = A THEN 2 ELSE 1]

(* A few chunks one way. *)
Few == [p \in Peer |-> IF p = A THEN 3 ELSE 0]
=============================================================================

--------------------------- MODULE ReliableStream ---------------------------
(***************************************************************************)
(* What the transport promises to the layers above it: between two peers   *)
(* there are two streams of vital messages, one each way, and each side    *)
(* takes the other side's messages in the order they were queued, every    *)
(* one once, with none left out.  Messages of a stream are numbered from 1 *)
(* and stand for their payloads.                                           *)
(***************************************************************************)
EXTENDS Integers, Sequences

CONSTANTS A, B          \* the two ends of the connection

VARIABLES
  sent,                 \* sent[p]: how many vital messages p has queued
  delivered             \* delivered[p]: the messages of its peer p has taken

Peer == {A, B}
Other(p) == IF p = A THEN B ELSE A

Init == /\ sent = [p \in Peer |-> 0]
        /\ delivered = [p \in Peer |-> << >>]

(* The application of p queues its next vital message. *)
Queue(p) == /\ sent' = [sent EXCEPT ![p] = @ + 1]
            /\ UNCHANGED delivered

(* p takes the next message of its peer. *)
Take(p) == /\ Len(delivered[p]) < sent[Other(p)]
           /\ delivered' = [delivered EXCEPT ![p] = Append(@, Len(@) + 1)]
           /\ UNCHANGED sent

Next == \E p \in Peer : Queue(p) \/ Take(p)

Spec == Init /\ [][Next]_<<sent, delivered>>
=============================================================================

------------------------------- MODULE SeqNum -------------------------------
(***************************************************************************)
(* The circular sequence numbers of the transport: what                    *)
(* engine/shared/network_conn.cpp and network.cpp compute from the 10-bit  *)
(* numbers that travel in packet and chunk headers.  MaxSeq is             *)
(* NET_MAX_SEQUENCE (1 << 10 in the code); the runs use small even values. *)
(***************************************************************************)
EXTENDS Integers

CONSTANT MaxSeq

ASSUME MaxSeqAssumption == /\ MaxSeq \in Nat
                           /\ MaxSeq >= 4
                           /\ MaxSeq % 2 = 0

SeqNums == 0 .. (MaxSeq - 1)

(* NET_MAX_SEQUENCE / 2, the depth of the backroom. *)
Half == MaxSeq \div 2

(* The number of the vital chunk after the one numbered s. *)
NextSeq(s) == (s + 1) % MaxSeq

(* A slip: the backroom reaching one number too far. *)
IsSeqInBackroom_Ahead(s, a) ==
  LET bottom == a - Half
  IN IF bottom < 0
     THEN s <= a + 1 \/ s >= bottom + MaxSeq
     ELSE bottom <= s /\ s <= a + 1

(* CNetBase::IsSeqInBackroom: s lies in the half window that ends at a,    *)
(* so the holder of acknowledgement a has already taken chunk s.           *)
IsSeqInBackroom(s, a) ==
  LET bottom == a - Half
  IN IF bottom < 0
     THEN s <= a \/ s >= bottom + MaxSeq
     ELSE bottom <= s /\ s <= a

(* A slip: an acknowledgement has to be new. *)
AckValid_Strict(sequence, peerAck, a) ==
  IF sequence >= peerAck
  THEN peerAck < a /\ a <= sequence
  ELSE peerAck < a \/ a <= sequence

(* The check at the top of CNetConnection::Feed: the acknowledgement a of  *)
(* an incoming packet lies on the arc from the last acknowledgement the    *)
(* peer sent to the number of the last chunk queued here.                  *)
AckValid(sequence, peerAck, a) ==
  IF sequence >= peerAck
  THEN peerAck <= a /\ a <= sequence
  ELSE peerAck <= a \/ a <= sequence
=============================================================================

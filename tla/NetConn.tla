------------------------------ MODULE NetConn -------------------------------
(***************************************************************************)
(* CNetConnection and CNetRecvUnpacker while a connection is up: how vital *)
(* chunks are numbered, packed, acknowledged, resent and taken in order    *)
(* over UDP (engine/shared/network_conn.cpp, network.cpp).                 *)
(*                                                                         *)
(* A chunk is its sequence number and its index in its sender's stream;    *)
(* the index stands for the payload and is never looked at by the code.    *)
(* The network may lose, repeat and reorder packets.  Time is abstract:    *)
(* every comparison with time_get() may come out either way.               *)
(***************************************************************************)
EXTENDS SeqNum, Sequences, FiniteSets

CONSTANTS
  A, B,          \* the two ends of the connection
  PacketCap,     \* chunks that fit into one packet (NET_MAX_PAYLOAD)
  BufSure,       \* chunks the resend ring holds whatever their sizes
  BufCap,        \* chunks the resend ring holds at most (NET_CONN_BUFFERSIZE)
  Window,        \* bound: vital chunks an application has unacknowledged
  MaxMsgs,       \* bound: MaxMsgs[p] vital chunks queued by p
  MaxInFlight,   \* bound: packets in the network at a time
  Timeouts       \* whether a connection may time out

Peer == {A, B}
Other(p) == IF p = A THEN B ELSE A

ASSUME ConnAssumption ==
  /\ A # B
  /\ PacketCap \in 1 .. Half
  /\ BufSure \in Nat
  /\ BufCap \in Nat
  /\ BufSure <= BufCap
  /\ Window \in 0 .. (Half - 1)
  /\ MaxMsgs \in [Peer -> Nat]
  /\ MaxInFlight \in Nat
  /\ Timeouts \in BOOLEAN

VARIABLES
  state,         \* m_State: "online" or "error"
  seq,           \* m_Sequence: number of the last vital chunk queued
  ack,           \* m_Ack: number of the last vital chunk taken
  peerAck,       \* m_PeerAck: last acknowledgement accepted from the peer
  buffer,        \* m_Buffer: vital chunks kept for a resend, oldest first
  construct,     \* m_Construct: the packet being filled
  unpack,        \* m_RecvUnpacker: chunks of the last packet not yet fetched
  net,           \* packets in the network
  sent,          \* history: vital chunks queued so far
  delivered,     \* history: indices of the chunks taken so far
  acked,         \* history: the index that peerAck stands for
  unsaved        \* history: indices queued without a copy in the buffer

vars == <<state, seq, ack, peerAck, buffer, construct, unpack, net,
          sent, delivered, acked, unsaved>>

Chunk == [seq : SeqNums, idx : Nat \ {0}]
Packet == [from : Peer, ack : SeqNums, ackIdx : Nat, resend : BOOLEAN,
           chunks : Seq(Chunk)]
Construct == [chunks : Seq(Chunk), resend : BOOLEAN]
Empty == [chunks |-> << >>, resend |-> FALSE]

TypeOK ==
  /\ state \in [Peer -> {"online", "error"}]
  /\ seq \in [Peer -> SeqNums]
  /\ ack \in [Peer -> SeqNums]
  /\ peerAck \in [Peer -> SeqNums]
  /\ buffer \in [Peer -> Seq(Chunk)]
  /\ construct \in [Peer -> Construct]
  /\ unpack \in [Peer -> Seq(Chunk)]
  /\ net \in SUBSET Packet
  /\ sent \in [Peer -> Nat]
  /\ delivered \in [Peer -> Seq(Nat)]
  /\ acked \in [Peer -> Nat]
  /\ unsaved \in [Peer -> SUBSET Nat]

Init ==
  /\ state = [p \in Peer |-> "online"]
  /\ seq = [p \in Peer |-> 0]
  /\ ack = [p \in Peer |-> 0]
  /\ peerAck = [p \in Peer |-> 0]
  /\ buffer = [p \in Peer |-> << >>]
  /\ construct = [p \in Peer |-> Empty]
  /\ unpack = [p \in Peer |-> << >>]
  /\ net = {}
  /\ sent = [p \in Peer |-> 0]
  /\ delivered = [p \in Peer |-> << >>]
  /\ acked = [p \in Peer |-> 0]
  /\ unsaved = [p \in Peer |-> {}]

-----------------------------------------------------------------------------
(* Building packets.  An operator returns the packets it sends (out) and   *)
(* the construct it leaves (con).                                          *)

MakePacket(p, chunks, resend) ==
  [from |-> p, ack |-> ack[p], ackIdx |-> Len(delivered[p]),
   resend |-> resend, chunks |-> chunks]

(* Flush: the construct leaves if it holds a chunk or a flag. *)
Flush(p, con) ==
  IF con = Empty
  THEN [out |-> {}, con |-> con]
  ELSE [out |-> {MakePacket(p, con.chunks, con.resend)}, con |-> Empty]

(* QueueChunkEx for each chunk of "more" in turn: a chunk that does not    *)
(* fit flushes the construct first, so full packets leave and the rest     *)
(* stays.                                                                  *)
QueueChunks(p, con, more) ==
  LET all  == con.chunks \o more
      full == IF all = << >> THEN 0 ELSE (Len(all) - 1) \div PacketCap
      Piece(i) == SubSeq(all, (i - 1) * PacketCap + 1, i * PacketCap)
  IN IF full = 0
     THEN [out |-> {}, con |-> [con EXCEPT !.chunks = all]]
     ELSE [out |-> {MakePacket(p, Piece(i), con.resend /\ i = 1) : i \in 1 .. full},
           con |-> [chunks |-> SubSeq(all, full * PacketCap + 1, Len(all)),
                    resend |-> FALSE]]

(* UDP: any packet handed to the socket or under way may be lost.          *)
Transmit(out) ==
  net' \in {n \in SUBSET (net \cup out) : Cardinality(n) <= MaxInFlight}

-----------------------------------------------------------------------------
(* QueueChunk with the vital flag.  The sequence number advances first;    *)
(* in the error state the chunk then goes nowhere, and when the resend     *)
(* ring has no room it is sent without a copy being kept.  The ring holds  *)
(* bytes: how many chunks find room depends on their sizes.                *)
QueueVital(p, room) ==
  /\ IF room THEN Len(buffer[p]) < BufCap ELSE Len(buffer[p]) >= BufSure
  /\ sent[p] < MaxMsgs[p]
  /\ sent[p] - acked[p] < Window
  /\ LET chunk == [seq |-> NextSeq(seq[p]), idx |-> sent[p] + 1]
         queued == QueueChunks(p, construct[p], <<chunk>>)
         saved == state[p] = "online" /\ room
     IN /\ seq' = [seq EXCEPT ![p] = chunk.seq]
        /\ sent' = [sent EXCEPT ![p] = chunk.idx]
        /\ IF state[p] = "online"
           THEN /\ construct' = [construct EXCEPT ![p] = queued.con]
                /\ Transmit(queued.out)
           ELSE UNCHANGED <<construct, net>>
        /\ IF saved
           THEN buffer' = [buffer EXCEPT ![p] = Append(@, chunk)] /\ UNCHANGED unsaved
           ELSE unsaved' = [unsaved EXCEPT ![p] = @ \cup {chunk.idx}] /\ UNCHANGED buffer
  /\ UNCHANGED <<state, ack, peerAck, unpack, delivered, acked>>

(* The application asks for the construct to be sent (the flush flag). *)
FlushNow(p) ==
  /\ state[p] = "online"
  /\ construct[p] # Empty
  /\ LET flushed == Flush(p, construct[p])
     IN /\ construct' = [construct EXCEPT ![p] = flushed.con]
        /\ Transmit(flushed.out)
  /\ UNCHANGED <<state, seq, ack, peerAck, buffer, unpack, sent, delivered,
                 acked, unsaved>>

(* Update on a live connection: the oldest unacknowledged chunk is queued  *)
(* again when its last send is a second old, the construct is flushed when *)
(* nothing left for half a second, and a keepalive goes out when nothing   *)
(* left for a second.                                                      *)
UpdateTick(p, old, quiet, silent) ==
  /\ state[p] = "online"
  /\ unpack[p] = << >>
  /\ LET resent == IF old /\ buffer[p] # << >>
                   THEN QueueChunks(p, construct[p], <<Head(buffer[p])>>)
                   ELSE [out |-> {}, con |-> construct[p]]
         flushed == IF quiet /\ resent.out = {}
                    THEN Flush(p, resent.con)
                    ELSE [out |-> {}, con |-> resent.con]
         alive == IF quiet /\ silent /\ resent.out = {} /\ flushed.out = {}
                  THEN {MakePacket(p, << >>, FALSE)} ELSE {}
     IN /\ construct' = [construct EXCEPT ![p] = flushed.con]
        /\ Transmit(resent.out \cup flushed.out \cup alive)
  /\ UNCHANGED <<state, seq, ack, peerAck, buffer, unpack, sent, delivered,
                 acked, unsaved>>

(* Update finds that nothing was received, or that the oldest chunk was    *)
(* not acknowledged, for conn_timeout seconds.                             *)
UpdateTimeout(p) ==
  /\ Timeouts
  /\ state[p] = "online"
  /\ unpack[p] = << >>
  /\ state' = [state EXCEPT ![p] = "error"]
  /\ UNCHANGED <<seq, ack, peerAck, buffer, construct, unpack, net, sent,
                 delivered, acked, unsaved>>

-----------------------------------------------------------------------------
(* AckChunks: chunks leave the front of the resend ring while they lie in  *)
(* the backroom of the acknowledgement.                                    *)
AckChunks(buf, a) ==
  LET Waiting(i) == ~ IsSeqInBackroom(buf[i].seq, a)
      first == IF \E i \in 1 .. Len(buf) : Waiting(i)
               THEN CHOOSE i \in 1 .. Len(buf) :
                      Waiting(i) /\ \A j \in 1 .. (i - 1) : ~ Waiting(j)
               ELSE Len(buf) + 1
  IN SubSeq(buf, first, Len(buf))

(* The bound on reordering: a packet that arrives is at most half a        *)
(* sequence space behind what its receiver has already seen.               *)
Fresh(p, pkt) ==
  /\ pkt.ackIdx + Half > acked[p]
  /\ \A i \in 1 .. Len(pkt.chunks) : pkt.chunks[i].idx + Half > Len(delivered[p])

(* Feed: a packet of the peer arrives and may arrive again.  A stale       *)
(* acknowledgement discards it whole; otherwise a requested resend is      *)
(* queued before the acknowledgement empties the ring, and the chunks wait *)
(* to be fetched.                                                          *)
Feed(p, pkt) ==
  /\ state[p] = "online"
  /\ unpack[p] = << >>
  /\ pkt.from = Other(p)
  /\ Fresh(p, pkt)
  /\ AckValid(seq[p], peerAck[p], pkt.ack)
  /\ peerAck' = [peerAck EXCEPT ![p] = pkt.ack]
  /\ acked' = [acked EXCEPT ![p] = pkt.ackIdx]
  /\ LET resent == IF pkt.resend
                   THEN QueueChunks(p, construct[p], buffer[p])
                   ELSE [out |-> {}, con |-> construct[p]]
     IN /\ construct' = [construct EXCEPT ![p] = resent.con]
        /\ Transmit(resent.out)
  /\ buffer' = [buffer EXCEPT ![p] = AckChunks(@, pkt.ack)]
  /\ unpack' = [unpack EXCEPT ![p] = pkt.chunks]
  /\ UNCHANGED <<state, seq, ack, sent, delivered, unsaved>>

(* Two slips: taking whatever is not old, and taking a chunk twice. *)
InSequence_NotOld(p, chunk) == ~ IsSeqInBackroom(chunk.seq, ack[p])
InSequence_Again(p, chunk) == chunk.seq \in {ack[p], NextSeq(ack[p])}

(* The chunk is the one after the last chunk taken. *)
InSequence(p, chunk) == chunk.seq = NextSeq(ack[p])

(* FetchChunk: the next chunk of the packet is taken when it is the next   *)
(* in sequence, ignored when it was taken before, and otherwise a gap is   *)
(* seen and a resend is requested with the next packet.                    *)
FetchChunk(p) ==
  /\ unpack[p] # << >>
  /\ unpack' = [unpack EXCEPT ![p] = Tail(@)]
  /\ LET chunk == Head(unpack[p])
     IN \/ /\ InSequence(p, chunk)
           /\ ack' = [ack EXCEPT ![p] = chunk.seq]
           /\ delivered' = [delivered EXCEPT ![p] = Append(@, chunk.idx)]
           /\ UNCHANGED construct
        \/ /\ ~ InSequence(p, chunk)
           /\ IF IsSeqInBackroom(chunk.seq, ack[p])
              THEN UNCHANGED construct
              ELSE construct' = [construct EXCEPT ![p].resend = TRUE]
           /\ UNCHANGED <<ack, delivered>>
  /\ UNCHANGED <<state, seq, peerAck, buffer, net, sent, acked, unsaved>>

Next ==
  \E p \in Peer : \/ \E room \in BOOLEAN : QueueVital(p, room)
                  \/ FlushNow(p)
                  \/ \E old, quiet, silent \in BOOLEAN :
                       UpdateTick(p, old, quiet, silent)
                  \/ UpdateTimeout(p)
                  \/ \E pkt \in net : Feed(p, pkt)
                  \/ FetchChunk(p)

Spec == Init /\ [][Next]_vars

-----------------------------------------------------------------------------
(* Properties.                                                             *)

(* Whatever the network loses, repeats or reorders, the chunks a side has  *)
(* taken are its peer's chunks 1, 2, 3, ... in the order they were queued: *)
(* none twice, none skipped, across every wrap of the numbers.             *)
InOrder ==
  \A p \in Peer : /\ Len(delivered[p]) <= sent[Other(p)]
                  /\ \A i \in 1 .. Len(delivered[p]) : delivered[p][i] = i

(* A chunk the peer has not taken can still be resent: an acknowledgement  *)
(* never takes an untaken chunk out of the resend ring.  The exception is  *)
(* the one QueueChunkEx names, a chunk that found the ring full (or the    *)
(* connection in error) when it was queued.                                *)
NoUnackedLoss ==
  \A p \in Peer : \A i \in (Len(delivered[Other(p)]) + 1) .. sent[p] :
     i \in unsaved[p] \/ \E k \in 1 .. Len(buffer[p]) : buffer[p][k].idx = i

(* A late packet never moves the accepted acknowledgement back, even when  *)
(* its number is the larger one.                                           *)
AckMonotone == [][\A p \in Peer : acked'[p] >= acked[p]]_vars

(* The two streams of an abstract reliable connection.                     *)
RS == INSTANCE ReliableStream
ReliableSpec == RS!Spec

(* The engine's scheduling and a network that may lose any packet but not  *)
(* every packet.  Each side keeps calling Update while time passes, and    *)
(* fetches every chunk of a packet; of the packets that keep being sent    *)
(* with the next chunk, or with a newer acknowledgement, some arrive.      *)
CarriesNext(p, pkt) ==
  /\ pkt.from = Other(p)
  /\ \E i \in 1 .. Len(pkt.chunks) : pkt.chunks[i].idx = Len(delivered[p]) + 1
CarriesAck(p, pkt) == pkt.from = Other(p) /\ pkt.ackIdx > acked[p]

Sends(p) == /\ unpack[Other(p)] = << >>
            /\ \/ FlushNow(p)
               \/ \E old, quiet, silent \in BOOLEAN : UpdateTick(p, old, quiet, silent)
               \/ \E pkt \in net : Feed(p, pkt)

FairSpec ==
  /\ Spec
  /\ \A p \in Peer :
       /\ WF_vars(UpdateTick(p, TRUE, TRUE, TRUE))
       /\ WF_vars(FetchChunk(p))
       /\ SF_vars(Sends(p) /\ \E pkt \in net' \ net : CarriesNext(Other(p), pkt))
       /\ SF_vars(Sends(p) /\ \E pkt \in net' \ net : CarriesAck(Other(p), pkt))
       /\ SF_vars(\E pkt \in net : Feed(p, pkt) /\ CarriesNext(p, pkt))
       /\ SF_vars(\E pkt \in net : Feed(p, pkt) /\ CarriesAck(p, pkt))

(* A chunk that the peer has not taken and of which no copy is left: none  *)
(* waits to be sent or to be fetched, and a packet under way that carries  *)
(* it has an acknowledgement that the peer already holds to be stale.      *)
Lost(p, i) ==
  LET q == Other(p)
      Carries(chunks) == \E k \in 1 .. Len(chunks) : chunks[k].idx = i
  IN /\ Len(delivered[q]) < i /\ i <= sent[p]
     /\ ~ Carries(buffer[p]) /\ ~ Carries(construct[p].chunks) /\ ~ Carries(unpack[q])
     /\ \A pkt \in net : pkt.from = p /\ Carries(pkt.chunks)
                          => ~ AckValid(seq[q], peerAck[q], pkt.ack)

(* Every chunk that was queued is eventually taken, unless one side gives  *)
(* the connection up, or it or one before it was sent without a copy (the  *)
(* resend ring was full) and the network lost it: nobody resends that one, *)
(* and no chunk after it is in sequence.  A chunk with a copy is not       *)
(* excused, whatever else is queued or lost.                               *)
EventualDelivery ==
  \A p \in Peer : \A i \in 1 .. MaxMsgs[p] :
     sent[p] >= i ~> \/ Len(delivered[Other(p)]) >= i
                    \/ \E q \in Peer : state[q] = "error"
                    \/ \E j \in unsaved[p] : j <= i /\ Lost(p, j)
=============================================================================

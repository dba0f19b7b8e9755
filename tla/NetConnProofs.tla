--------------------------- MODULE NetConnProofs ----------------------------
(***************************************************************************)
(* Exactly-once, in-order delivery and no loss of unacknowledged chunks,   *)
(* for every sequence space, packet size, ring size and number of chunks.  *)
(*                                                                         *)
(* The numbers on the wire only identify a chunk modulo MaxSeq.  The       *)
(* inductive invariant IndInv ties every number to the index it stands for *)
(* and bounds how far apart the indices in play are, so that the first     *)
(* lemmas apply: what the circular comparisons of SeqNum decide about the  *)
(* unbounded indices, and how far apart those may be for it to be right.   *)
(***************************************************************************)
EXTENDS NetConn, TLAPS, WellFoundedInduction

(* The half window really is half of the sequence space. *)
LEMMA HalfFacts == /\ Half \in Nat /\ Half >= 2 /\ MaxSeq = 2 * Half
BY MaxSeqAssumption DEF Half

(* Division with remainder by MaxSeq. *)
LEMMA DivFacts ==
  ASSUME NEW x \in Nat
  PROVE  /\ (x % MaxSeq) \in SeqNums
         /\ x \div MaxSeq \in Nat
         /\ x = MaxSeq * (x \div MaxSeq) + (x % MaxSeq)
BY MaxSeqAssumption DEF SeqNums

(* Quotient and remainder are unique. *)
LEMMA ModUnique ==
  ASSUME NEW x \in Nat, NEW q \in Int, NEW r \in SeqNums, x = MaxSeq * q + r
  PROVE  (x % MaxSeq) = r
<1> DEFINE d == x \div MaxSeq
           m == (x % MaxSeq)
<1>1. /\ m \in 0 .. (MaxSeq - 1) /\ d \in Int /\ x = MaxSeq * d + m
  BY DivFacts DEF SeqNums
<1>2. r \in 0 .. (MaxSeq - 1)
  BY DEF SeqNums
<1> HIDE DEF d, m
<1>3. MaxSeq * (d - q) = r - m
  <2>1. MaxSeq * (d - q) = MaxSeq * d - MaxSeq * q
    BY <1>1, MaxSeqAssumption
  <2>2. MaxSeq * d \in Int /\ MaxSeq * q \in Int
    BY <1>1, MaxSeqAssumption
  <2>3. QED
    BY <1>1, <1>2, <2>1, <2>2
<1>4. ~ (d - q >= 1)
  <2>1. ASSUME d - q >= 1 PROVE MaxSeq * (d - q) >= MaxSeq
    BY <2>1, <1>1, MaxSeqAssumption
  <2>2. QED
    BY <2>1, <1>1, <1>2, <1>3, MaxSeqAssumption
<1>5. ~ (d - q <= -1)
  <2>1. ASSUME d - q <= -1 PROVE MaxSeq * (d - q) <= -MaxSeq
    BY <2>1, <1>1, MaxSeqAssumption
  <2>2. QED
    BY <2>1, <1>1, <1>2, <1>3, MaxSeqAssumption
<1>6. d = q
  BY <1>1, <1>4, <1>5
<1>7. m = r
  BY <1>1, <1>2, <1>6, MaxSeqAssumption
<1>8. QED
  BY <1>7 DEF m

(* Going up by less than MaxSeq wraps at most once. *)
LEMMA ModShift ==
  ASSUME NEW x \in Nat, NEW k \in SeqNums
  PROVE  (x + k) % MaxSeq = IF (x % MaxSeq) + k < MaxSeq
                            THEN (x % MaxSeq) + k
                            ELSE (x % MaxSeq) + k - MaxSeq
<1> DEFINE d == x \div MaxSeq
           m == (x % MaxSeq)
<1>1. /\ m \in 0 .. (MaxSeq - 1) /\ d \in Int /\ x = MaxSeq * d + m
  BY DivFacts DEF SeqNums
<1>2. k \in 0 .. (MaxSeq - 1) /\ MaxSeq \in Nat
  BY MaxSeqAssumption DEF SeqNums
<1>2a. x + k \in Nat /\ d \in Int /\ d + 1 \in Int
  BY <1>1, <1>2
<1> HIDE DEF d, m
<1>3. CASE m + k < MaxSeq
  <2>1. m + k \in SeqNums
    BY <1>1, <1>2, <1>3 DEF SeqNums
  <2>2. x + k = MaxSeq * d + (m + k)
    BY <1>1, <1>2
  <2>3. (x + k) % MaxSeq = m + k
    BY <2>1, <2>2, <1>2a, ModUnique
  <2>4. QED
    BY <2>3, <1>3 DEF m
<1>4. CASE m + k >= MaxSeq
  <2>1. m + k - MaxSeq \in SeqNums
    BY <1>1, <1>2, <1>4 DEF SeqNums
  <2>2. x + k = MaxSeq * (d + 1) + (m + k - MaxSeq)
    BY <1>1, <1>2
  <2>3. (x + k) % MaxSeq = m + k - MaxSeq
    BY <2>1, <2>2, <1>2a, ModUnique
  <2>4. ~ (m + k < MaxSeq)
    BY <1>1, <1>2, <1>4
  <2>5. QED
    BY <2>3, <2>4 DEF m
<1>5. QED
  BY <1>1, <1>2, <1>3, <1>4

(* The number after that of chunk i is that of chunk i + 1. *)
LEMMA NextSeqOf == ASSUME NEW i \in Nat PROVE NextSeq((i % MaxSeq)) = (i + 1) % MaxSeq
<1>1. (i % MaxSeq) \in SeqNums /\ MaxSeq \in Nat /\ MaxSeq >= 4
  BY DivFacts, MaxSeqAssumption
<1>2. 1 \in SeqNums /\ 0 \in Nat
  BY <1>1 DEF SeqNums
<1>3. (i + 1) % MaxSeq = IF (i % MaxSeq) + 1 < MaxSeq
                         THEN (i % MaxSeq) + 1 ELSE (i % MaxSeq) + 1 - MaxSeq
  BY <1>2, ModShift
<1>4. CASE (i % MaxSeq) + 1 < MaxSeq
  <2>1. (i % MaxSeq) + 1 \in SeqNums /\ (i % MaxSeq) + 1 \in Nat
    BY <1>1, <1>4 DEF SeqNums
  <2>2. (i % MaxSeq) + 1 = MaxSeq * 0 + ((i % MaxSeq) + 1)
    BY <1>1, <2>1
  <2>3. ((i % MaxSeq) + 1) % MaxSeq = (i % MaxSeq) + 1
    BY <2>1, <2>2, ModUnique
  <2>4. QED
    BY <2>3, <1>3, <1>4 DEF NextSeq
<1>5. CASE ~ ((i % MaxSeq) + 1 < MaxSeq)
  <2>1. (i % MaxSeq) + 1 = MaxSeq
    BY <1>1, <1>5 DEF SeqNums
  <2>2. MaxSeq = MaxSeq * 1 + 0 /\ 0 \in SeqNums
    BY <1>1 DEF SeqNums
  <2>3. MaxSeq % MaxSeq = 0
    BY <2>2, <1>1, ModUnique
  <2>4. QED
    BY <2>1, <2>3, <1>3, <1>5, <1>1 DEF NextSeq
<1>6. QED
  BY <1>4, <1>5

(* Indices less than MaxSeq apart have the same number only when equal. *)
LEMMA SameNumber ==
  ASSUME NEW x \in Nat, NEW y \in Nat,
         x < y + MaxSeq, y < x + MaxSeq, (x % MaxSeq) = (y % MaxSeq)
  PROVE  x = y
<1>0. MaxSeq \in Nat /\ (x % MaxSeq) \in 0 .. (MaxSeq - 1) /\ (y % MaxSeq) \in 0 .. (MaxSeq - 1)
  BY DivFacts, MaxSeqAssumption DEF SeqNums
<1>1. CASE x <= y
  <2>1. y - x \in SeqNums /\ x + (y - x) = y
    BY <1>0, <1>1 DEF SeqNums
  <2>2. (y % MaxSeq) = IF (x % MaxSeq) + (y - x) < MaxSeq
                     THEN (x % MaxSeq) + (y - x) ELSE (x % MaxSeq) + (y - x) - MaxSeq
    BY <2>1, ModShift
  <2>3. QED
    BY <2>1, <2>2, <1>0 DEF SeqNums
<1>2. CASE y <= x
  <2>1. x - y \in SeqNums /\ y + (x - y) = x
    BY <1>0, <1>2 DEF SeqNums
  <2>2. (x % MaxSeq) = IF (y % MaxSeq) + (x - y) < MaxSeq
                     THEN (y % MaxSeq) + (x - y) ELSE (y % MaxSeq) + (x - y) - MaxSeq
    BY <2>1, ModShift
  <2>3. QED
    BY <2>1, <2>2, <1>0 DEF SeqNums
<1>3. QED
  BY <1>1, <1>2

(* A chunk newer than the acknowledgement by less than half of the space   *)
(* is never mistaken for one already taken.                                *)
LEMMA NewerNotInBackroom ==
  ASSUME NEW i \in Nat, NEW a \in Nat, a < i, i < a + Half
  PROVE  ~ IsSeqInBackroom((i % MaxSeq), (a % MaxSeq))
<1>0. MaxSeq \in Nat /\ (a % MaxSeq) \in 0 .. (MaxSeq - 1)
  BY DivFacts, MaxSeqAssumption DEF SeqNums
<1>1. i - a \in SeqNums /\ a + (i - a) = i
  BY <1>0, HalfFacts DEF SeqNums
<1>2. (i % MaxSeq) = IF (a % MaxSeq) + (i - a) < MaxSeq
                   THEN (a % MaxSeq) + (i - a) ELSE (a % MaxSeq) + (i - a) - MaxSeq
  BY <1>1, ModShift
<1>3. QED
  BY <1>0, <1>1, <1>2, HalfFacts DEF IsSeqInBackroom, SeqNums

(* A chunk taken at most half of the space ago is recognised as taken.     *)
LEMMA OlderInBackroom ==
  ASSUME NEW i \in Nat, NEW a \in Nat, i <= a, a <= i + Half
  PROVE  IsSeqInBackroom((i % MaxSeq), (a % MaxSeq))
<1>0. MaxSeq \in Nat /\ (i % MaxSeq) \in 0 .. (MaxSeq - 1)
  BY DivFacts, MaxSeqAssumption DEF SeqNums
<1>1. a - i \in SeqNums /\ i + (a - i) = a
  BY <1>0, HalfFacts DEF SeqNums
<1>2. (a % MaxSeq) = IF (i % MaxSeq) + (a - i) < MaxSeq
                   THEN (i % MaxSeq) + (a - i) ELSE (i % MaxSeq) + (a - i) - MaxSeq
  BY <1>1, ModShift
<1>3. QED
  BY <1>0, <1>1, <1>2, HalfFacts DEF IsSeqInBackroom, SeqNums

(* The check of Feed: of the acknowledgements less than half of the space  *)
(* behind the last accepted one, only those that are not behind it pass.   *)
LEMMA ValidAckNotOlder ==
  ASSUME NEW s \in Nat, NEW y \in Nat, NEW a \in Nat,
         y <= s, s < y + Half, a <= s, y < a + Half,
         AckValid((s % MaxSeq), (y % MaxSeq), (a % MaxSeq))
  PROVE  y <= a
<1>0. /\ MaxSeq \in Nat
      /\ (a % MaxSeq) \in 0 .. (MaxSeq - 1)
      /\ (y % MaxSeq) \in 0 .. (MaxSeq - 1)
  BY DivFacts, MaxSeqAssumption DEF SeqNums
<1>1. SUFFICES ASSUME a < y PROVE FALSE
  OBVIOUS
<1>2. /\ y - a \in SeqNums /\ a + (y - a) = y
      /\ s - y \in SeqNums /\ y + (s - y) = s
  BY <1>0, <1>1, HalfFacts DEF SeqNums
<1>3. (y % MaxSeq) = IF (a % MaxSeq) + (y - a) < MaxSeq
                   THEN (a % MaxSeq) + (y - a) ELSE (a % MaxSeq) + (y - a) - MaxSeq
  BY <1>2, ModShift
<1>4. (s % MaxSeq) = IF (y % MaxSeq) + (s - y) < MaxSeq
                   THEN (y % MaxSeq) + (s - y) ELSE (y % MaxSeq) + (s - y) - MaxSeq
  BY <1>2, ModShift
<1>5. QED
  BY <1>0, <1>1, <1>2, <1>3, <1>4, HalfFacts DEF AckValid, SeqNums

-----------------------------------------------------------------------------
(* c is one of the first n chunks of a stream, under its right number. *)
Good(n, c) == c \in Chunk /\ c.idx <= n /\ c.seq = c.idx % MaxSeq

AllGood(n, s) == s \in Seq(Chunk) /\ \A i \in 1 .. Len(s) : Good(n, s[i])

GoodConstruct(n, con) ==
  /\ con \in Construct
  /\ Len(con.chunks) <= PacketCap
  /\ AllGood(n, con.chunks)

(* A packet of a side that has queued n chunks and taken d. *)
GoodPacket(n, d, pkt) ==
  /\ pkt \in Packet
  /\ pkt.ackIdx <= d
  /\ pkt.ack = pkt.ackIdx % MaxSeq
  /\ Len(pkt.chunks) <= PacketCap
  /\ AllGood(n, pkt.chunks)

(* What each header field stands for. *)
Numbers ==
  \A p \in Peer : /\ seq[p] = sent[p] % MaxSeq
                  /\ ack[p] = Len(delivered[p]) % MaxSeq
                  /\ peerAck[p] = acked[p] % MaxSeq

(* acked[p] <= Len(delivered[Other(p)]) <= sent[p] <= acked[p] + Window *)
Bounds ==
  \A p \in Peer : /\ acked[p] <= Len(delivered[Other(p)])
                  /\ sent[p] <= acked[p] + Window

Contents ==
  /\ \A p \in Peer : /\ AllGood(sent[p], buffer[p])
                     /\ GoodConstruct(sent[p], construct[p])
                     /\ AllGood(sent[Other(p)], unpack[p])
  /\ \A pkt \in net : GoodPacket(sent[pkt.from], Len(delivered[pkt.from]), pkt)

(* A chunk that waits to be fetched was fresh when its packet arrived;     *)
(* since then at most the chunks before it have been taken.                *)
UnpackFresh ==
  \A p \in Peer :
    /\ Len(unpack[p]) <= PacketCap
    /\ \A i \in 1 .. Len(unpack[p]) :
         Len(delivered[p]) + Len(unpack[p]) < unpack[p][i].idx + Half + PacketCap

IndInv ==
  /\ TypeOK
  /\ Numbers
  /\ Bounds
  /\ InOrder
  /\ Contents
  /\ UnpackFresh
  /\ NoUnackedLoss

-----------------------------------------------------------------------------
(* Facts about the constants and the peers. *)
LEMMA ConnFacts ==
  /\ PacketCap \in Nat /\ PacketCap >= 1 /\ PacketCap <= Half
  /\ Window \in Nat /\ Window < Half
  /\ Half \in Nat /\ MaxSeq \in Nat /\ MaxSeq = 2 * Half /\ MaxSeq >= 4
  /\ \A p \in Peer : Other(p) \in Peer /\ Other(Other(p)) = p /\ Other(p) # p
BY ConnAssumption, HalfFacts, MaxSeqAssumption DEF Peer, Other

(* The elements of a subsequence are elements of the sequence. *)
LEMMA SubSeqGood ==
  ASSUME NEW n \in Nat, NEW s, AllGood(n, s),
         NEW m \in Nat, m >= 1, NEW k \in Int, k <= Len(s)
  PROVE  /\ AllGood(n, SubSeq(s, m, k))
         /\ Len(SubSeq(s, m, k)) = IF m <= k THEN k - m + 1 ELSE 0
         /\ \A i \in 1 .. Len(SubSeq(s, m, k)) : SubSeq(s, m, k)[i] = s[m + i - 1]
<1>1. s \in Seq(Chunk)
  BY DEF AllGood
<1>2. /\ SubSeq(s, m, k) \in Seq(Chunk)
      /\ Len(SubSeq(s, m, k)) = IF m <= k THEN k - m + 1 ELSE 0
      /\ \A i \in 1 .. Len(SubSeq(s, m, k)) : SubSeq(s, m, k)[i] = s[m + i - 1]
  BY <1>1
<1>3. QED
  BY <1>1, <1>2 DEF AllGood

LEMMA ConcatGood ==
  ASSUME NEW n \in Nat, NEW s, NEW t, AllGood(n, s), AllGood(n, t)
  PROVE  AllGood(n, s \o t) /\ Len(s \o t) = Len(s) + Len(t)
<1>1. s \in Seq(Chunk) /\ t \in Seq(Chunk)
  BY DEF AllGood
<1>2. /\ s \o t \in Seq(Chunk)
      /\ Len(s \o t) = Len(s) + Len(t)
      /\ \A i \in 1 .. Len(s) : (s \o t)[i] = s[i]
      /\ \A i \in Len(s) + 1 .. Len(s) + Len(t) : (s \o t)[i] = t[i - Len(s)]
  BY <1>1
<1>3. ASSUME NEW i \in 1 .. Len(s \o t) PROVE Good(n, (s \o t)[i])
  <2>1. CASE i <= Len(s)
    BY <1>1, <1>2, <2>1 DEF AllGood
  <2>2. CASE i > Len(s)
    <3>1. i - Len(s) \in 1 .. Len(t) /\ (s \o t)[i] = t[i - Len(s)]
      BY <1>1, <1>2, <2>2
    <3>2. QED
      BY <3>1 DEF AllGood
  <2>3. QED
    BY <1>1, <1>2, <2>1, <2>2
<1>4. QED
  BY <1>2, <1>3 DEF AllGood

-----------------------------------------------------------------------------
(* What the packet-building operators return when the ring, the construct  *)
(* and the numbers are as IndInv says. *)
LEMMA PiecesFacts ==
  ASSUME NEW n \in Nat, NEW q, q = n \div PacketCap
  PROVE  /\ q \in Nat
         /\ q * PacketCap \in Nat
         /\ q * PacketCap <= n
         /\ n - q * PacketCap <= PacketCap - 1
<1>1. PacketCap \in Nat /\ PacketCap >= 1
  BY ConnFacts
<1>2. /\ n \div PacketCap \in Nat
      /\ n = PacketCap * (n \div PacketCap) + (n % PacketCap)
      /\ n % PacketCap \in 0 .. (PacketCap - 1)
  BY <1>1
<1>3. /\ PacketCap * (n \div PacketCap) \in Nat
      /\ PacketCap * (n \div PacketCap) = (n \div PacketCap) * PacketCap
  BY <1>1, <1>2
<1>4. QED
  BY <1>1, <1>2, <1>3

LEMMA PieceBounds ==
  ASSUME NEW full \in Nat, NEW i \in 1 .. full
  PROVE  /\ (i - 1) * PacketCap \in Nat
         /\ i * PacketCap \in Nat
         /\ full * PacketCap \in Nat
         /\ i * PacketCap = (i - 1) * PacketCap + PacketCap
         /\ i * PacketCap <= full * PacketCap
<1>1. /\ PacketCap \in Nat /\ i - 1 \in Nat /\ full - i \in Nat
      /\ i \in Nat /\ full \in Nat
  BY ConnFacts
<1>2. /\ (i - 1) * PacketCap \in Nat /\ (full - i) * PacketCap \in Nat
      /\ i * PacketCap \in Nat /\ full * PacketCap \in Nat
  BY <1>1
<1>3. /\ (i - 1) * PacketCap = i * PacketCap - PacketCap
      /\ (full - i) * PacketCap = full * PacketCap - i * PacketCap
  BY <1>1
<1>4. QED
  BY <1>1, <1>2, <1>3

LEMMA MakePacketGood ==
  ASSUME IndInv, NEW p \in Peer, NEW n \in Nat,
         NEW s, AllGood(n, s), Len(s) <= PacketCap, NEW r \in BOOLEAN
  PROVE  /\ GoodPacket(n, Len(delivered[p]), MakePacket(p, s, r))
         /\ MakePacket(p, s, r).from = p
BY DEF IndInv, TypeOK, Numbers, GoodPacket, MakePacket, Packet, AllGood

LEMMA EmptyGood == \A n \in Nat : GoodConstruct(n, Empty)
BY ConnFacts DEF GoodConstruct, Construct, Empty, AllGood

LEMMA FlushGood ==
  ASSUME IndInv, NEW p \in Peer, NEW n \in Nat, NEW con, GoodConstruct(n, con)
  PROVE  /\ GoodConstruct(n, Flush(p, con).con)
         /\ \A pkt \in Flush(p, con).out :
              GoodPacket(n, Len(delivered[p]), pkt) /\ pkt.from = p
<1>1. CASE con = Empty
  BY <1>1 DEF Flush
<1>2. CASE con # Empty
  <2>1. /\ GoodPacket(n, Len(delivered[p]), MakePacket(p, con.chunks, con.resend))
        /\ MakePacket(p, con.chunks, con.resend).from = p
    BY MakePacketGood DEF GoodConstruct, Construct
  <2>2. QED
    BY <1>2, <2>1, EmptyGood DEF Flush
<1>3. QED
  BY <1>1, <1>2

LEMMA QueueChunksGood ==
  ASSUME IndInv, NEW p \in Peer, NEW n \in Nat, NEW con, GoodConstruct(n, con),
         NEW more, AllGood(n, more)
  PROVE  /\ GoodConstruct(n, QueueChunks(p, con, more).con)
         /\ \A pkt \in QueueChunks(p, con, more).out :
              GoodPacket(n, Len(delivered[p]), pkt) /\ pkt.from = p
<1> DEFINE all == con.chunks \o more
           full == IF all = << >> THEN 0 ELSE (Len(all) - 1) \div PacketCap
           Piece(i) == SubSeq(all, (i - 1) * PacketCap + 1, i * PacketCap)
<1>1. AllGood(n, all) /\ all \in Seq(Chunk) /\ Len(all) \in Nat
  <2>1. AllGood(n, con.chunks) /\ AllGood(n, more)
    BY DEF GoodConstruct
  <2>2. AllGood(n, all)
    BY <2>1, ConcatGood
  <2>3. all \in Seq(Chunk)
    BY <2>2 DEF AllGood
  <2>4. QED
    BY <2>2, <2>3
<1>2. /\ full \in Nat
      /\ full * PacketCap \in Nat
      /\ full * PacketCap <= Len(all)
      /\ Len(all) - full * PacketCap <= PacketCap
  <2>1. CASE all = << >>
    <3>1. full = 0 /\ Len(all) = 0
      BY <2>1
    <3>2. QED
      BY <3>1, ConnFacts
  <2>2. CASE all # << >>
    <3>1. Len(all) - 1 \in Nat
      BY <1>1, <2>2
    <3>2. full = (Len(all) - 1) \div PacketCap
      BY <2>2
    <3>3. PacketCap \in Nat /\ Len(all) \in Nat
      BY <1>1, ConnFacts
    <3> HIDE DEF full, all
    <3>4. /\ full \in Nat
          /\ full * PacketCap \in Nat
          /\ full * PacketCap <= Len(all) - 1
          /\ (Len(all) - 1) - full * PacketCap <= PacketCap - 1
      BY <3>1, <3>2, PiecesFacts
    <3>5. QED
      BY <3>3, <3>4
  <2>3. QED
    BY <2>1, <2>2
<1>3. ASSUME NEW i \in 1 .. full
      PROVE  AllGood(n, Piece(i)) /\ Len(Piece(i)) <= PacketCap
  <2>1. /\ (i - 1) * PacketCap \in Nat
        /\ i * PacketCap = (i - 1) * PacketCap + PacketCap
        /\ i * PacketCap <= full * PacketCap
    BY <1>2, PieceBounds
  <2> DEFINE from == (i - 1) * PacketCap + 1
             to == i * PacketCap
  <2>2. from \in Nat /\ from >= 1 /\ to \in Int /\ to <= Len(all)
        /\ to - from + 1 = PacketCap
    <3>1. PacketCap \in Nat /\ Len(all) \in Nat
      BY <1>1, ConnFacts
    <3> HIDE DEF all, full
    <3>2. QED
      BY <2>1, <1>2, <3>1
  <2> HIDE DEF from, to, all
  <2>3. /\ AllGood(n, SubSeq(all, from, to))
        /\ Len(SubSeq(all, from, to)) = IF from <= to THEN to - from + 1 ELSE 0
    BY <2>2, <1>1, SubSeqGood
  <2>4. QED
    BY <2>2, <2>3, ConnFacts DEF from, to
<1>4. /\ AllGood(n, SubSeq(all, full * PacketCap + 1, Len(all)))
      /\ Len(SubSeq(all, full * PacketCap + 1, Len(all))) <= PacketCap
  <2> DEFINE from == full * PacketCap + 1
  <2>1. from \in Nat /\ from >= 1 /\ Len(all) - from + 1 <= PacketCap
    <3>1. PacketCap \in Nat /\ Len(all) \in Nat
      BY <1>1, ConnFacts
    <3> HIDE DEF all, full
    <3>2. QED
      BY <1>2, <3>1
  <2> HIDE DEF from, all
  <2>2. /\ AllGood(n, SubSeq(all, from, Len(all)))
        /\ Len(SubSeq(all, from, Len(all))) = IF from <= Len(all)
                                              THEN Len(all) - from + 1 ELSE 0
    BY <2>1, <1>1, SubSeqGood
  <2>3. QED
    BY <2>1, <2>2, <1>1, ConnFacts DEF from
<1> HIDE DEF all, full, Piece
<1>5. CASE full = 0
  <2>1. Len(all) <= PacketCap
    BY <1>1, <1>2, <1>5, ConnFacts
  <2>2. GoodConstruct(n, [con EXCEPT !.chunks = all])
    BY <2>1, <1>1 DEF GoodConstruct, Construct
  <2>3. QueueChunks(p, con, more) = [out |-> {}, con |-> [con EXCEPT !.chunks = all]]
    BY <1>5 DEF QueueChunks, all, full
  <2>4. QED
    BY <2>2, <2>3
<1>6. CASE full # 0
  <2> DEFINE rest == [chunks |-> SubSeq(all, full * PacketCap + 1, Len(all)),
                      resend |-> FALSE]
             out == {MakePacket(p, Piece(i), con.resend /\ i = 1) : i \in 1 .. full}
  <2>1. GoodConstruct(n, rest)
    BY <1>4 DEF GoodConstruct, Construct, AllGood
  <2>2. ASSUME NEW i \in 1 .. full
        PROVE  /\ GoodPacket(n, Len(delivered[p]),
                              MakePacket(p, Piece(i), con.resend /\ i = 1))
               /\ MakePacket(p, Piece(i), con.resend /\ i = 1).from = p
    <3> DEFINE r == con.resend /\ i = 1
    <3>1. r \in BOOLEAN
      OBVIOUS
    <3>2. AllGood(n, Piece(i)) /\ Len(Piece(i)) <= PacketCap
      BY <1>3
    <3> HIDE DEF Piece, r
    <3>3. /\ GoodPacket(n, Len(delivered[p]), MakePacket(p, Piece(i), r))
          /\ MakePacket(p, Piece(i), r).from = p
      BY <3>1, <3>2, MakePacketGood
    <3>4. QED
      BY <3>3, Zenon DEF r
  <2>3. QueueChunks(p, con, more) = [out |-> out, con |-> rest]
    BY <1>6, Zenon DEF QueueChunks, all, full, Piece
  <2>4. QED
    BY <2>1, <2>2, <2>3
<1>7. QED
  BY <1>5, <1>6

-----------------------------------------------------------------------------
(* The least element of a set of naturals. *)
LEMMA LeastOf ==
  ASSUME NEW S \in SUBSET Nat, S # {}
  PROVE  \E m \in S : \A k \in S : m <= k
<1> DEFINE R == OpToRel(<, Nat)
<1>1. IsWellFoundedOn(R, Nat)
  BY NatLessThanWellFounded
<1>2. \A x \in Nat, y \in Nat : y < x => <<y, x>> \in R
  BY DEF OpToRel
<1> HIDE DEF R
<1>3. \E m \in S : \A k \in S : ~ (<<k, m>> \in R)
  BY <1>1, WFMin, Zenon
<1>4. PICK m \in S : \A k \in S : ~ (<<k, m>> \in R)
  BY <1>3
<1>5. ASSUME NEW k \in S PROVE m <= k
  <2>1. ~ (k < m)
    BY <1>2, <1>4
  <2>2. QED
    BY <2>1
<1>6. QED
  BY <1>5

(* Emptying the ring keeps every chunk newer than the acknowledgement. *)
LEMMA AckChunksKeepsNewer ==
  ASSUME IndInv, NEW p \in Peer, NEW a \in Nat, sent[p] < a + Half
  PROVE  /\ AllGood(sent[p], AckChunks(buffer[p], a % MaxSeq))
         /\ \A k \in 1 .. Len(buffer[p]) : buffer[p][k].idx > a =>
              \E j \in 1 .. Len(AckChunks(buffer[p], a % MaxSeq)) :
                 AckChunks(buffer[p], a % MaxSeq)[j] = buffer[p][k]
<1> DEFINE buf == buffer[p]
           Waiting(i) == ~ IsSeqInBackroom(buf[i].seq, a % MaxSeq)
           W == {i \in 1 .. Len(buf) : Waiting(i)}
           first == IF \E i \in 1 .. Len(buf) : Waiting(i)
                    THEN CHOOSE i \in 1 .. Len(buf) :
                           Waiting(i) /\ \A j \in 1 .. (i - 1) : ~ Waiting(j)
                    ELSE Len(buf) + 1
           res == SubSeq(buf, first, Len(buf))
<1>1. AllGood(sent[p], buf) /\ buf \in Seq(Chunk) /\ Len(buf) \in Nat /\ sent[p] \in Nat
  BY DEF IndInv, TypeOK, Contents, AllGood
<1>2. ASSUME NEW k \in 1 .. Len(buf), buf[k].idx > a PROVE Waiting(k)
  <2>1. Good(sent[p], buf[k])
    BY <1>1 DEF AllGood
  <2>2. buf[k].idx \in Nat /\ buf[k].idx < a + Half /\ buf[k].seq = buf[k].idx % MaxSeq
    <3>1. buf[k] \in Chunk /\ buf[k].idx <= sent[p] /\ buf[k].seq = buf[k].idx % MaxSeq
      BY <2>1 DEF Good
    <3>2. buf[k].idx \in Nat /\ Half \in Nat
      BY <3>1, HalfFacts DEF Chunk
    <3> HIDE DEF buf
    <3>3. QED
      BY <3>1, <3>2, <1>1
  <2>3. QED
    BY <2>2, <1>2, NewerNotInBackroom
<1>3. /\ first \in 1 .. Len(buf) + 1
      /\ \A k \in 1 .. Len(buf) : Waiting(k) => first <= k
  <2>1. CASE W = {}
    <3>1. \A i \in 1 .. Len(buf) : ~ Waiting(i)
      BY <2>1
    <3> HIDE DEF Waiting
    <3>2. QED
      BY <3>1, <1>1
  <2>2. CASE W # {}
    <3>1. PICK n \in W : TRUE
      BY <2>2
    <3>2. PICK m \in W : \A k \in W : m <= k
      <4>1. W \subseteq Nat
        BY <1>1
      <4> HIDE DEF W
      <4>2. QED
        BY <4>1, <3>1, LeastOf
    <3>3. Waiting(m) /\ m \in 1 .. Len(buf) /\ \A j \in 1 .. (m - 1) : ~ Waiting(j)
      BY <3>2, <1>1
    <3> HIDE DEF Waiting
    <3>4. /\ first \in 1 .. Len(buf)
          /\ Waiting(first) /\ \A j \in 1 .. (first - 1) : ~ Waiting(j)
      BY <3>3
    <3>5. QED
      BY <3>4, <1>1
  <2>3. QED
    BY <2>1, <2>2
<1>4. AckChunks(buf, a % MaxSeq) = res
  BY DEF AckChunks
<1> HIDE DEF first, Waiting, buf
<1>5. /\ AllGood(sent[p], res)
      /\ Len(res) = IF first <= Len(buf) THEN Len(buf) - first + 1 ELSE 0
      /\ \A i \in 1 .. Len(res) : res[i] = buf[first + i - 1]
  BY <1>1, <1>3, SubSeqGood
<1>6. ASSUME NEW k \in 1 .. Len(buf), buf[k].idx > a
      PROVE  \E j \in 1 .. Len(res) : res[j] = buf[k]
  <2>1. first <= k
    BY <1>2, <1>3, <1>6
  <2> DEFINE j == k - first + 1
  <2>2. j \in 1 .. Len(res) /\ first + j - 1 = k
    BY <2>1, <1>1, <1>3, <1>5
  <2> HIDE DEF res, j
  <2>3. res[j] = buf[k]
    BY <2>2, <1>5
  <2>4. QED
    BY <2>2, <2>3
<1>7. QED
  BY <1>4, <1>5, <1>6 DEF buf

-----------------------------------------------------------------------------
(* The streams only grow, so what was good stays good. *)
LEMMA GoodGrows ==
  ASSUME NEW n \in Nat, NEW m \in Nat, n <= m, NEW d \in Nat, NEW e \in Nat, d <= e
  PROVE  /\ \A s : AllGood(n, s) => AllGood(m, s)
         /\ \A con : GoodConstruct(n, con) => GoodConstruct(m, con)
         /\ \A pkt : GoodPacket(n, d, pkt) => GoodPacket(m, e, pkt)
<1>1. \A c : Good(n, c) => Good(m, c)
  BY DEF Good, Chunk
<1>2. \A s : AllGood(n, s) => AllGood(m, s)
  BY <1>1 DEF AllGood
<1>3. QED
  BY <1>2 DEF GoodConstruct, GoodPacket, Packet

(* What arrives is good when what was sent is. *)
LEMMA TransmitGood ==
  ASSUME IndInv, NEW p \in Peer, NEW out, Transmit(out),
         sent' \in [Peer -> Nat], \A q \in Peer : sent[q] <= sent'[q],
         UNCHANGED delivered,
         \A pkt \in out : GoodPacket(sent'[p], Len(delivered[p]), pkt) /\ pkt.from = p
  PROVE  /\ net' \in SUBSET Packet
         /\ \A pkt \in net' :
              GoodPacket(sent'[pkt.from], Len(delivered'[pkt.from]), pkt)
<1>1. net' \subseteq net \cup out
  BY DEF Transmit
<1>2. ASSUME NEW pkt \in net'
      PROVE  /\ pkt \in Packet
             /\ GoodPacket(sent'[pkt.from], Len(delivered'[pkt.from]), pkt)
  <2>1. CASE pkt \in out
    BY <2>1 DEF GoodPacket
  <2>2. CASE pkt \in net
    <3>1. pkt \in Packet /\ pkt.from \in Peer
      BY <2>2 DEF IndInv, TypeOK, Packet
    <3>2. /\ GoodPacket(sent[pkt.from], Len(delivered[pkt.from]), pkt)
          /\ sent[pkt.from] \in Nat /\ Len(delivered[pkt.from]) \in Nat
      BY <2>2, <3>1 DEF IndInv, Contents, TypeOK
    <3>3. QED
      BY <3>1, <3>2, GoodGrows
  <2>3. QED
    BY <1>1, <2>1, <2>2
<1>3. QED
  BY <1>2

(* What the invariant says of the numbers, in Int. *)
LEMMA NumberTypes ==
  ASSUME IndInv, NEW p \in Peer
  PROVE  /\ sent[p] \in Nat /\ acked[p] \in Nat /\ Len(delivered[p]) \in Nat
         /\ acked[p] <= Len(delivered[Other(p)])
         /\ Len(delivered[p]) <= sent[Other(p)]
         /\ sent[p] <= acked[p] + Window
BY ConnFacts DEF IndInv, TypeOK, Bounds, InOrder

LEMMA InitIndInv == Init => IndInv
<1> SUFFICES ASSUME Init PROVE IndInv
  OBVIOUS
<1>1. 0 % MaxSeq = 0 /\ 0 \in SeqNums
  <2>1. 0 = MaxSeq * 0 + 0 /\ 0 \in SeqNums
    BY ConnFacts DEF SeqNums
  <2>2. QED
    BY <2>1, ModUnique
<1>2. TypeOK
  BY <1>1 DEF Init, TypeOK, Empty, Construct
<1>3. Numbers /\ Bounds /\ InOrder /\ UnpackFresh /\ NoUnackedLoss
  BY <1>1, ConnFacts DEF Init, Numbers, Bounds, InOrder, UnpackFresh, NoUnackedLoss
<1>4. Contents
  BY EmptyGood, ConnFacts DEF Init, Contents, AllGood
<1>5. QED
  BY <1>2, <1>3, <1>4 DEF IndInv

LEMMA QueueVitalStep ==
  ASSUME IndInv, NEW p \in Peer, NEW room \in BOOLEAN, QueueVital(p, room)
  PROVE  IndInv'
<1> DEFINE chunk == [seq |-> NextSeq(seq[p]), idx |-> sent[p] + 1]
           queued == QueueChunks(p, construct[p], <<chunk>>)
           saved == state[p] = "online" /\ room
<1>1. /\ sent[p] - acked[p] < Window
      /\ seq' = [seq EXCEPT ![p] = chunk.seq]
      /\ sent' = [sent EXCEPT ![p] = chunk.idx]
      /\ IF state[p] = "online"
         THEN construct' = [construct EXCEPT ![p] = queued.con] /\ Transmit(queued.out)
         ELSE UNCHANGED <<construct, net>>
      /\ IF saved
         THEN buffer' = [buffer EXCEPT ![p] = Append(@, chunk)] /\ UNCHANGED unsaved
         ELSE unsaved' = [unsaved EXCEPT ![p] = @ \cup {chunk.idx}] /\ UNCHANGED buffer
      /\ UNCHANGED <<state, ack, peerAck, unpack, delivered, acked>>
  BY DEF QueueVital
<1>2. /\ sent[p] \in Nat /\ sent'[p] = sent[p] + 1 /\ sent' \in [Peer -> Nat]
      /\ \A q \in Peer : sent[q] <= sent'[q]
      /\ \A q \in Peer : q # p => sent'[q] = sent[q]
  BY <1>1 DEF IndInv, TypeOK
<1>3. /\ chunk.seq = (sent[p] + 1) % MaxSeq /\ chunk.idx = sent[p] + 1
      /\ chunk.seq \in SeqNums
  BY <1>2, NextSeqOf, DivFacts DEF IndInv, Numbers
<1>4. Good(sent'[p], chunk) /\ chunk \in Chunk /\ AllGood(sent'[p], <<chunk>>)
  BY <1>2, <1>3 DEF Good, Chunk, AllGood
<1> HIDE DEF chunk
<1>5. \A q \in Peer : /\ AllGood(sent'[q], buffer[q])
                      /\ GoodConstruct(sent'[q], construct[q])
                      /\ AllGood(sent'[Other(q)], unpack[q])
  <2>1. \A q \in Peer : sent[q] \in Nat /\ sent'[q] \in Nat
    BY <1>2 DEF IndInv, TypeOK
  <2>2. QED
    BY <1>2, <2>1, ConnFacts, GoodGrows DEF IndInv, Contents
<1>6. /\ GoodConstruct(sent'[p], queued.con)
      /\ \A pkt \in queued.out :
           GoodPacket(sent'[p], Len(delivered[p]), pkt) /\ pkt.from = p
  <2>1. /\ sent'[p] \in Nat /\ GoodConstruct(sent'[p], construct[p])
        /\ AllGood(sent'[p], <<chunk>>)
    BY <1>2, <1>4, <1>5
  <2> DEFINE n == sent'[p]
             more == <<chunk>>
  <2> HIDE DEF n, more
  <2>2. /\ GoodConstruct(n, QueueChunks(p, construct[p], more).con)
        /\ \A pkt \in QueueChunks(p, construct[p], more).out :
             GoodPacket(n, Len(delivered[p]), pkt) /\ pkt.from = p
    BY <2>1, QueueChunksGood DEF n, more
  <2>3. QED
    BY <2>2 DEF n, more
<1>7. /\ \A q \in Peer : GoodConstruct(sent'[q], construct'[q])
      /\ construct' \in [Peer -> Construct]
      /\ net' \in SUBSET Packet
      /\ \A pkt \in net' :
              GoodPacket(sent'[pkt.from], Len(delivered'[pkt.from]), pkt)
  <2>1. CASE state[p] = "online"
    <3>1. construct' = [construct EXCEPT ![p] = queued.con] /\ Transmit(queued.out)
      BY <1>1, <2>1
    <3> HIDE DEF queued
    <3>2. /\ \A q \in Peer : GoodConstruct(sent'[q], construct'[q])
          /\ construct' \in [Peer -> Construct]
      BY <3>1, <1>5, <1>6 DEF IndInv, TypeOK, GoodConstruct
    <3>3. QED
      BY <3>1, <3>2, <1>1, <1>2, <1>6, TransmitGood
  <2>2. CASE state[p] # "online"
    <3>1. UNCHANGED <<construct, net, delivered>>
      BY <1>1, <2>2
    <3>2. \A pkt \in net : pkt \in Packet /\ pkt.from \in Peer
      BY DEF IndInv, TypeOK, Packet
    <3>3. \A q \in Peer : sent[q] \in Nat /\ sent'[q] \in Nat /\ Len(delivered[q]) \in Nat
      BY <1>2 DEF IndInv, TypeOK
    <3>4. \A pkt \in net : GoodPacket(sent'[pkt.from], Len(delivered[pkt.from]), pkt)
      BY <3>2, <3>3, <1>2, GoodGrows DEF IndInv, Contents
    <3>5. QED
      BY <3>1, <3>2, <3>4, <1>5 DEF IndInv, TypeOK
  <2>3. QED
    BY <2>1, <2>2
<1>8. /\ buffer' \in [Peer -> Seq(Chunk)]
      /\ unsaved' \in [Peer -> SUBSET Nat]
      /\ \A q \in Peer : AllGood(sent'[q], buffer'[q])
      /\ \A q \in Peer : unsaved[q] \subseteq unsaved'[q]
      /\ \A q \in Peer : \A k \in 1 .. Len(buffer[q]) :
           \E j \in 1 .. Len(buffer'[q]) : buffer'[q][j] = buffer[q][k]
      /\ chunk.idx \in unsaved'[p] \/ \E k \in 1 .. Len(buffer'[p]) : buffer'[p][k] = chunk
  <2>0. /\ buffer \in [Peer -> Seq(Chunk)] /\ unsaved \in [Peer -> SUBSET Nat]
        /\ chunk.idx \in Nat
    BY <1>4 DEF IndInv, TypeOK, Chunk
  <2>1. CASE saved
    <3>1. buffer' = [buffer EXCEPT ![p] = Append(@, chunk)] /\ unsaved' = unsaved
      BY <1>1, <2>1
    <3>2. /\ buffer'[p] = Append(buffer[p], chunk)
          /\ \A q \in Peer : q # p => buffer'[q] = buffer[q]
      BY <3>1, <2>0
    <3>3. /\ Append(buffer[p], chunk) \in Seq(Chunk)
          /\ Len(Append(buffer[p], chunk)) = Len(buffer[p]) + 1
          /\ \A k \in 1 .. Len(buffer[p]) : Append(buffer[p], chunk)[k] = buffer[p][k]
          /\ Append(buffer[p], chunk)[Len(buffer[p]) + 1] = chunk
          /\ Len(buffer[p]) \in Nat
      BY <2>0, <1>4
    <3>4. AllGood(sent'[p], buffer'[p])
      BY <3>2, <3>3, <1>4, <1>5 DEF AllGood
    <3>5. \A k \in 1 .. Len(buffer[p]) :
            \E j \in 1 .. Len(buffer'[p]) : buffer'[p][j] = buffer[p][k]
      BY <3>2, <3>3
    <3>6. \E k \in 1 .. Len(buffer'[p]) : buffer'[p][k] = chunk
      BY <3>2, <3>3
    <3>7. buffer' \in [Peer -> Seq(Chunk)]
      BY <3>1, <3>3, <2>0
    <3>8. \A q \in Peer : AllGood(sent'[q], buffer'[q])
      BY <3>2, <3>4, <1>5
    <3>9. \A q \in Peer : \A k \in 1 .. Len(buffer[q]) :
            \E j \in 1 .. Len(buffer'[q]) : buffer'[q][j] = buffer[q][k]
      BY <3>2, <3>5
    <3>10. unsaved' \in [Peer -> SUBSET Nat] /\ \A q \in Peer : unsaved[q] \subseteq unsaved'[q]
      BY <3>1, <2>0
    <3>11. QED
      BY <3>6, <3>7, <3>8, <3>9, <3>10, Zenon
  <2>2. CASE ~ saved
    <3>1. /\ unsaved' = [unsaved EXCEPT ![p] = @ \cup {chunk.idx}]
          /\ buffer' = buffer
      BY <1>1, <2>2
    <3>2. unsaved'[p] = unsaved[p] \cup {chunk.idx}
      BY <3>1, <2>0
    <3>3. unsaved' \in [Peer -> SUBSET Nat]
      BY <3>1, <2>0
    <3>4. \A q \in Peer : unsaved[q] \subseteq unsaved'[q]
      BY <3>1, <2>0
    <3>5. \A q \in Peer : AllGood(sent'[q], buffer[q])
      BY <1>5
    <3>6. \A q \in Peer : \A k \in 1 .. Len(buffer[q]) :
            \E j \in 1 .. Len(buffer[q]) : buffer[q][j] = buffer[q][k]
      OBVIOUS
    <3>7. chunk.idx \in unsaved'[p]
      BY <3>2
    <3>8. /\ buffer' \in [Peer -> Seq(Chunk)]
          /\ \A q \in Peer : AllGood(sent'[q], buffer'[q])
          /\ \A q \in Peer : \A k \in 1 .. Len(buffer[q]) :
               \E j \in 1 .. Len(buffer'[q]) : buffer'[q][j] = buffer[q][k]
      BY <3>1, <3>5, <3>6, <2>0, Zenon
    <3>9. QED
      BY <3>3, <3>4, <3>7, <3>8, Zenon
  <2>3. QED
    BY <2>1, <2>2
<1>9. TypeOK'
  BY <1>1, <1>2, <1>3, <1>7, <1>8 DEF IndInv, TypeOK
<1>10. Numbers'
  BY <1>1, <1>2, <1>3 DEF IndInv, TypeOK, Numbers
<1>11. Bounds' /\ InOrder' /\ UnpackFresh'
  <2>1. \A q \in Peer : acked[q] \in Nat /\ Len(delivered[q]) \in Nat /\ sent[q] \in Nat
    BY NumberTypes
  <2>2. Bounds'
    BY <1>1, <1>2, <2>1, ConnFacts DEF IndInv, Bounds
  <2>3. InOrder'
    BY <1>1, <1>2, <2>1, ConnFacts DEF IndInv, InOrder
  <2>4. UnpackFresh'
    BY <1>1 DEF IndInv, UnpackFresh
  <2>5. QED
    BY <2>2, <2>3, <2>4
<1>12. Contents'
  <2>1. \A q \in Peer : AllGood(sent'[Other(q)], unpack'[q])
    BY <1>1, <1>5
  <2>2. QED
    BY <2>1, <1>7, <1>8 DEF Contents
<1>13. NoUnackedLoss'
  <2>1. SUFFICES ASSUME NEW q \in Peer,
                        NEW i \in (Len(delivered[Other(q)]) + 1) .. sent'[q]
                 PROVE  \/ i \in unsaved'[q]
                        \/ \E k \in 1 .. Len(buffer'[q]) : buffer'[q][k].idx = i
    BY <1>1 DEF NoUnackedLoss
  <2>2. CASE q = p /\ i = sent[p] + 1
    BY <2>2, <1>3, <1>8
  <2>3. CASE ~ (q = p /\ i = sent[p] + 1)
    <3>1. i \in (Len(delivered[Other(q)]) + 1) .. sent[q]
      BY <2>3, <1>2, NumberTypes, ConnFacts
    <3>2. i \in unsaved[q] \/ \E k \in 1 .. Len(buffer[q]) : buffer[q][k].idx = i
      BY <3>1 DEF IndInv, NoUnackedLoss
    <3>3. QED
      BY <3>2, <1>8
  <2>4. QED
    BY <2>2, <2>3
<1>14. QED
  BY <1>9, <1>10, <1>11, <1>12, <1>13 DEF IndInv

(* A step that only fills or empties the construct and sends. *)
LEMMA SendStep ==
  ASSUME IndInv, NEW p \in Peer, NEW con, NEW out,
         GoodConstruct(sent[p], con),
         \A pkt \in out : GoodPacket(sent[p], Len(delivered[p]), pkt) /\ pkt.from = p,
         construct' = [construct EXCEPT ![p] = con], Transmit(out),
         UNCHANGED <<state, seq, ack, peerAck, buffer, unpack, sent, delivered,
                     acked, unsaved>>
  PROVE  IndInv'
<1>1. /\ sent' \in [Peer -> Nat] /\ sent' = sent /\ delivered' = delivered
      /\ \A q \in Peer : sent[q] <= sent'[q]
  BY DEF IndInv, TypeOK
<1>2. /\ net' \in SUBSET Packet
      /\ \A pkt \in net' :
              GoodPacket(sent'[pkt.from], Len(delivered'[pkt.from]), pkt)
  BY <1>1, TransmitGood
<1>3. /\ construct' \in [Peer -> Construct]
      /\ \A q \in Peer : GoodConstruct(sent[q], construct'[q])
  BY DEF IndInv, TypeOK, Contents, GoodConstruct
<1>4. TypeOK'
  BY <1>2, <1>3 DEF IndInv, TypeOK
<1>5. Contents'
  BY <1>1, <1>2, <1>3 DEF IndInv, Contents
<1>6. Numbers' /\ Bounds' /\ InOrder' /\ UnpackFresh' /\ NoUnackedLoss'
  <2>1. Numbers'
    BY DEF IndInv, Numbers
  <2>2. Bounds'
    BY DEF IndInv, Bounds
  <2>3. InOrder'
    BY DEF IndInv, InOrder
  <2>4. UnpackFresh'
    BY DEF IndInv, UnpackFresh
  <2>5. NoUnackedLoss'
    BY DEF IndInv, NoUnackedLoss
  <2>6. QED
    BY <2>1, <2>2, <2>3, <2>4, <2>5
<1>7. QED
  BY <1>4, <1>5, <1>6 DEF IndInv

LEMMA FlushNowStep == ASSUME IndInv, NEW p \in Peer, FlushNow(p) PROVE IndInv'
<1> DEFINE flushed == Flush(p, construct[p])
<1>1. sent[p] \in Nat /\ GoodConstruct(sent[p], construct[p])
  BY DEF IndInv, TypeOK, Contents
<1>2. /\ GoodConstruct(sent[p], flushed.con)
      /\ \A pkt \in flushed.out :
           GoodPacket(sent[p], Len(delivered[p]), pkt) /\ pkt.from = p
  BY <1>1, FlushGood
<1>3. /\ construct' = [construct EXCEPT ![p] = flushed.con] /\ Transmit(flushed.out)
      /\ UNCHANGED <<state, seq, ack, peerAck, buffer, unpack, sent, delivered,
                     acked, unsaved>>
  BY DEF FlushNow
<1> HIDE DEF flushed
<1>4. QED
  BY <1>2, <1>3, SendStep

LEMMA UpdateTickStep ==
  ASSUME IndInv, NEW p \in Peer, NEW old \in BOOLEAN, NEW quiet \in BOOLEAN,
         NEW silent \in BOOLEAN, UpdateTick(p, old, quiet, silent)
  PROVE  IndInv'
<1> DEFINE resent == IF old /\ buffer[p] # << >>
                     THEN QueueChunks(p, construct[p], <<Head(buffer[p])>>)
                     ELSE [out |-> {}, con |-> construct[p]]
           flushed == IF quiet /\ resent.out = {}
                      THEN Flush(p, resent.con)
                      ELSE [out |-> {}, con |-> resent.con]
           alive == IF quiet /\ silent /\ resent.out = {} /\ flushed.out = {}
                    THEN {MakePacket(p, << >>, FALSE)} ELSE {}
           GoodOut(out) == \A pkt \in out :
             GoodPacket(sent[p], Len(delivered[p]), pkt) /\ pkt.from = p
<1>1. /\ construct' = [construct EXCEPT ![p] = flushed.con]
      /\ Transmit(resent.out \cup flushed.out \cup alive)
      /\ UNCHANGED <<state, seq, ack, peerAck, buffer, unpack, sent, delivered,
                     acked, unsaved>>
  BY DEF UpdateTick
<1>2. sent[p] \in Nat /\ GoodConstruct(sent[p], construct[p]) /\ AllGood(sent[p], buffer[p])
  BY DEF IndInv, TypeOK, Contents
<1>3. GoodConstruct(sent[p], resent.con) /\ GoodOut(resent.out)
  <2>1. CASE old /\ buffer[p] # << >>
    <3>1. AllGood(sent[p], <<Head(buffer[p])>>)
      BY <1>2, <2>1 DEF AllGood
    <3> DEFINE more == <<Head(buffer[p])>>
               built == QueueChunks(p, construct[p], more)
    <3>2. resent = built
      BY <2>1
    <3> HIDE DEF more, resent
    <3>3. GoodConstruct(sent[p], built.con) /\ GoodOut(built.out)
      BY <1>2, <3>1, QueueChunksGood DEF more
    <3>4. QED
      BY <3>2, <3>3
  <2>2. CASE ~ (old /\ buffer[p] # << >>)
    <3>1. resent = [out |-> {}, con |-> construct[p]]
      BY <2>2
    <3>2. QED
      BY <3>1, <1>2
  <2>3. QED
    BY <2>1, <2>2
<1> HIDE DEF resent
<1>4. GoodConstruct(sent[p], flushed.con) /\ GoodOut(flushed.out)
  BY <1>2, <1>3, FlushGood
<1> HIDE DEF flushed
<1>5. GoodOut(alive)
  <2>1. AllGood(sent[p], << >>) /\ Len(<< >>) <= PacketCap
    BY ConnFacts DEF AllGood
  <2>2. /\ GoodPacket(sent[p], Len(delivered[p]), MakePacket(p, << >>, FALSE))
        /\ MakePacket(p, << >>, FALSE).from = p
    BY <1>2, <2>1, MakePacketGood
  <2>3. QED
    BY <2>2
<1> HIDE DEF alive
<1>6. \A pkt \in resent.out \cup flushed.out \cup alive :
        GoodPacket(sent[p], Len(delivered[p]), pkt) /\ pkt.from = p
  BY <1>3, <1>4, <1>5
<1>7. QED
  BY <1>1, <1>4, <1>6, SendStep

LEMMA UpdateTimeoutStep ==
  ASSUME IndInv, NEW p \in Peer, UpdateTimeout(p) PROVE IndInv'
<1>1. /\ state' = [state EXCEPT ![p] = "error"]
      /\ UNCHANGED <<seq, ack, peerAck, buffer, construct, unpack, net, sent,
                     delivered, acked, unsaved>>
  BY DEF UpdateTimeout
<1>2. TypeOK'
  BY <1>1 DEF IndInv, TypeOK
<1>3. Numbers' /\ Bounds'
  BY <1>1 DEF IndInv, Numbers, Bounds
<1>4. InOrder' /\ UnpackFresh'
  BY <1>1 DEF IndInv, InOrder, UnpackFresh
<1>5. Contents' /\ NoUnackedLoss'
  BY <1>1 DEF IndInv, Contents, NoUnackedLoss
<1>6. QED
  BY <1>2, <1>3, <1>4, <1>5 DEF IndInv

(* The acknowledgement that Feed accepts is not older than the last one. *)
LEMMA FeedAcks ==
  ASSUME IndInv, NEW p \in Peer, NEW pkt \in net, Feed(p, pkt)
  PROVE  /\ acked[p] <= pkt.ackIdx
         /\ pkt.ackIdx \in Nat
         /\ pkt.ackIdx <= Len(delivered[Other(p)])
         /\ pkt.ack = pkt.ackIdx % MaxSeq
<1>1. /\ GoodPacket(sent[Other(p)], Len(delivered[Other(p)]), pkt) /\ pkt \in Packet
      /\ pkt.ackIdx + Half > acked[p]
      /\ AckValid(seq[p], peerAck[p], pkt.ack)
  BY DEF Feed, Fresh, IndInv, Contents, TypeOK
<1>2. /\ pkt.ackIdx \in Nat
      /\ pkt.ackIdx <= Len(delivered[Other(p)])
      /\ pkt.ack = pkt.ackIdx % MaxSeq
  BY <1>1 DEF GoodPacket, Packet
<1>3. /\ sent[p] \in Nat /\ acked[p] \in Nat
      /\ pkt.ackIdx <= sent[p] /\ acked[p] <= sent[p] /\ sent[p] < acked[p] + Half
  <2>1. /\ sent[p] \in Nat /\ acked[p] \in Nat /\ Len(delivered[Other(p)]) \in Nat
        /\ acked[p] <= Len(delivered[Other(p)])
        /\ Len(delivered[Other(p)]) <= sent[p]
        /\ sent[p] <= acked[p] + Window
    BY NumberTypes, ConnFacts
  <2>2. QED
    BY <2>1, <1>2, ConnFacts
<1>4. AckValid(sent[p] % MaxSeq, acked[p] % MaxSeq, pkt.ackIdx % MaxSeq)
  BY <1>1, <1>2 DEF IndInv, Numbers
<1>5. acked[p] < pkt.ackIdx + Half
  BY <1>1, <1>2, <1>3, ConnFacts
<1>6. QED
  BY <1>2, <1>3, <1>4, <1>5, ValidAckNotOlder

LEMMA FeedStep ==
  ASSUME IndInv, NEW p \in Peer, NEW pkt \in net, Feed(p, pkt)
  PROVE  IndInv'
<1> DEFINE resent == IF pkt.resend
                     THEN QueueChunks(p, construct[p], buffer[p])
                     ELSE [out |-> {}, con |-> construct[p]]
           kept == AckChunks(buffer[p], pkt.ack)
<1>1. /\ pkt.from = Other(p)
      /\ \A i \in 1 .. Len(pkt.chunks) : pkt.chunks[i].idx + Half > Len(delivered[p])
      /\ peerAck' = [peerAck EXCEPT ![p] = pkt.ack]
      /\ acked' = [acked EXCEPT ![p] = pkt.ackIdx]
      /\ construct' = [construct EXCEPT ![p] = resent.con]
      /\ Transmit(resent.out)
      /\ buffer' = [buffer EXCEPT ![p] = kept]
      /\ unpack' = [unpack EXCEPT ![p] = pkt.chunks]
      /\ UNCHANGED <<state, seq, ack, sent, delivered, unsaved>>
  BY DEF Feed, Fresh
<1>2. /\ acked[p] <= pkt.ackIdx /\ pkt.ackIdx \in Nat
      /\ pkt.ackIdx <= Len(delivered[Other(p)])
      /\ pkt.ack = pkt.ackIdx % MaxSeq /\ pkt.ack \in SeqNums
  BY FeedAcks, DivFacts
<1>3. /\ pkt \in Packet /\ Len(pkt.chunks) <= PacketCap
      /\ AllGood(sent[Other(p)], pkt.chunks)
      /\ pkt.chunks \in Seq(Chunk)
  BY <1>1 DEF IndInv, Contents, TypeOK, GoodPacket, Packet
<1>4. \A q \in Peer : /\ sent[q] \in Nat /\ acked[q] \in Nat /\ Len(delivered[q]) \in Nat
                      /\ acked[q] <= Len(delivered[Other(q)])
                      /\ Len(delivered[q]) <= sent[Other(q)]
                      /\ sent[q] <= acked[q] + Window
  BY NumberTypes
<1>5. GoodConstruct(sent[p], construct[p]) /\ AllGood(sent[p], buffer[p])
  BY DEF IndInv, Contents
<1>6. /\ GoodConstruct(sent[p], resent.con)
      /\ \A sp \in resent.out :
           GoodPacket(sent[p], Len(delivered[p]), sp) /\ sp.from = p
  <2> DEFINE built == QueueChunks(p, construct[p], buffer[p])
  <2>1. CASE pkt.resend
    <3>1. /\ GoodConstruct(sent[p], built.con)
          /\ \A sp \in built.out :
               GoodPacket(sent[p], Len(delivered[p]), sp) /\ sp.from = p
      BY <1>4, <1>5, QueueChunksGood
    <3>2. resent = built
      BY <2>1
    <3> HIDE DEF resent, built
    <3>3. QED
      BY <3>1, <3>2
  <2>2. CASE ~ pkt.resend
    <3>1. resent = [out |-> {}, con |-> construct[p]]
      BY <2>2
    <3> HIDE DEF resent
    <3>2. QED
      BY <3>1, <1>5
  <2>3. QED
    BY <2>1, <2>2
<1> HIDE DEF resent
<1>7. /\ AllGood(sent[p], kept) /\ kept \in Seq(Chunk)
      /\ \A k \in 1 .. Len(buffer[p]) : buffer[p][k].idx > pkt.ackIdx =>
           \E j \in 1 .. Len(kept) : kept[j] = buffer[p][k]
  <2>1. sent[p] < pkt.ackIdx + Half
    BY <1>2, <1>4, ConnFacts
  <2>2. QED
    BY <2>1, <1>2, AckChunksKeepsNewer DEF AllGood
<1> HIDE DEF kept
<1>8. /\ net' \in SUBSET Packet
      /\ \A sp \in net' :
              GoodPacket(sent'[sp.from], Len(delivered'[sp.from]), sp)
  <2>1. sent' \in [Peer -> Nat] /\ \A q \in Peer : sent[q] <= sent'[q]
    BY <1>1, <1>4 DEF IndInv, TypeOK
  <2>2. \A sp \in resent.out : GoodPacket(sent'[p], Len(delivered[p]), sp) /\ sp.from = p
    BY <1>1, <1>6
  <2>3. QED
    BY <2>1, <2>2, <1>1, TransmitGood
<1>9. TypeOK'
  BY <1>1, <1>2, <1>3, <1>6, <1>7, <1>8 DEF IndInv, TypeOK, GoodConstruct
<1>10. Numbers'
  BY <1>1, <1>2 DEF IndInv, TypeOK, Numbers
<1>11. Bounds'
  <2>1. SUFFICES ASSUME NEW q \in Peer
                 PROVE  acked'[q] <= Len(delivered[Other(q)]) /\ sent[q] <= acked'[q] + Window
    BY <1>1 DEF Bounds
  <2>2. acked'[q] = IF q = p THEN pkt.ackIdx ELSE acked[q]
    BY <1>1 DEF IndInv, TypeOK
  <2>3. Window \in Nat
    BY ConnFacts
  <2>4. QED
    BY <1>2, <1>4, <2>2, <2>3
<1>12. InOrder'
  BY <1>1 DEF IndInv, InOrder
<1>13. UnpackFresh'
  <2>1. SUFFICES ASSUME NEW q \in Peer
                 PROVE /\ Len(unpack'[q]) <= PacketCap
                       /\ \A i \in 1 .. Len(unpack'[q]) :
                            Len(delivered[q]) + Len(unpack'[q])
                              < unpack'[q][i].idx + Half + PacketCap
    BY <1>1 DEF UnpackFresh
  <2>2. CASE q # p
    BY <1>1, <2>2 DEF IndInv, TypeOK, UnpackFresh
  <2>3. CASE q = p
    <3>1. unpack'[q] = pkt.chunks
      BY <1>1, <2>3 DEF IndInv, TypeOK
    <3>2. ASSUME NEW i \in 1 .. Len(pkt.chunks)
          PROVE  Len(delivered[q]) + Len(pkt.chunks) < pkt.chunks[i].idx + Half + PacketCap
      <4>1. pkt.chunks[i] \in Chunk /\ Len(pkt.chunks) \in Nat
        BY <1>3
      <4>2. pkt.chunks[i].idx \in Nat
        BY <4>1 DEF Chunk
      <4>3. pkt.chunks[i].idx + Half > Len(delivered[q])
        BY <1>1, <2>3
      <4>4. Len(delivered[q]) \in Nat /\ Half \in Nat /\ PacketCap \in Nat
        BY <1>4, ConnFacts
      <4>5. Len(pkt.chunks) <= PacketCap
        BY <1>3
      <4> DEFINE idx == pkt.chunks[i].idx
                 len == Len(pkt.chunks)
                 taken == Len(delivered[q])
      <4>6. /\ idx \in Nat /\ len \in Nat /\ taken \in Nat
            /\ idx + Half > taken /\ len <= PacketCap
        BY <4>1, <4>2, <4>3, <4>4, <4>5
      <4> HIDE DEF idx, len, taken
      <4>7. taken + len < idx + Half + PacketCap
        BY <4>4, <4>6
      <4>8. QED
        BY <4>7 DEF idx, len, taken
    <3>3. QED
      BY <3>1, <3>2, <1>3
  <2>4. QED
    BY <2>2, <2>3
<1>14. Contents'
  BY <1>1, <1>3, <1>6, <1>7, <1>8 DEF IndInv, TypeOK, Contents
<1>15. NoUnackedLoss'
  <2>1. SUFFICES ASSUME NEW q \in Peer,
                        NEW i \in (Len(delivered[Other(q)]) + 1) .. sent[q]
                 PROVE  \/ i \in unsaved[q]
                        \/ \E k \in 1 .. Len(buffer'[q]) : buffer'[q][k].idx = i
    BY <1>1 DEF NoUnackedLoss
  <2>2. i \in unsaved[q] \/ \E k \in 1 .. Len(buffer[q]) : buffer[q][k].idx = i
    BY DEF IndInv, NoUnackedLoss
  <2>3. CASE q # p
    BY <1>1, <2>2, <2>3 DEF IndInv, TypeOK
  <2>4. CASE q = p
    <3>1. i > pkt.ackIdx
      BY <1>2, <1>4, <2>4, ConnFacts
    <3>2. buffer'[q] = kept
      BY <1>1, <2>4 DEF IndInv, TypeOK
    <3>3. QED
      BY <3>1, <3>2, <2>2, <2>4, <1>7
  <2>5. QED
    BY <2>3, <2>4
<1>16. QED
  BY <1>9, <1>10, <1>11, <1>12, <1>13, <1>14, <1>15 DEF IndInv

LEMMA FetchChunkStep == ASSUME IndInv, NEW p \in Peer, FetchChunk(p) PROVE IndInv'
<1> DEFINE chunk == Head(unpack[p])
           rest == Tail(unpack[p])
           D == Len(delivered[p])
<1>1. /\ unpack[p] # << >>
      /\ unpack' = [unpack EXCEPT ![p] = rest]
      /\ UNCHANGED <<state, seq, peerAck, buffer, net, sent, acked, unsaved>>
  BY DEF FetchChunk
<1>2. \A q \in Peer : /\ sent[q] \in Nat /\ acked[q] \in Nat /\ Len(delivered[q]) \in Nat
                      /\ acked[q] <= Len(delivered[Other(q)])
                      /\ Len(delivered[q]) <= sent[Other(q)]
                      /\ sent[q] <= acked[q] + Window
  BY NumberTypes
<1>3. /\ unpack[p] \in Seq(Chunk) /\ AllGood(sent[Other(p)], unpack[p])
      /\ Len(unpack[p]) \in Nat /\ Len(unpack[p]) >= 1 /\ Len(unpack[p]) <= PacketCap
  BY <1>1 DEF IndInv, TypeOK, Contents, UnpackFresh
<1>3a. \A i \in 1 .. Len(unpack[p]) : D + Len(unpack[p]) < unpack[p][i].idx + Half + PacketCap
  BY DEF IndInv, UnpackFresh
<1>4. /\ chunk = unpack[p][1] /\ chunk \in Chunk /\ Good(sent[Other(p)], chunk)
      /\ rest \in Seq(Chunk) /\ Len(rest) = Len(unpack[p]) - 1
      /\ \A i \in 1 .. Len(rest) : rest[i] = unpack[p][i + 1]
  BY <1>3 DEF AllGood
<1>4a. \A i \in 1 .. Len(rest) : /\ i + 1 \in 1 .. Len(unpack[p])
                                 /\ rest[i] = unpack[p][i + 1]
                                 /\ rest[i] \in Chunk
  <2>1. Len(unpack[p]) \in Nat /\ Len(rest) = Len(unpack[p]) - 1
    BY <1>3, <1>4
  <2> HIDE DEF rest
  <2>2. \A i \in 1 .. Len(rest) : i + 1 \in 1 .. Len(unpack[p])
    BY <2>1
  <2>3. \A j \in 1 .. Len(unpack[p]) : unpack[p][j] \in Chunk
    BY <1>3
  <2>4. QED
    BY <2>2, <2>3, <1>4
<1>5. /\ chunk.idx \in Nat /\ chunk.idx <= sent[Other(p)]
      /\ chunk.seq = chunk.idx % MaxSeq /\ chunk.seq \in SeqNums
      /\ D + Len(unpack[p]) < chunk.idx + Half + PacketCap
  <2>1. /\ chunk.idx \in Nat /\ chunk.idx <= sent[Other(p)]
        /\ chunk.seq = chunk.idx % MaxSeq /\ chunk.seq \in SeqNums
    BY <1>4 DEF Good, Chunk
  <2>2. D + Len(unpack[p]) < unpack[p][1].idx + Half + PacketCap
    <3>1. 1 \in 1 .. Len(unpack[p])
      BY <1>3
    <3>2. QED
      BY <3>1, <1>3a
  <2>3. QED
    BY <2>1, <2>2, <1>4
<1>6. AllGood(sent[Other(p)], rest)
  BY <1>3, <1>4 DEF AllGood
<1> HIDE DEF chunk, rest
<1>7. CASE InSequence(p, chunk)
  <2>1. /\ ack' = [ack EXCEPT ![p] = chunk.seq]
        /\ delivered' = [delivered EXCEPT ![p] = Append(@, chunk.idx)]
        /\ UNCHANGED construct
    BY <1>7 DEF FetchChunk, chunk
  <2>2. chunk.idx = D + 1
    <3>1. chunk.idx % MaxSeq = (D + 1) % MaxSeq
      BY <1>5, <1>7, <1>2, NextSeqOf DEF InSequence, IndInv, Numbers
    <3> HIDE DEF D
    <3>2. D + 1 \in Nat /\ D + 1 < chunk.idx + MaxSeq
      <4>1. D \in Nat /\ Len(unpack[p]) \in Nat /\ Len(unpack[p]) >= 1
        BY <1>2, <1>3 DEF D
      <4>2. QED
        BY <4>1, <1>5, ConnFacts
    <3>3. chunk.idx < D + 1 + MaxSeq
      <4>1. /\ sent[Other(p)] <= acked[Other(p)] + Window
            /\ acked[Other(p)] <= D
            /\ acked[Other(p)] \in Nat /\ sent[Other(p)] \in Nat /\ D \in Nat
        BY <1>2, ConnFacts DEF D
      <4>2. QED
        BY <4>1, <1>5, ConnFacts
    <3>4. QED
      BY <3>1, <3>2, <3>3, <1>5, SameNumber
  <2>3. /\ delivered' \in [Peer -> Seq(Nat)]
        /\ Len(delivered'[p]) = D + 1
        /\ delivered'[p][D + 1] = chunk.idx
        /\ \A i \in 1 .. D : delivered'[p][i] = delivered[p][i]
        /\ \A q \in Peer : q # p => delivered'[q] = delivered[q]
        /\ \A q \in Peer : Len(delivered[q]) <= Len(delivered'[q])
        /\ \A q \in Peer : Len(delivered'[q]) \in Nat
    <3>1. delivered \in [Peer -> Seq(Nat)] /\ delivered[p] \in Seq(Nat)
      BY DEF IndInv, TypeOK
    <3>2. delivered'[p] = Append(delivered[p], chunk.idx)
      BY <2>1, <3>1
    <3>3. /\ Append(delivered[p], chunk.idx) \in Seq(Nat)
          /\ Len(Append(delivered[p], chunk.idx)) = D + 1
          /\ Append(delivered[p], chunk.idx)[D + 1] = chunk.idx
          /\ \A i \in 1 .. D : Append(delivered[p], chunk.idx)[i] = delivered[p][i]
      BY <3>1, <1>5
    <3>4. \A q \in Peer : q # p => delivered'[q] = delivered[q]
      BY <2>1, <3>1
    <3>5. delivered' \in [Peer -> Seq(Nat)]
      BY <2>1, <3>1, <3>3
    <3>6. \A q \in Peer : Len(delivered[q]) <= Len(delivered'[q]) /\ Len(delivered'[q]) \in Nat
      BY <3>2, <3>3, <3>4, <1>2
    <3>7. QED
      BY <3>2, <3>3, <3>4, <3>5, <3>6
  <2> HIDE DEF D
  <2>4. TypeOK'
    BY <1>1, <1>4, <1>5, <2>1, <2>3 DEF IndInv, TypeOK
  <2>5. Numbers'
    BY <1>1, <1>5, <2>1, <2>2, <2>3 DEF IndInv, TypeOK, Numbers
  <2>6. Bounds'
    <3>1. SUFFICES ASSUME NEW q \in Peer
                   PROVE  acked[q] <= Len(delivered'[Other(q)]) /\ sent[q] <= acked[q] + Window
      BY <1>1 DEF Bounds
    <3>2. /\ Other(q) \in Peer
          /\ Len(delivered[Other(q)]) <= Len(delivered'[Other(q)])
          /\ Len(delivered'[Other(q)]) \in Nat
      BY <2>3, ConnFacts
    <3>3. QED
      BY <1>2, <3>2
  <2>7. InOrder'
    <3>1. SUFFICES ASSUME NEW q \in Peer
                   PROVE  /\ Len(delivered'[q]) <= sent[Other(q)]
                          /\ \A i \in 1 .. Len(delivered'[q]) : delivered'[q][i] = i
      BY <1>1 DEF InOrder
    <3>2. CASE q # p
      BY <2>3, <3>2 DEF IndInv, InOrder
    <3>3. CASE q = p
      <4>1. Len(delivered'[q]) = D + 1 /\ D \in Nat /\ D + 1 <= sent[Other(q)]
        BY <1>2, <1>5, <2>2, <2>3, <3>3 DEF D
      <4>2. ASSUME NEW i \in 1 .. (D + 1) PROVE delivered'[p][i] = i
        <5>1. CASE i = D + 1
          BY <5>1, <2>2, <2>3
        <5>2. CASE i # D + 1
          <6>1. i \in 1 .. D
            BY <5>2, <4>1
          <6>2. QED
            BY <6>1, <2>3 DEF IndInv, InOrder, D
        <5>3. QED
          BY <5>1, <5>2
      <4>3. QED
        BY <4>1, <4>2, <3>3
    <3>4. QED
      BY <3>2, <3>3
  <2>8. UnpackFresh'
    <3>1. SUFFICES ASSUME NEW q \in Peer
                   PROVE /\ Len(unpack'[q]) <= PacketCap
                         /\ \A i \in 1 .. Len(unpack'[q]) :
                              Len(delivered'[q]) + Len(unpack'[q])
                                < unpack'[q][i].idx + Half + PacketCap
      BY DEF UnpackFresh
    <3>2. CASE q # p
      BY <1>1, <2>3, <3>2 DEF IndInv, TypeOK, UnpackFresh
    <3>3. CASE q = p
      <4>1. unpack'[q] = rest /\ Len(delivered'[q]) = D + 1 /\ D \in Nat
        BY <1>1, <1>2, <2>3, <3>3 DEF IndInv, TypeOK, D
      <4>2. Len(rest) <= PacketCap
        BY <1>3, <1>4, ConnFacts
      <4>3. ASSUME NEW i \in 1 .. Len(rest)
            PROVE  D + 1 + Len(rest) < rest[i].idx + Half + PacketCap
        <5>1. /\ rest[i] = unpack[p][i + 1] /\ i + 1 \in 1 .. Len(unpack[p])
              /\ D + Len(unpack[p]) < unpack[p][i + 1].idx + Half + PacketCap
              /\ D + 1 + Len(rest) = D + Len(unpack[p])
          <6>1. rest[i] = unpack[p][i + 1] /\ i + 1 \in 1 .. Len(unpack[p])
            BY <1>4a
          <6>2. D + Len(unpack[p]) < unpack[p][i + 1].idx + Half + PacketCap
            BY <6>1, <1>3a DEF D
          <6>3. D + 1 + Len(rest) = D + Len(unpack[p])
            <7>1. Len(unpack[p]) \in Nat /\ Len(rest) = Len(unpack[p]) - 1
              BY <1>3, <1>4
            <7>2. D \in Nat
              BY <4>1
            <7> DEFINE m == Len(unpack[p])
                       r == Len(rest)
            <7>3. m \in Nat /\ r = m - 1
              BY <7>1
            <7> HIDE DEF D, m, r
            <7>4. D + 1 + r = D + m
              BY <7>2, <7>3
            <7>5. QED
              BY <7>4 DEF m, r
          <6>4. QED
            BY <6>1, <6>2, <6>3
        <5>2. QED
          BY <5>1
      <4>4. QED
        BY <4>1, <4>2, <4>3
    <3>4. QED
      BY <3>2, <3>3
  <2>9. Contents'
    <3>1. \A pkt \in net : GoodPacket(sent[pkt.from], Len(delivered'[pkt.from]), pkt)
      BY <1>2, <2>3, GoodGrows DEF IndInv, TypeOK, Contents, Packet
    <3>2. \A q \in Peer : AllGood(sent[Other(q)], unpack'[q])
      BY <1>1, <1>6 DEF IndInv, TypeOK, Contents
    <3>3. QED
      BY <3>1, <3>2, <1>1, <2>1 DEF IndInv, Contents
  <2>10. NoUnackedLoss'
    <3>1. SUFFICES ASSUME NEW q \in Peer,
                          NEW i \in (Len(delivered'[Other(q)]) + 1) .. sent[q]
                   PROVE  \/ i \in unsaved[q]
                          \/ \E k \in 1 .. Len(buffer[q]) : buffer[q][k].idx = i
      BY <1>1 DEF NoUnackedLoss
    <3>2. i \in (Len(delivered[Other(q)]) + 1) .. sent[q]
      BY <1>2, <2>3, ConnFacts
    <3>3. QED
      BY <3>2 DEF IndInv, NoUnackedLoss
  <2>11. QED
    BY <2>4, <2>5, <2>6, <2>7, <2>8, <2>9, <2>10 DEF IndInv
<1>8. CASE ~ InSequence(p, chunk)
  <2>1. /\ UNCHANGED <<ack, delivered>>
        /\ \/ construct' = construct
           \/ construct' = [construct EXCEPT ![p].resend = TRUE]
    BY <1>8 DEF FetchChunk, chunk
  <2>2. /\ construct' \in [Peer -> Construct]
        /\ \A q \in Peer : GoodConstruct(sent[q], construct'[q])
    <3>1. /\ construct \in [Peer -> Construct]
          /\ \A q \in Peer : GoodConstruct(sent[q], construct[q])
      BY DEF IndInv, TypeOK, Contents
    <3>2. CASE construct' = construct
      BY <3>1, <3>2
    <3>3. CASE construct' = [construct EXCEPT ![p].resend = TRUE]
      <4> DEFINE con == [construct[p] EXCEPT !.resend = TRUE]
      <4>1. con \in Construct /\ con.chunks = construct[p].chunks
        BY <3>1 DEF Construct
      <4>2. GoodConstruct(sent[p], con)
        BY <3>1, <4>1 DEF GoodConstruct
      <4> HIDE DEF con
      <4>3. construct' = [construct EXCEPT ![p] = con]
        BY <3>3 DEF con
      <4>4. QED
        BY <3>1, <4>1, <4>2, <4>3
    <3>4. QED
      BY <2>1, <3>2, <3>3
  <2>3. TypeOK'
    BY <1>1, <1>4, <2>1, <2>2 DEF IndInv, TypeOK
  <2>4. Numbers' /\ Bounds'
    BY <1>1, <2>1 DEF IndInv, Numbers, Bounds
  <2>5. InOrder' /\ NoUnackedLoss'
    BY <1>1, <2>1 DEF IndInv, InOrder, NoUnackedLoss
  <2>6. UnpackFresh'
    <3>1. ASSUME NEW i \in 1 .. Len(rest)
          PROVE  D + Len(rest) < rest[i].idx + Half + PacketCap
      <4>1. /\ rest[i] = unpack[p][i + 1] /\ i + 1 \in 1 .. Len(unpack[p])
            /\ rest[i] \in Chunk
        BY <1>4a
      <4>2. D + Len(unpack[p]) < rest[i].idx + Half + PacketCap
        BY <4>1, <1>3a
      <4>3. rest[i].idx \in Nat /\ D \in Nat /\ Half \in Nat /\ PacketCap \in Nat
        BY <4>1, <1>2, ConnFacts DEF Chunk
      <4>4. Len(unpack[p]) \in Nat /\ Len(rest) = Len(unpack[p]) - 1
        BY <1>3, <1>4
      <4> HIDE DEF D
      <4>5. QED
        BY <4>2, <4>3, <4>4
    <3>2. Len(rest) <= PacketCap
      BY <1>3, <1>4, ConnFacts
    <3>3. QED
      BY <1>1, <2>1, <3>1, <3>2 DEF IndInv, TypeOK, UnpackFresh
  <2>7. Contents'
    <3>1. \A q \in Peer : AllGood(sent[Other(q)], unpack'[q])
      BY <1>1, <1>6 DEF IndInv, TypeOK, Contents
    <3>2. QED
      BY <3>1, <1>1, <2>1, <2>2 DEF IndInv, Contents
  <2>8. QED
    BY <2>3, <2>4, <2>5, <2>6, <2>7 DEF IndInv
<1>9. QED
  BY <1>7, <1>8

-----------------------------------------------------------------------------
LEMMA NextIndInv == IndInv /\ [Next]_vars => IndInv'
<1> SUFFICES ASSUME IndInv, [Next]_vars PROVE IndInv'
  OBVIOUS
<1>1. ASSUME NEW p \in Peer, NEW room \in BOOLEAN, QueueVital(p, room) PROVE IndInv'
  BY <1>1, QueueVitalStep
<1>2. ASSUME NEW p \in Peer, FlushNow(p) PROVE IndInv'
  BY <1>2, FlushNowStep
<1>3. ASSUME NEW p \in Peer, NEW old \in BOOLEAN, NEW quiet \in BOOLEAN,
             NEW silent \in BOOLEAN, UpdateTick(p, old, quiet, silent)
      PROVE  IndInv'
  BY <1>3, UpdateTickStep
<1>4. ASSUME NEW p \in Peer, UpdateTimeout(p) PROVE IndInv'
  BY <1>4, UpdateTimeoutStep
<1>5. ASSUME NEW p \in Peer, NEW pkt \in net, Feed(p, pkt) PROVE IndInv'
  BY <1>5, FeedStep
<1>6. ASSUME NEW p \in Peer, FetchChunk(p) PROVE IndInv'
  BY <1>6, FetchChunkStep
<1>7. CASE UNCHANGED vars
  <2>1. TypeOK' /\ Numbers' /\ Bounds'
    BY <1>7 DEF vars, IndInv, TypeOK, Numbers, Bounds
  <2>2. InOrder' /\ UnpackFresh'
    BY <1>7 DEF vars, IndInv, InOrder, UnpackFresh
  <2>3. Contents' /\ NoUnackedLoss'
    BY <1>7 DEF vars, IndInv, Contents, NoUnackedLoss
  <2>4. QED
    BY <2>1, <2>2, <2>3 DEF IndInv
<1>8. QED
  BY <1>1, <1>2, <1>3, <1>4, <1>5, <1>6, <1>7 DEF Next

(* IndInv holds in every state of every behaviour of the connection. *)
THEOREM Invariance == Spec => []IndInv
BY InitIndInv, NextIndInv, PTL DEF Spec

(* Every variable keeps its type; the numbers stay below MaxSeq. *)
THEOREM TypeCorrect == Spec => []TypeOK
<1>1. IndInv => TypeOK
  BY DEF IndInv
<1>2. QED
  BY <1>1, Invariance, PTL

(* FetchChunk hands over each vital chunk of the peer once and in order. *)
THEOREM Delivery == Spec => []InOrder
<1>1. IndInv => InOrder
  BY DEF IndInv
<1>2. QED
  BY <1>1, Invariance, PTL

(* AckChunks never drops a chunk the peer has not taken. *)
THEOREM NothingLost == Spec => []NoUnackedLoss
<1>1. IndInv => NoUnackedLoss
  BY DEF IndInv
<1>2. QED
  BY <1>1, Invariance, PTL

(* The check at the top of Feed keeps m_PeerAck from moving back. *)
THEOREM AckNeverMovesBack == Spec => AckMonotone
<1>1. IndInv /\ [Next]_vars => [\A p \in Peer : acked'[p] >= acked[p]]_vars
  <2> SUFFICES ASSUME IndInv, Next
               PROVE  \A p \in Peer : acked'[p] >= acked[p]
    OBVIOUS
  <2>1. \A p \in Peer : acked[p] \in Nat
    BY DEF IndInv, TypeOK
  <2>2. ASSUME NEW p \in Peer, NEW pkt \in net, Feed(p, pkt)
        PROVE  \A q \in Peer : acked'[q] >= acked[q]
    <3>1. acked[p] <= pkt.ackIdx /\ pkt.ackIdx \in Nat
      BY <2>2, FeedAcks
    <3>2. acked' = [acked EXCEPT ![p] = pkt.ackIdx]
      BY <2>2 DEF Feed
    <3>3. QED
      BY <3>1, <3>2, <2>1 DEF IndInv, TypeOK
  <2>3. ASSUME UNCHANGED acked PROVE \A q \in Peer : acked'[q] >= acked[q]
    BY <2>1, <2>3
  <2>4. ASSUME NEW p \in Peer, NEW room \in BOOLEAN, QueueVital(p, room) PROVE UNCHANGED acked
    BY <2>4 DEF QueueVital
  <2>5. ASSUME NEW p \in Peer, FlushNow(p) PROVE UNCHANGED acked
    BY <2>5 DEF FlushNow
  <2>6. ASSUME NEW p \in Peer, NEW old \in BOOLEAN, NEW quiet \in BOOLEAN,
               NEW silent \in BOOLEAN, UpdateTick(p, old, quiet, silent)
        PROVE  UNCHANGED acked
    BY <2>6 DEF UpdateTick
  <2>7. ASSUME NEW p \in Peer, UpdateTimeout(p) PROVE UNCHANGED acked
    BY <2>7 DEF UpdateTimeout
  <2>8. ASSUME NEW p \in Peer, FetchChunk(p) PROVE UNCHANGED acked
    BY <2>8 DEF FetchChunk
  <2>9. QED
    BY <2>2, <2>3, <2>4, <2>5, <2>6, <2>7, <2>8 DEF Next
<1>2. QED
  BY <1>1, Invariance, PTL DEF Spec, AckMonotone

(* The connection implements the abstract reliable stream. *)
THEOREM Refinement == Spec => ReliableSpec
<1>1. Init => RS!Init
  BY DEF Init, RS!Init, Peer, RS!Peer
<1>2. IndInv /\ IndInv' /\ [Next]_vars => [RS!Next]_<<sent, delivered>>
  <2> SUFFICES ASSUME IndInv, IndInv', Next
               PROVE  RS!Next \/ UNCHANGED <<sent, delivered>>
    BY DEF vars
  <2>1. ASSUME NEW p \in Peer, NEW room \in BOOLEAN, QueueVital(p, room) PROVE RS!Queue(p)
    BY <2>1 DEF QueueVital, RS!Queue
  <2>2. ASSUME NEW p \in Peer, FetchChunk(p)
        PROVE  RS!Take(p) \/ UNCHANGED <<sent, delivered>>
    <3> DEFINE chunk == Head(unpack[p])
    <3>1. CASE ~ InSequence(p, chunk)
      BY <2>2, <3>1 DEF FetchChunk
    <3>2. CASE InSequence(p, chunk)
      <4>1. /\ delivered' = [delivered EXCEPT ![p] = Append(@, chunk.idx)]
            /\ sent' = sent
        BY <2>2, <3>2 DEF FetchChunk
      <4>2. /\ delivered \in [Peer -> Seq(Nat)] /\ delivered' \in [Peer -> Seq(Nat)]
            /\ \A i \in 1 .. Len(delivered'[p]) : delivered'[p][i] = i
            /\ Len(delivered'[p]) <= sent[Other(p)]
            /\ sent[Other(p)] \in Nat
        BY <4>1, ConnFacts DEF IndInv, TypeOK, InOrder
      <4> HIDE DEF chunk
      <4>3. delivered'[p] = Append(delivered[p], chunk.idx)
        BY <4>1, <4>2
      <4>4. /\ Len(delivered[p]) \in Nat
            /\ Len(delivered'[p]) = Len(delivered[p]) + 1
            /\ delivered'[p][Len(delivered[p]) + 1] = chunk.idx
        BY <4>2, <4>3
      <4>5. chunk.idx = Len(delivered[p]) + 1
        BY <4>2, <4>4
      <4>6. Len(delivered[p]) < sent[RS!Other(p)]
        BY <4>2, <4>4 DEF Other, RS!Other
      <4>7. QED
        BY <4>1, <4>5, <4>6 DEF RS!Take
    <3>3. QED
      BY <3>1, <3>2
  <2>3. ASSUME NEW p \in Peer, FlushNow(p) PROVE UNCHANGED <<sent, delivered>>
    BY <2>3 DEF FlushNow
  <2>4. ASSUME NEW p \in Peer, NEW old \in BOOLEAN, NEW quiet \in BOOLEAN,
               NEW silent \in BOOLEAN, UpdateTick(p, old, quiet, silent)
        PROVE  UNCHANGED <<sent, delivered>>
    BY <2>4 DEF UpdateTick
  <2>5. ASSUME NEW p \in Peer, UpdateTimeout(p) PROVE UNCHANGED <<sent, delivered>>
    BY <2>5 DEF UpdateTimeout
  <2>6. ASSUME NEW p \in Peer, NEW pkt \in net, Feed(p, pkt)
        PROVE  UNCHANGED <<sent, delivered>>
    BY <2>6 DEF Feed
  <2>7. QED
    BY <2>1, <2>2, <2>3, <2>4, <2>5, <2>6 DEF Next, RS!Next, Peer, RS!Peer
<1>3. QED
  BY <1>1, <1>2, Invariance, PTL DEF Spec, ReliableSpec, RS!Spec
=============================================================================

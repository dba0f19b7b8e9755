--------------------------- MODULE AsyncIoProofs ----------------------------
(***************************************************************************)
(* The asynchronous output is a byte stream, hides no error and is not     *)
(* used after it is freed: for all sizes of the ring and of the local      *)
(* buffer, any number of writers and pieces of any size.                   *)
(*                                                                         *)
(* The invariant says which bytes are where: with m bytes put, the local   *)
(* buffer holds the ones after m and the ring the ones after those.        *)
(***************************************************************************)
EXTENDS AsyncIo, TLAPS

(* The position i places behind the first byte of the ring *)
Place(r, i) == IF r.read + i < r.size THEN r.read + i ELSE r.read + i - r.size

IsRing(r) ==
  /\ r \in [buffer : [0 .. r.size - 1 -> Nat], size : Nat \ {0}, read : Nat, write : Nat]
  /\ r.read \in 0 .. r.size - 1
  /\ r.write \in 0 .. r.size - 1

(* The ring holds the bytes m + 1 to q. *)
Holds(r, m, q) ==
  /\ IsRing(r)
  /\ q = m + BufferLen(r)
  /\ \A i \in 0 .. BufferLen(r) - 1 : r.buffer[Place(r, i)] = m + i + 1

IOType ==
  /\ queued \in Nat
  /\ local \in Seq(Nat)
  /\ file \in Seq(Nat)
  /\ error \in BOOLEAN
  /\ pc \in {"test", "wait", "write", "exited"}
  /\ pc = "write" <=> local # << >>

BytesInv ==
  /\ IOType
  /\ Put \in Nat
  /\ Holds(ring, Put + Len(local), queued)
  /\ \A i \in 1 .. Len(local) : local[i] = Put + i

(* Unless writing has failed the file holds the bytes put. *)
FileInv ==
  ~error => Len(file) = Put /\ \A i \in 1 .. Put : file[i] = i

-----------------------------------------------------------------------------
(* Going around the ring once *)
LEMMA Wrap ==
  ASSUME NEW s \in Nat \ {0}, NEW a \in 0 .. 2 * s - 1
  PROVE  (a % s) = IF a < s THEN a ELSE a - s
<1>1. CASE a < s
  BY <1>1
<1>2. CASE a >= s
  <2>1. a - s \in 0 .. s - 1
    BY <1>2
  <2> DEFINE d == a \div s
             m == (a % s)
  <2>2. d \in Int /\ m \in 0 .. s - 1 /\ a = s * d + m
    OBVIOUS
  <2> HIDE DEF d, m
  <2>3. s * (d - 1) = (a - s) - m
    <3>1. s * (d - 1) = s * d - s
      BY <2>2
    <3>2. s * d \in Int
      BY <2>2
    <3> QED
      BY <2>2, <3>1, <3>2
  <2>4. ~(d - 1 >= 1)
    <3>1. ASSUME d - 1 >= 1 PROVE s * (d - 1) >= s
      BY <3>1, <2>2
    <3> QED
      BY <3>1, <2>1, <2>2, <2>3
  <2>5. ~(d - 1 <= -1)
    <3>1. ASSUME d - 1 <= -1 PROVE s * (d - 1) <= -s
      BY <3>1, <2>2
    <3> QED
      BY <3>1, <2>1, <2>2, <2>3
  <2>6. d = 1
    BY <2>2, <2>4, <2>5
  <2> QED
    BY <2>2, <2>6, <1>2 DEF m
<1> QED
  BY <1>1, <1>2

LEMMA Forward ==
  ASSUME NEW s \in Nat \ {0}, NEW a \in 0 .. s - 1, NEW n \in 0 .. s
  PROVE  ((a + n) % s) = IF a + n < s THEN a + n ELSE a + n - s
<1> DEFINE x == a + n
<1>1. x \in 0 .. 2 * s - 1
  OBVIOUS
<1> HIDE DEF x
<1>2. (x % s) = IF x < s THEN x ELSE x - s
  BY <1>1, Wrap
<1> QED
  BY <1>2 DEF x

(* A piece of a buffer as a sequence, and two of them in a row *)
LEMMA Piece ==
  ASSUME NEW s \in Nat, NEW b \in [0 .. s - 1 -> Nat],
         NEW a \in 0 .. s, NEW e \in a .. s,
         NEW f, f = [i \in 1 .. (e - a) |-> b[a + i - 1]]
  PROVE  /\ f \in Seq(Nat) /\ Len(f) = e - a
         /\ \A i \in 0 .. e - a - 1 : f[i + 1] = b[a + i]
<1>1. e - a \in Nat
  OBVIOUS
<1>2. \A i \in 1 .. (e - a) : a + i - 1 \in 0 .. s - 1
  OBVIOUS
<1>3. f \in [1 .. (e - a) -> Nat]
  BY <1>2
<1>4. ASSUME NEW i \in 0 .. e - a - 1 PROVE f[i + 1] = b[a + i]
  <2>1. i + 1 \in 1 .. (e - a) /\ a + (i + 1) - 1 = a + i
    OBVIOUS
  <2> QED
    BY <2>1
<1> QED
  BY <1>1, <1>3, <1>4

LEMMA Joined ==
  ASSUME NEW f \in Seq(Nat), NEW g \in Seq(Nat)
  PROVE  /\ f \o g \in Seq(Nat) /\ Len(f \o g) = Len(f) + Len(g)
         /\ \A i \in 1 .. Len(f) : (f \o g)[i] = f[i]
         /\ \A i \in 1 .. Len(g) : (f \o g)[Len(f) + i] = g[i]
OBVIOUS

(* The two pieces of the ring, one after the other, are its bytes from the *)
(* first to the last.                                                      *)
LEMMA ContentsFacts ==
  ASSUME NEW r, IsRing(r)
  PROVE  /\ BufferLen(r) \in 0 .. r.size - 1
         /\ Contents(r) \in Seq(Nat)
         /\ Len(Contents(r)) = BufferLen(r)
         /\ \A i \in 0 .. BufferLen(r) - 1 : Contents(r)[i + 1] = r.buffer[Place(r, i)]
<1> DEFINE s == r.size
           a == r.read
           b == r.write
           buf == r.buffer
           f == Buf1(r)
           g == Buf2(r)
           len == BufferLen(r)
<1>0. /\ s \in Nat \ {0} /\ a \in 0 .. s - 1 /\ b \in 0 .. s - 1
      /\ buf \in [0 .. s - 1 -> Nat]
  BY DEF IsRing
<1>1. len = IF b >= a THEN b - a ELSE s + b - a
  BY DEF BufferLen
<1>2. \A i : Place(r, i) = IF a + i < s THEN a + i ELSE a + i - s
  BY DEF Place
<1>3. /\ f = [i \in 1 .. ((IF a <= b THEN b ELSE s) - a) |-> buf[a + i - 1]]
      /\ g = IF a <= b THEN << >> ELSE [i \in 1 .. b |-> buf[i - 1]]
      /\ Contents(r) = f \o g
  BY DEF Buf1, Buf2, Contents
<1> HIDE DEF s, a, b, buf, f, g, len
<1>4. CASE a <= b
  <2>1. f = [i \in 1 .. (b - a) |-> buf[a + i - 1]] /\ b \in a .. s
    BY <1>0, <1>3, <1>4
  <2>2. /\ f \in Seq(Nat) /\ Len(f) = b - a
        /\ \A i \in 0 .. b - a - 1 : f[i + 1] = buf[a + i]
    BY <2>1, <1>0, Piece
  <2>3. f \o g = f
    BY <1>3, <1>4, <2>2
  <2>4. len = b - a /\ len \in 0 .. s - 1 /\ \A i \in 0 .. len - 1 : a + i < s
    BY <1>0, <1>1, <1>4
  <2>5. ASSUME NEW i \in 0 .. len - 1
        PROVE  f[i + 1] = buf[Place(r, i)]
    BY <1>2, <2>2, <2>4
  <2>6. Contents(r) = f
    BY <1>3, <2>3
  <2> QED
    BY <2>2, <2>4, <2>5, <2>6 DEF s, len, buf
<1>5. CASE ~(a <= b)
  <2>1. /\ f = [i \in 1 .. (s - a) |-> buf[a + i - 1]]
        /\ g = [i \in 1 .. (b - 0) |-> buf[0 + i - 1]]
    BY <1>0, <1>3, <1>5
  <2>2. /\ f \in Seq(Nat) /\ Len(f) = s - a
        /\ \A i \in 0 .. s - a - 1 : f[i + 1] = buf[a + i]
    BY <2>1, <1>0, Piece
  <2>3. /\ g \in Seq(Nat) /\ Len(g) = b
        /\ \A i \in 0 .. b - 1 : g[i + 1] = buf[i]
    <3>1. 0 \in 0 .. s /\ b \in 0 .. s
      BY <1>0
    <3>2. /\ g \in Seq(Nat) /\ Len(g) = b - 0
          /\ \A i \in 0 .. b - 0 - 1 : g[i + 1] = buf[0 + i]
      BY <3>1, <2>1, <1>0, Piece
    <3> QED
      BY <3>2, <1>0
  <2>4. len = Len(f) + Len(g) /\ len \in 0 .. s - 1
    BY <1>0, <1>1, <1>5, <2>2, <2>3
  <2>5. ASSUME NEW i \in 0 .. len - 1
        PROVE  (f \o g)[i + 1] = buf[Place(r, i)]
    <3>1. CASE a + i < s
      <4>1. i \in 0 .. s - a - 1 /\ i + 1 \in 1 .. Len(f)
        BY <3>1, <1>0, <2>2
      <4>2. (f \o g)[i + 1] = f[i + 1]
        BY <4>1, <2>2, <2>3, Joined
      <4> QED
        BY <4>1, <4>2, <3>1, <2>2, <1>2
    <3>2. CASE ~(a + i < s)
      <4> DEFINE j == a + i - s
      <4>1. j \in 0 .. b - 1 /\ j + 1 \in 1 .. Len(g) /\ Len(f) + (j + 1) = i + 1
        BY <3>2, <1>0, <2>2, <2>3, <2>4
      <4>2. Place(r, i) = j
        BY <3>2, <1>2
      <4> HIDE DEF j
      <4>3. (f \o g)[Len(f) + (j + 1)] = g[j + 1]
        BY <4>1, <2>2, <2>3, Joined
      <4> QED
        BY <4>1, <4>2, <4>3, <2>3
    <3> QED
      BY <3>1, <3>2
  <2>6. f \o g \in Seq(Nat) /\ Len(f \o g) = Len(f) + Len(g)
    BY <2>2, <2>3, Joined
  <2> QED
    BY <1>3, <2>4, <2>5, <2>6 DEF s, len, buf
<1> QED
  BY <1>4, <1>5

(* Which places the bytes behind the first len take *)
LEMMA Around ==
  ASSUME NEW s \in Nat \ {0}, NEW a \in 0 .. s - 1, NEW b \in 0 .. s - 1,
         NEW len, len = IF b >= a THEN b - a ELSE s + b - a,
         NEW n \in Nat \ {0}, n < s - len,
         NEW c, c = IF b + n < s THEN b + n ELSE b + n - s
  PROVE  /\ c \in 0 .. s - 1
         /\ len + n = IF c >= a THEN c - a ELSE s + c - a
         /\ \A i \in 0 .. len + n - 1 :
              LET p == IF a + i < s THEN a + i ELSE a + i - s
                  k == IF p >= b THEN p - b ELSE p - b + s
              IN  p \in 0 .. s - 1 /\ IF i < len THEN ~(k < n) ELSE k = i - len
OBVIOUS

(* Bytes that fit are appended, *)
LEMMA FilledHolds ==
  ASSUME NEW r, NEW m \in Nat, NEW q \in Nat, NEW n \in Nat \ {0},
         Holds(r, m, q), Fits(r, n)
  PROVE  Holds(Filled(r, q, n), m, q + n) /\ BufferLen(Filled(r, q, n)) = BufferLen(r) + n
<1> DEFINE t == Filled(r, q, n)
           s == r.size
           a == r.read
           b == r.write
           c == (b + n) % s
           buf == r.buffer
           new == [i \in 0 .. s - 1 |->
                     LET k == IF i >= b THEN i - b ELSE i - b + s
                     IN  IF k < n THEN q + k + 1 ELSE buf[i]]
           len == BufferLen(r)
<1>0. /\ r \in [buffer : [0 .. s - 1 -> Nat], size : Nat \ {0}, read : Nat, write : Nat]
      /\ s \in Nat \ {0} /\ a \in 0 .. s - 1 /\ b \in 0 .. s - 1
      /\ buf \in [0 .. s - 1 -> Nat]
  BY DEF IsRing, Holds
<1>1. len = (IF b >= a THEN b - a ELSE s + b - a) /\ n < s - len
  BY DEF BufferLen, Fits
<1>2. t = [r EXCEPT !.buffer = new, !.write = c]
  BY DEF Filled
<1>3. t.buffer = new /\ t.size = s /\ t.read = a /\ t.write = c
  BY <1>0, <1>2
<1>4. BufferLen(t) = IF c >= a THEN c - a ELSE s + c - a
  BY <1>3 DEF BufferLen
<1>5. \A i : /\ Place(t, i) = IF a + i < s THEN a + i ELSE a + i - s
             /\ Place(r, i) = IF a + i < s THEN a + i ELSE a + i - s
  BY <1>3 DEF Place
<1>6. q = m + len /\ \A i \in 0 .. len - 1 : buf[Place(r, i)] = m + i + 1
  BY DEF Holds
<1>7. \A i \in 0 .. s - 1 :
        new[i] = LET k == IF i >= b THEN i - b ELSE i - b + s
                 IN  IF k < n THEN q + k + 1 ELSE buf[i]
  OBVIOUS
<1> HIDE DEF s, a, b, buf, len
<1>8. new \in [0 .. s - 1 -> Nat]
  <2> SUFFICES ASSUME NEW i \in 0 .. s - 1 PROVE new[i] \in Nat
    OBVIOUS
  <2> DEFINE k == IF i >= b THEN i - b ELSE i - b + s
  <2>1. buf[i] \in Nat
    BY <1>0
  <2>2. k \in Nat
    BY <1>0
  <2>3. new[i] = IF k < n THEN q + k + 1 ELSE buf[i]
    BY <1>7
  <2> HIDE DEF new, k
  <2> QED
    BY <2>1, <2>2, <2>3
<1>9. c = IF b + n < s THEN b + n ELSE b + n - s
  <2>1. len \in 0 .. s - 1
    BY <1>0, <1>1
  <2>2. n \in 0 .. s
    BY <1>0, <1>1, <2>1
  <2> QED
    BY <2>2, <1>0, Forward DEF c
<1> HIDE DEF t, c, new
<1>10. /\ c \in 0 .. s - 1
       /\ len + n = IF c >= a THEN c - a ELSE s + c - a
       /\ \A i \in 0 .. len + n - 1 :
            LET p == IF a + i < s THEN a + i ELSE a + i - s
                k == IF p >= b THEN p - b ELSE p - b + s
            IN  p \in 0 .. s - 1 /\ IF i < len THEN ~(k < n) ELSE k = i - len
  BY <1>0, <1>1, <1>9, Around
<1>11. IsRing(t)
  <2>1. t \in [buffer : [0 .. s - 1 -> Nat], size : Nat \ {0}, read : Nat, write : Nat]
    <3>1. c \in Nat
      BY <1>0, <1>10
    <3> QED
      BY <1>0, <1>2, <1>8, <3>1
  <2> QED
    BY <2>1, <1>0, <1>3, <1>10 DEF IsRing
<1>12. len \in Nat
  BY <1>0, <1>1
<1>13. ASSUME NEW i \in 0 .. len + n - 1
       PROVE  new[Place(t, i)] = m + i + 1
  <2> DEFINE p == IF a + i < s THEN a + i ELSE a + i - s
             k == IF p >= b THEN p - b ELSE p - b + s
  <2>1. p \in 0 .. s - 1 /\ IF i < len THEN ~(k < n) ELSE k = i - len
    BY <1>10
  <2>2. new[p] = IF k < n THEN q + k + 1 ELSE buf[p]
    BY <2>1, <1>7
  <2>3. Place(t, i) = p /\ Place(r, i) = p
    BY <1>5
  <2> HIDE DEF p, k
  <2>4. CASE i < len
    <3>1. new[p] = buf[p]
      BY <2>1, <2>2, <2>4
    <3>2. i \in 0 .. len - 1
      BY <2>4, <1>12
    <3> QED
      BY <2>3, <3>1, <3>2, <1>6
  <2>5. CASE i >= len
    <3>1. k = i - len /\ k < n
      BY <2>1, <2>5, <1>12
    <3> QED
      BY <2>2, <2>3, <3>1, <1>6, <1>12
  <2> QED
    BY <2>4, <2>5, <1>12
<1>14. BufferLen(t) = len + n
  BY <1>4, <1>10
<1>15. Holds(t, m, q + n)
  <2>1. q + n = m + (len + n)
    BY <1>6, <1>12
  <2>2. \A i \in 0 .. BufferLen(t) - 1 : t.buffer[Place(t, i)] = m + i + 1
    BY <1>3, <1>12, <1>13, <1>14
  <2> QED
    BY <2>1, <2>2, <1>11, <1>14 DEF Holds
<1> QED
  BY <1>14, <1>15 DEF t, len

(* and if they do not, to what the next ring takes over.                   *)
LEMMA GrownHolds ==
  ASSUME NEW r, NEW m \in Nat, NEW q \in Nat, NEW n \in Nat \ {0},
         NEW size \in Nat, size >= BufferLen(r) + n + 1, Holds(r, m, q)
  PROVE  /\ Holds(Grown(r, q, n, size), m, q + n)
         /\ BufferLen(Grown(r, q, n, size)) = BufferLen(r) + n
<1> DEFINE t == Grown(r, q, n, size)
           len == BufferLen(r)
           old == Contents(r)
           new == [i \in 0 .. size - 1 |-> IF i < len THEN old[i + 1]
                                           ELSE IF i < len + n THEN q + i - len + 1 ELSE 0]
<1>1. /\ len \in Nat
      /\ old \in Seq(Nat) /\ Len(old) = len
      /\ \A i \in 0 .. len - 1 : old[i + 1] = r.buffer[Place(r, i)]
  <2>1. IsRing(r)
    BY DEF Holds
  <2>2. r.size \in Nat
    BY <2>1 DEF IsRing
  <2> QED
    BY <2>1, <2>2, ContentsFacts
<1>2. q = m + len /\ \A i \in 0 .. len - 1 : old[i + 1] = m + i + 1
  BY <1>1 DEF Holds
<1>3. t = [buffer |-> new, size |-> size, read |-> 0, write |-> len + n]
  BY DEF Grown
<1>4. size >= len + n + 1
  OBVIOUS
<1>5. \A i \in 0 .. size - 1 :
        new[i] = IF i < len THEN old[i + 1]
                 ELSE IF i < len + n THEN q + i - len + 1 ELSE 0
  OBVIOUS
<1>6. new \in [0 .. size - 1 -> Nat]
  <2> SUFFICES ASSUME NEW i \in 0 .. size - 1 PROVE new[i] \in Nat
    OBVIOUS
  <2> HIDE DEF new, old, len
  <2>1. CASE i < len
    <3>1. i + 1 \in 1 .. Len(old)
      BY <2>1, <1>1
    <3>2. old[i + 1] \in Nat
      BY <3>1, <1>1
    <3> QED
      BY <2>1, <3>2, <1>5
  <2>2. CASE i >= len
    <3>1. new[i] = IF i < len + n THEN q + i - len + 1 ELSE 0
      BY <2>2, <1>1, <1>5
    <3> QED
      BY <2>2, <3>1, <1>1
  <2> QED
    BY <2>1, <2>2, <1>1
<1> HIDE DEF t, len, old, new
<1>7. t.buffer = new /\ t.size = size /\ t.read = 0 /\ t.write = len + n
  BY <1>3
<1>8. IsRing(t)
  BY <1>1, <1>3, <1>4, <1>6, <1>7 DEF IsRing
<1>9. BufferLen(t) = len + n
  BY <1>1, <1>7 DEF BufferLen
<1>10. ASSUME NEW i \in 0 .. len + n - 1
       PROVE  new[Place(t, i)] = m + i + 1
  <2>1. i \in 0 .. size - 1 /\ Place(t, i) = i
    BY <1>1, <1>4, <1>7 DEF Place
  <2>2. CASE i < len
    <3>1. new[i] = old[i + 1] /\ i \in 0 .. len - 1
      BY <2>1, <2>2, <1>1, <1>5
    <3> QED
      BY <2>1, <3>1, <1>2
  <2>3. CASE i >= len
    <3>1. new[i] = q + i - len + 1
      BY <2>1, <2>3, <1>1, <1>5
    <3> QED
      BY <2>1, <3>1, <1>1, <1>2
  <2> QED
    BY <2>2, <2>3, <1>1
<1>11. Holds(t, m, q + n)
  <2>1. q + n = m + (len + n)
    BY <1>1, <1>2
  <2>2. \A i \in 0 .. BufferLen(t) - 1 : t.buffer[Place(t, i)] = m + i + 1
    BY <1>1, <1>7, <1>9, <1>10
  <2> QED
    BY <2>1, <2>2, <1>8, <1>9 DEF Holds
<1> QED
  BY <1>9, <1>11 DEF t, len

-----------------------------------------------------------------------------
LEMMA Wide ==
  ASSUME BytesInv
  PROVE  /\ IsRing(ring) /\ BufferLen(ring) \in Nat /\ BufferLen(ring) < ring.size
         /\ Len(local) \in Nat /\ queued \in Nat /\ Put \in Nat
         /\ queued = Put + Len(local) + BufferLen(ring)
<1>1. IsRing(ring) /\ queued \in Nat /\ Len(local) \in Nat /\ Put \in Nat
  BY DEF BytesInv, IOType, Holds
<1>2. BufferLen(ring) \in Nat /\ BufferLen(ring) < ring.size
  <2>1. BufferLen(ring) \in 0 .. ring.size - 1 /\ ring.size \in Nat
    BY <1>1, ContentsFacts DEF IsRing
  <2> QED
    BY <2>1
<1> QED
  BY <1>1, <1>2 DEF Put

(* A write appends to the ring. *)
LEMMA WriteStep ==
  ASSUME BytesInv, NEW w \in Writers, Write(w)
  PROVE  BytesInv' /\ Put' = Put /\ Stream!Queue
<1> DEFINE m == Put + Len(local)
<1>1. PICK n \in Pieces :
        /\ queued' = queued + n
        /\ IF Fits(ring, n) THEN ring' = Filled(ring, queued, n)
           ELSE \E size \in NextBufferSize(ring.size, BufferLen(ring) + n + 1) :
                  ring' = Grown(ring, queued, n, size)
  BY DEF Write
<1>2. n \in Nat \ {0}
  BY AsyncIoAssumption
<1>3. UNCHANGED <<local, file, error, pc>>
  BY DEF Write, ioVars
<1>4. m \in Nat /\ queued \in Nat /\ Holds(ring, m, queued)
  BY Wide DEF BytesInv
<1>5. Holds(ring', m, queued + n) /\ BufferLen(ring') = BufferLen(ring) + n
  <2>1. CASE Fits(ring, n)
    BY <2>1, <1>1, <1>2, <1>4, FilledHolds
  <2>2. CASE ~Fits(ring, n)
    <3>1. PICK size \in NextBufferSize(ring.size, BufferLen(ring) + n + 1) :
            ring' = Grown(ring, queued, n, size)
      BY <2>2, <1>1
    <3>2. size \in Nat /\ size >= BufferLen(ring) + n + 1
      <4>1. size \in (BufferLen(ring) + n + 1) .. (ring.size + 2 * (BufferLen(ring) + n + 1))
        BY DEF NextBufferSize
      <4> QED
        BY <4>1, <1>2, Wide DEF IsRing
    <3> QED
      BY <3>1, <3>2, <1>2, <1>4, GrownHolds
  <2> QED
    BY <2>1, <2>2
<1>6. BufferLen(ring)' = BufferLen(ring) + n
  BY <1>5
<1>7. Put' = Put
  BY <1>1, <1>2, <1>3, <1>6, Wide DEF Put
<1>8. BytesInv'
  BY <1>1, <1>2, <1>3, <1>5, <1>7, Wide DEF BytesInv, IOType
<1>9. Stream!Queue
  BY <1>1, <1>2, <1>3, <1>7, Wide DEF Stream!Queue
<1> QED
  BY <1>7, <1>8, <1>9

(* The thread takes the first bytes of the ring. *)
LEMMA TakeStep ==
  ASSUME BytesInv, Take
  PROVE  BytesInv' /\ Put' = Put
<1> DEFINE bytes == Contents(ring)
           n == IF Len(bytes) > LocalSize THEN LocalSize ELSE Len(bytes)
           s == ring.size
           a == ring.read
           b == ring.write
           c == (a + n) % s
           len == BufferLen(ring)
<1>1. /\ pc = "test" /\ a # b /\ local' = SubSeq(bytes, 1, n) /\ pc' = "write"
      /\ ring' = [ring EXCEPT !.read = c]
      /\ UNCHANGED <<queued, file, error>>
  BY DEF Take
<1>2. /\ ring \in [buffer : [0 .. s - 1 -> Nat], size : Nat \ {0}, read : Nat, write : Nat]
      /\ s \in Nat \ {0} /\ a \in 0 .. s - 1 /\ b \in 0 .. s - 1
  BY Wide DEF IsRing
<1>3. /\ bytes \in Seq(Nat) /\ Len(bytes) = len
      /\ \A i \in 0 .. len - 1 : bytes[i + 1] = ring.buffer[Place(ring, i)]
  BY Wide, ContentsFacts
<1>4. local = << >> /\ Len(local) = 0
  BY <1>1 DEF BytesInv, IOType
<1>5. len \in Nat /\ queued = Put + len /\ Put \in Nat /\ queued \in Nat
  BY <1>4, Wide
<1>6. \A i \in 0 .. len - 1 : ring.buffer[Place(ring, i)] = Put + i + 1
  BY <1>4, <1>5 DEF BytesInv, Holds
<1>7. len = IF b >= a THEN b - a ELSE s + b - a
  BY DEF BufferLen
<1>8. LocalSize \in Nat \ {0}
  BY AsyncIoAssumption
<1>9. /\ ring'.read = c /\ ring'.size = s /\ ring'.write = b /\ ring'.buffer = ring.buffer
  BY <1>1, <1>2
<1>10. \A i : /\ Place(ring, i) = IF a + i < s THEN a + i ELSE a + i - s
              /\ Place(ring', i) = IF c + i < s THEN c + i ELSE c + i - s
  BY <1>9 DEF Place
<1>11. BufferLen(ring') = IF b >= c THEN b - c ELSE s + b - c
  BY <1>9 DEF BufferLen
<1> HIDE DEF bytes, len, s, a, b, c
<1>12. n \in Nat /\ n >= 1 /\ n <= len
  <2>1. len # 0
    <3>1. a # b
      BY <1>1
    <3> QED
      BY <3>1, <1>2, <1>7
  <2>2. n = IF len > LocalSize THEN LocalSize ELSE len
    BY <1>3
  <2> HIDE DEF n
  <2> QED
    BY <2>1, <2>2, <1>5, <1>8
<1> HIDE DEF n
<1>13. c = IF a + n < s THEN a + n ELSE a + n - s
  <2>1. n \in 0 .. s
    BY <1>2, <1>7, <1>12
  <2> QED
    BY <2>1, <1>2, Forward DEF c
<1>14. BufferLen(ring') = len - n /\ c \in 0 .. s - 1
  BY <1>2, <1>7, <1>11, <1>12, <1>13
<1>15. /\ local' \in Seq(Nat) /\ Len(local') = n
       /\ \A i \in 1 .. n : local'[i] = bytes[i]
  BY <1>1, <1>3, <1>12
<1>16. Put' = Put
  <2>1. Put' = queued' - BufferLen(ring') - Len(local')
    BY DEF Put
  <2> QED
    BY <2>1, <1>1, <1>5, <1>12, <1>14, <1>15
<1>17. \A i \in 1 .. n : local'[i] = Put + i
  <2> SUFFICES ASSUME NEW i \in 1 .. n PROVE local'[i] = Put + i
    OBVIOUS
  <2> DEFINE j == i - 1
  <2>1. j \in 0 .. len - 1 /\ j + 1 = i
    BY <1>5, <1>12
  <2> HIDE DEF j
  <2>2. bytes[j + 1] = Put + j + 1
    BY <2>1, <1>3, <1>6
  <2> QED
    BY <2>1, <2>2, <1>5, <1>15
<1>18. IsRing(ring')
  <2>1. ring' \in [buffer : [0 .. s - 1 -> Nat], size : Nat \ {0}, read : Nat, write : Nat]
    <3>1. c \in Nat
      BY <1>2, <1>14
    <3> QED
      BY <3>1, <1>1, <1>2
  <2> QED
    BY <2>1, <1>2, <1>9, <1>14 DEF IsRing
<1>19. \A i \in 0 .. len - n - 1 : ring'.buffer[Place(ring', i)] = Put + n + i + 1
  <2> SUFFICES ASSUME NEW i \in 0 .. len - n - 1
               PROVE  ring'.buffer[Place(ring', i)] = Put + n + i + 1
    OBVIOUS
  <2> DEFINE j == i + n
  <2>1. j \in 0 .. len - 1
    BY <1>5, <1>12
  <2>2. Place(ring', i) = Place(ring, j)
    <3>1. i \in Nat /\ i + n < s
      BY <1>2, <1>5, <1>7, <1>12
    <3>2. /\ Place(ring, i + n) = IF a + (i + n) < s THEN a + (i + n) ELSE a + (i + n) - s
          /\ Place(ring', i) = IF c + i < s THEN c + i ELSE c + i - s
      BY <1>10
    <3>3. (IF c + i < s THEN c + i ELSE c + i - s)
            = IF a + (i + n) < s THEN a + (i + n) ELSE a + (i + n) - s
      BY <3>1, <1>2, <1>12, <1>13
    <3> QED
      BY <3>2, <3>3
  <2>3. ring.buffer[Place(ring, j)] = Put + j + 1
    BY <2>1, <1>6
  <2> QED
    BY <2>2, <2>3, <1>5, <1>9, <1>12
<1>20. Holds(ring', Put + n, queued')
  <2>1. queued' = (Put + n) + (len - n)
    BY <1>1, <1>5, <1>12
  <2>2. \A i \in 0 .. BufferLen(ring') - 1 : ring'.buffer[Place(ring', i)] = (Put + n) + i + 1
    BY <1>14, <1>19
  <2> QED
    BY <2>1, <2>2, <1>14, <1>18 DEF Holds
<1>21. IOType'
  <2>1. local' # << >> /\ local' \in Seq(Nat)
    BY <1>12, <1>15
  <2> QED
    BY <2>1, <1>1 DEF BytesInv, IOType
<1> QED
  BY <1>5, <1>15, <1>16, <1>17, <1>20, <1>21 DEF BytesInv

(* What it writes are the bytes that follow those put. *)
LEMMA WriteOutStep ==
  ASSUME BytesInv, FileInv, WriteOut
  PROVE  BytesInv' /\ FileInv' /\ Stream!Put
<1>1. PICK ok \in BOOLEAN, n \in 0 .. Len(local) :
        /\ ok => n = Len(local)
        /\ file' = file \o SubSeq(local, 1, n)
        /\ error' = (error \/ ~ok)
  BY DEF WriteOut
<1>2. /\ pc = "write" /\ pc' = "test" /\ local' = << >> /\ Len(local') = 0
      /\ UNCHANGED <<ring, queued>>
  BY DEF WriteOut
<1>3. /\ local \in Seq(Nat) /\ Len(local) \in Nat \ {0} /\ file \in Seq(Nat)
      /\ error \in BOOLEAN
      /\ \A i \in 1 .. Len(local) : local[i] = Put + i
  BY <1>2 DEF BytesInv, IOType
<1>4. Put \in Nat /\ queued \in Nat /\ BufferLen(ring) \in Nat
      /\ queued = Put + Len(local) + BufferLen(ring)
  BY Wide
<1>5. Put' = Put + Len(local)
  <2>1. Put' = queued - BufferLen(ring) - 0
    BY <1>2 DEF Put
  <2> QED
    BY <2>1, <1>3, <1>4
<1>6. /\ SubSeq(local, 1, n) \in Seq(Nat) /\ Len(SubSeq(local, 1, n)) = n
      /\ \A i \in 1 .. n : SubSeq(local, 1, n)[i] = Put + i
  BY <1>3
<1>7. SubSeq(local, 1, n) = Stream!Bytes(Put, Put + n)
  <2>1. Stream!Bytes(Put, Put + n) = [i \in 1 .. ((Put + n) - Put) |-> Put + i]
    BY DEF Stream!Bytes
  <2>2. (Put + n) - Put = n
    BY <1>4
  <2>3. Stream!Bytes(Put, Put + n) = [i \in 1 .. n |-> Put + i]
    BY <2>1, <2>2
  <2> QED
    BY <2>3, <1>6
<1>8. BytesInv'
  <2>1. IOType'
    BY <1>1, <1>2, <1>3, <1>6 DEF BytesInv, IOType
  <2>2. Holds(ring, Put' + 0, queued)
    BY <1>3, <1>4, <1>5 DEF BytesInv
  <2> QED
    BY <2>1, <2>2, <1>2, <1>3, <1>4, <1>5 DEF BytesInv
<1>9. FileInv'
  <2> SUFFICES ASSUME ~error'
               PROVE  Len(file') = Put' /\ \A i \in 1 .. Put' : file'[i] = i
    BY DEF FileInv
  <2>1. ~error /\ n = Len(local)
    BY <1>1, <1>3
  <2>2. Len(file) = Put /\ \A i \in 1 .. Put : file[i] = i
    BY <2>1 DEF FileInv
  <2> DEFINE g == SubSeq(local, 1, n)
  <2>3. /\ Len(file \o g) = Len(file) + Len(g)
        /\ \A i \in 1 .. Len(file) : (file \o g)[i] = file[i]
        /\ \A i \in 1 .. Len(g) : (file \o g)[Len(file) + i] = g[i]
    BY <1>3, <1>6, Joined
  <2>4. file' = file \o g /\ Len(g) = n /\ \A i \in 1 .. n : g[i] = Put + i
    BY <1>1, <1>6
  <2> HIDE DEF g
  <2>5. ASSUME NEW i \in 1 .. Put' PROVE file'[i] = i
    <3>1. CASE i <= Put
      BY <3>1, <2>2, <2>3, <2>4, <1>4
    <3>2. CASE i > Put
      <4> DEFINE j == i - Put
      <4>1. j \in 1 .. n /\ Put + j = i
        BY <3>2, <2>1, <1>4, <1>5
      <4> HIDE DEF j
      <4> QED
        BY <4>1, <2>2, <2>3, <2>4
    <3> QED
      BY <3>1, <3>2, <1>4
  <2> QED
    BY <2>1, <2>2, <2>3, <2>4, <2>5, <1>4, <1>5
<1>10. Stream!Put
  <2>1. Put' \in (Put + 1) .. queued
    BY <1>3, <1>4, <1>5
  <2>2. \/ file' = file \o Stream!Bytes(Put, Put') /\ UNCHANGED error
        \/ error' /\ \E k \in Put .. Put' : file' = file \o Stream!Bytes(Put, k)
    <3>1. CASE ok
      BY <3>1, <1>1, <1>3, <1>5, <1>7
    <3>2. CASE ~ok
      <4>1. Put + n \in Put .. Put'
        BY <1>3, <1>4, <1>5
      <4> QED
        BY <3>2, <4>1, <1>1, <1>3, <1>7
    <3> QED
      BY <3>1, <3>2
  <2> QED
    BY <2>1, <2>2, <1>2 DEF Stream!Put
<1> QED
  BY <1>8, <1>9, <1>10

(* No other step moves a byte. *)
LEMMA OtherStep ==
  ASSUME BytesInv, FileInv, UNCHANGED <<ring, local, file, error, queued>>,
         pc' \in {"test", "wait", "write", "exited"}, pc' = "write" <=> pc = "write"
  PROVE  BytesInv' /\ FileInv' /\ Put' = Put
<1>1. Put' = Put
  BY DEF Put
<1>2. BytesInv'
  <2>1. IOType'
    BY DEF BytesInv, IOType
  <2> QED
    BY <1>1, <2>1 DEF BytesInv
<1>3. FileInv'
  BY <1>1 DEF FileInv
<1> QED
  BY <1>1, <1>2, <1>3

(* The thread exits when everything has been put. *)
LEMMA ExitStep ==
  ASSUME BytesInv, FileInv, Exit
  PROVE  BytesInv' /\ FileInv' /\ Put' = Put /\ Put = queued /\ Stream!End
<1>1. /\ pc = "test" /\ pc' = "exited" /\ ring.read = ring.write
      /\ UNCHANGED <<ring, local, file, error, queued>>
  BY DEF Exit, MayExit
<1>2. BytesInv' /\ FileInv' /\ Put' = Put
  BY <1>1, OtherStep
<1>3. Put = queued
  <2>1. local = << >> /\ Len(local) = 0
    BY <1>1 DEF BytesInv, IOType
  <2>2. BufferLen(ring) = 0
    BY <1>1, Wide DEF BufferLen, IsRing
  <2> QED
    BY <2>1, <2>2, Wide
<1>4. Stream!End
  BY <1>1, <1>2, <1>3 DEF Stream!End
<1> QED
  BY <1>2, <1>3, <1>4

(* A step is one of the byte stream, or none: the steps that move bytes,   *)
(* and the others.                                                         *)
Quiet ==
  /\ UNCHANGED <<ring, local, file, error, queued>>
  /\ pc' \in {"test", "wait", "write"} \/ pc' = pc
  /\ pc' = "write" <=> pc = "write"
  /\ pc' = "exited" <=> pc = "exited"

LEMMA Steps ==
  ASSUME [Next]_vars
  PROVE  Take \/ WriteOut \/ Exit \/ Quiet \/ \E w \in Writers : Write(w)
<1>1. CASE Thread
  BY <1>1 DEF Thread, Sleep, Wake, Quiet
<1>2. CASE Main
  BY <1>2 DEF Main, Close, Wait, CallSignal, Join, Free, Quiet, ioVars
<1>3. ASSUME NEW w \in Writers, Logging(w)
      PROVE  Write(w) \/ Quiet
  BY <1>3 DEF Logging, Unlock, Signal, Quiet, ioVars
<1>4. CASE UNCHANGED vars
  BY <1>4 DEF vars, ioVars, Quiet
<1> QED
  BY <1>1, <1>2, <1>3, <1>4 DEF Next

LEMMA StreamStep ==
  ASSUME BytesInv, FileInv, [Next]_vars
  PROVE  /\ BytesInv' /\ FileInv'
         /\ [Stream!Next]_(Stream!streamVars)
<1>1. CASE Take
  <2>1. BytesInv' /\ Put' = Put
    BY <1>1, TakeStep
  <2>2. pc = "test" /\ pc' = "write" /\ UNCHANGED <<file, error, queued>>
    BY <1>1 DEF Take
  <2>3. FileInv'
    BY <2>1, <2>2 DEF FileInv
  <2>4. UNCHANGED Stream!streamVars
    BY <2>1, <2>2 DEF Stream!streamVars
  <2> QED
    BY <2>1, <2>3, <2>4
<1>2. CASE WriteOut
  BY <1>2, WriteOutStep DEF Stream!Next
<1>3. CASE Exit
  BY <1>3, ExitStep DEF Stream!Next
<1>4. ASSUME NEW w \in Writers, Write(w)
      PROVE  /\ BytesInv' /\ FileInv'
             /\ [Stream!Next]_(Stream!streamVars)
  <2>1. BytesInv' /\ Put' = Put /\ Stream!Queue
    BY <1>4, WriteStep
  <2>2. UNCHANGED <<file, error>>
    BY <1>4 DEF Write, ioVars
  <2>3. FileInv'
    BY <2>1, <2>2 DEF FileInv
  <2> QED
    BY <2>1, <2>3 DEF Stream!Next
<1>5. CASE Quiet
  <2>1. /\ UNCHANGED <<ring, local, file, error, queued>>
        /\ pc' \in {"test", "wait", "write", "exited"}
        /\ pc' = "write" <=> pc = "write"
        /\ pc' = "exited" <=> pc = "exited"
    BY <1>5 DEF Quiet, BytesInv, IOType
  <2>2. BytesInv' /\ FileInv' /\ Put' = Put
    BY <2>1, OtherStep
  <2>3. UNCHANGED Stream!streamVars
    BY <2>1, <2>2 DEF Stream!streamVars
  <2> QED
    BY <2>2, <2>3
<1> QED
  BY <1>1, <1>2, <1>3, <1>4, <1>5, Steps

LEMMA StreamInit ==
  ASSUME Init
  PROVE  BytesInv /\ FileInv /\ Stream!Init
<1> DEFINE buf == [i \in 0 .. BufSize - 1 |-> 0]
<1>1. /\ ring = [buffer |-> buf, size |-> BufSize, read |-> 0, write |-> 0]
      /\ local = << >> /\ file = << >> /\ error = FALSE /\ pc = "test" /\ queued = 0
  BY DEF Init
<1>2. BufSize \in Nat \ {0}
  BY AsyncIoAssumption
<1>3. buf \in [0 .. BufSize - 1 -> Nat]
  OBVIOUS
<1> HIDE DEF buf
<1>4. IsRing(ring) /\ BufferLen(ring) = 0
  BY <1>1, <1>2, <1>3 DEF IsRing, BufferLen
<1>5. Len(local) = 0 /\ Put = 0
  BY <1>1, <1>4 DEF Put
<1>6. IOType
  <2>1. << >> \in Seq(Nat) /\ 0 \in Nat
    OBVIOUS
  <2>2. local \in Seq(Nat) /\ file \in Seq(Nat) /\ queued \in Nat
    BY <1>1, <2>1
  <2>3. pc \in {"test", "wait", "write", "exited"} /\ error \in BOOLEAN
    BY <1>1
  <2>4. pc = "write" <=> local # << >>
    BY <1>1
  <2> QED
    BY <2>2, <2>3, <2>4 DEF IOType
<1>7. Holds(ring, 0, 0)
  BY <1>4 DEF Holds
<1> QED
  BY <1>1, <1>5, <1>6, <1>7 DEF BytesInv, FileInv, Stream!Init

(* Asynchronous output implements the byte stream, whatever the sizes. *)
THEOREM StreamTheorem == Spec => StreamSpec
<1>1. Init => BytesInv /\ FileInv /\ Stream!Init
  BY StreamInit
<1>2. (BytesInv /\ FileInv) /\ [Next]_vars => (BytesInv /\ FileInv)'
  BY StreamStep
<1>3. (BytesInv /\ FileInv) /\ [Next]_vars => [Stream!Next]_(Stream!streamVars)
  BY StreamStep
<1> QED
  BY <1>1, <1>2, <1>3, PTL DEF Spec, StreamSpec, Stream!Spec

-----------------------------------------------------------------------------
(* Where the calls are that end the output, and what has been put by then *)
Ends == {"close", "wait", "free"}

CallInv ==
  /\ use \in Uses
  /\ next \in 1 .. Len(use) + 1
  /\ call \in {"start", "signal", "join"}
  /\ call # "start" => next <= Len(use) /\ use[next] \in {"close", "wait"}
  /\ call = "join" => use[next] = "wait"
  /\ asked \in Nat /\ asked <= queued
  /\ finish # "running" => Begun
  /\ pc = "exited" => Begun /\ asked <= Put
  /\ Waited => pc = "exited"

LEMMA UseFacts ==
  ASSUME CallInv
  PROVE  /\ use \in Seq(Ends) /\ Len(use) \in Nat /\ next \in Nat
         /\ Shared <=> \A i \in 1 .. Len(use) : use[i] # "free"
         /\ \A i \in 1 .. Len(use) : use[i] = "free" => i = Len(use)
<1>1. use \in Seq(Ends) /\ \A i \in DOMAIN use : use[i] = "free" => i = Len(use)
  BY AsyncIoAssumption DEF CallInv, Ends
<1>2. Len(use) \in Nat /\ DOMAIN use = 1 .. Len(use)
  BY <1>1
<1>3. next \in Nat
  BY <1>2 DEF CallInv
<1>4. Shared <=> \A i \in 1 .. Len(use) : use[i] # "free"
  BY <1>2 DEF Shared
<1> QED
  BY <1>1, <1>2, <1>3, <1>4

LEMMA CallInit == Init => CallInv
<1> SUFFICES ASSUME Init PROVE CallInv
  OBVIOUS
<1>1. /\ use \in Uses /\ next = 1 /\ call = "start" /\ asked = 0 /\ queued = 0
      /\ finish = "running" /\ pc = "test"
  BY DEF Init
<1>2. Len(use) \in Nat
  BY <1>1, AsyncIoAssumption
<1> QED
  BY <1>1, <1>2 DEF CallInv, Begun, Waited

(* The thread, and the writers, leave the calls alone. *)
LEMMA CallThread ==
  ASSUME BytesInv, FileInv, CallInv, Thread \/ \E w \in Writers : Logging(w)
  PROVE  CallInv'
<1>1. UNCHANGED <<use, next, call, asked, finish>>
  BY DEF Thread, Sleep, Wake, Exit, Take, WriteOut, Logging, Write, Unlock, Signal, mainVars
<1>2. queued \in Nat /\ queued' \in Nat /\ queued <= queued'
  <2>1. \/ queued' = queued
        \/ \E n \in Pieces : queued' = queued + n
    BY DEF Thread, Sleep, Wake, Exit, Take, WriteOut, Logging, Write, Unlock, Signal
  <2> QED
    BY <2>1, AsyncIoAssumption, Wide
<1>3. pc' = "exited" => Begun /\ asked <= Put'
  <2>1. CASE Exit
    <3>1. finish # "running"
      BY <2>1 DEF Exit, MayExit
    <3>2. Put' = queued
      BY <2>1, ExitStep
    <3> QED
      BY <3>1, <3>2 DEF CallInv
  <2>2. CASE \E w \in Writers : Write(w)
    BY <2>2, WriteStep DEF CallInv, Write, ioVars
  <2>3. CASE ~Exit /\ ~ \E w \in Writers : Write(w)
    <3>1. pc' = "exited" => pc = "exited" /\ UNCHANGED <<ring, local, queued>>
      BY <2>3 DEF Thread, Sleep, Wake, Take, WriteOut, Logging, Unlock, Signal, ioVars
    <3> QED
      BY <3>1 DEF CallInv, Put
  <2> QED
    BY <2>1, <2>2, <2>3
<1>4. pc = "exited" => pc' = "exited"
  BY DEF Thread, Sleep, Wake, Exit, Take, WriteOut, Logging, Write, Unlock, Signal, ioVars
<1>5. asked <= queued'
  BY <1>2 DEF CallInv
<1> QED
  BY <1>1, <1>3, <1>4, <1>5 DEF CallInv, Begun, Waited

LEMMA CallMain ==
  ASSUME BytesInv, CallInv, Main
  PROVE  CallInv'
<1>1. /\ UNCHANGED <<use, queued, ring, local, pc>>
      /\ Put' = Put
  BY DEF Main, Close, Wait, CallSignal, Join, Free, ioVars, Put
<1>2. /\ Len(use) \in Nat /\ next \in Nat /\ next >= 1 /\ queued \in Nat
      /\ pc = "exited" => Begun /\ asked <= Put
      /\ asked \in Nat /\ asked <= queued
  BY UseFacts, Wide DEF CallInv
<1>3. asked' \in Nat /\ asked' <= queued
  BY <1>2 DEF Main, Close, Wait, CallSignal, Join, Free, Begins
<1>4. Begun => asked' = asked
  BY <1>2 DEF Begun, Main, Close, Wait, CallSignal, Join, Free, Begins
<1>5. Begun'
  BY <1>2 DEF CallInv, Begun, Main, Close, Wait, CallSignal, Join, Free, Begins
<1>6. pc' = "exited" => Begun' /\ asked' <= Put'
  <2> SUFFICES ASSUME pc' = "exited" PROVE asked' <= Put'
    BY <1>5
  <2>1. pc = "exited" /\ Begun /\ asked <= Put
    BY <1>1, <1>2
  <2> QED
    BY <2>1, <1>1, <1>4
<1>7. CASE Close \/ Wait
  <2>1. next <= Len(use) /\ use[next] \in {"close", "wait"} /\ call' = "signal" /\ next' = next
    BY <1>7 DEF Close, Wait, Begins
  <2> QED
    BY <2>1, <1>1, <1>3, <1>5, <1>6 DEF CallInv, Waited
<1>8. CASE CallSignal /\ use[next] = "wait"
  <2>1. call = "signal" /\ call' = "join" /\ next' = next
    BY <1>8 DEF CallSignal
  <2> QED
    BY <2>1, <1>1, <1>3, <1>5, <1>6, <1>8 DEF CallInv, Waited
<1>9. ASSUME call' = "start", next' = next + 1, next <= Len(use),
             use[next] = "wait" => pc = "exited"
      PROVE  CallInv'
  <2>1. Waited' => pc = "exited"
    <3>0. next' - 1 = next /\ use' = use
      BY <1>1, <1>2, <1>9
    <3> SUFFICES ASSUME NEW i \in 1 .. next, use[i] = "wait" PROVE pc = "exited"
      BY <3>0 DEF Waited
    <3>1. CASE i = next
      BY <3>1, <1>9
    <3>2. CASE i # next
      BY <3>2, <1>2 DEF CallInv, Waited
    <3> QED
      BY <3>1, <3>2
  <2>2. next' \in 1 .. Len(use') + 1
    <3>1. next + 1 \in 1 .. Len(use) + 1
      BY <1>2, <1>9
    <3>2. use' = use /\ next' = next + 1
      BY <1>1, <1>9
    <3> QED
      BY <3>1, <3>2
  <2> QED
    BY <2>1, <2>2, <1>1, <1>3, <1>5, <1>6, <1>9 DEF CallInv
<1>10. CASE CallSignal /\ use[next] # "wait"
  BY <1>9, <1>10 DEF CallSignal, CallInv
<1>11. CASE Join
  BY <1>9, <1>11 DEF Join, CallInv
<1>12. CASE Free
  BY <1>9, <1>12 DEF Free, Begins
<1> QED
  BY <1>7, <1>8, <1>10, <1>11, <1>12 DEF Main

IOInv == BytesInv /\ FileInv /\ CallInv

LEMMA IOStep == IOInv /\ [Next]_vars => IOInv'
<1> SUFFICES ASSUME IOInv, [Next]_vars PROVE CallInv'
  BY StreamStep DEF IOInv
<1>2. CASE UNCHANGED vars
  <2>1. UNCHANGED <<use, next, call, asked, queued, finish, pc, ring, local>>
    BY <1>2 DEF vars, ioVars, mainVars
  <2>2. Put' = Put
    BY <2>1 DEF Put
  <2> QED
    BY <2>1, <2>2 DEF IOInv, CallInv, Begun, Waited
<1>3. CASE Next
  <2>1. (Thread \/ \E w \in Writers : Logging(w)) \/ Main
    BY <1>3 DEF Next
  <2> QED
    BY <2>1, CallThread, CallMain DEF IOInv
<1> QED
  BY <1>2, <1>3

(* Who has waited and sees no error has all bytes in the file. *)
THEOREM HonestErrorTheorem == Spec => []HonestError
<1>1. Init => IOInv
  BY StreamInit, CallInit DEF IOInv
<1>2. IOInv => HonestError
  <2> SUFFICES ASSUME IOInv, Waited, ~error
               PROVE  Len(file) >= asked /\ \A i \in 1 .. asked : file[i] = i
    BY DEF HonestError
  <2>1. asked <= Put /\ asked \in Nat
    BY DEF IOInv, CallInv
  <2>2. Len(file) = Put /\ Put \in Nat /\ \A i \in 1 .. Put : file[i] = i
    BY DEF IOInv, FileInv, BytesInv
  <2> QED
    BY <2>1, <2>2
<1> QED
  BY <1>1, <1>2, IOStep, PTL DEF Spec

-----------------------------------------------------------------------------
(* Who still holds the output *)
RefInv ==
  /\ refcount = (IF pc = "exited" THEN 0 ELSE 1)
                + (IF ~Shared /\ next > Len(use) THEN 0 ELSE 1)
  /\ writer \in [Writers -> {"idle", "locked", "signal"}]
  /\ ~Shared /\ Begun => \A w \in Writers : writer[w] = "idle"

LEMMA RefThread ==
  ASSUME RefInv, Thread
  PROVE  RefInv'
<1>1. UNCHANGED <<writer, use, next, call>>
  BY DEF Thread, Sleep, Wake, Exit, Take, WriteOut, mainVars
<1>2. CASE Exit
  <2>1. pc = "test" /\ pc' = "exited" /\ refcount' = refcount - 1
    BY <1>2 DEF Exit
  <2> QED
    BY <1>1, <2>1 DEF RefInv, Shared, Begun
<1>3. CASE ~Exit
  <2>1. refcount' = refcount /\ pc # "exited" /\ pc' # "exited"
    BY <1>3 DEF Thread, Sleep, Wake, Take, WriteOut
  <2> QED
    BY <1>1, <2>1 DEF RefInv, Shared, Begun
<1> QED
  BY <1>2, <1>3

LEMMA RefLogging ==
  ASSUME RefInv, NEW w \in Writers, Logging(w)
  PROVE  RefInv'
<1>1. UNCHANGED <<pc, refcount, use, next, call>>
  BY DEF Logging, Write, Unlock, Signal, ioVars, mainVars
<1>2. ~(~Shared /\ Begun)
  BY DEF Logging, Write, Unlock, Signal, RefInv
<1>3. writer' \in [Writers -> {"idle", "locked", "signal"}]
  BY DEF Logging, Write, Unlock, Signal, Becomes, RefInv
<1> QED
  BY <1>1, <1>2, <1>3 DEF RefInv, Shared, Begun

LEMMA RefMain ==
  ASSUME CallInv, RefInv, Main
  PROVE  RefInv'
<1>1. UNCHANGED <<pc, use, writer>>
  BY DEF Main, Close, Wait, CallSignal, Join, Free, ioVars
<1>2. ~Shared => \A w \in Writers : writer[w] = "idle"
  BY DEF RefInv, CallInv, Begun, Main, Close, Wait, CallSignal, Join, Free, Begins
<1>3. /\ Len(use) \in Nat /\ next \in Nat /\ next >= 1
      /\ Shared <=> \A i \in 1 .. Len(use) : use[i] # "free"
      /\ \A i \in 1 .. Len(use) : use[i] = "free" => i = Len(use)
  BY UseFacts DEF CallInv
<1>4. refcount' = (IF pc = "exited" THEN 0 ELSE 1)
                  + (IF ~Shared /\ next' > Len(use) THEN 0 ELSE 1)
  <2>1. CASE Free
    <3>1. /\ use[next] = "free" /\ next <= Len(use)
          /\ refcount' = refcount - 1 /\ next' = next + 1
      BY <2>1 DEF Free, Begins
    <3>2. ~Shared /\ next = Len(use)
      BY <3>1, <1>3
    <3> QED
      BY <3>1, <3>2, <1>3 DEF RefInv
  <2>2. CASE ~Free
    <3>1. refcount' = refcount /\ next <= Len(use) /\ use[next] # "free"
          /\ next' \in {next, next + 1}
      BY <2>2 DEF Main, Close, Wait, CallSignal, Join, Begins, CallInv
    <3>2. ~Shared => next < Len(use)
      BY <3>1, <1>3
    <3> QED
      BY <3>1, <3>2, <1>3 DEF RefInv
  <2> QED
    BY <2>1, <2>2
<1> QED
  BY <1>1, <1>2, <1>4 DEF RefInv, Shared

(* The last to use the output frees it. *)
THEOREM NoUseAfterFreeTheorem == Spec => []NoUseAfterFree
<1>1. Init => IOInv /\ RefInv
  <2> SUFFICES ASSUME Init PROVE RefInv
    BY StreamInit, CallInit DEF IOInv
  <2>1. /\ refcount = 2 /\ pc = "test" /\ next = 1 /\ call = "start" /\ use \in Uses
        /\ writer = [w \in Writers |-> "idle"]
    BY DEF Init
  <2>2. ~Shared => Len(use) >= 1
    BY CallInit, UseFacts
  <2>3. Len(use) \in Nat
    BY CallInit, UseFacts
  <2> QED
    BY <2>1, <2>2, <2>3 DEF RefInv
<1>2. (IOInv /\ RefInv) /\ [Next]_vars => (IOInv /\ RefInv)'
  <2> SUFFICES ASSUME IOInv, RefInv, [Next]_vars PROVE RefInv'
    BY IOStep
  <2>1. CASE UNCHANGED vars
    BY <2>1 DEF RefInv, vars, ioVars, mainVars, Shared, Begun
  <2>2. CASE Next
    BY <2>2, RefThread, RefLogging, RefMain DEF Next, IOInv
  <2> QED
    BY <2>1, <2>2
<1>3. IOInv /\ RefInv => NoUseAfterFree
  <2> SUFFICES ASSUME CallInv, RefInv, refcount = 0
               PROVE  /\ pc = "exited"
                      /\ \A w \in Writers : writer[w] = "idle"
                      /\ next > Len(use) /\ call = "start"
    BY DEF IOInv, NoUseAfterFree
  <2>1. pc = "exited" /\ ~Shared /\ next > Len(use)
    BY DEF RefInv
  <2>2. Len(use) \in Nat /\ next \in Nat /\ next > 1
    BY <2>1, UseFacts
  <2> QED
    BY <2>1, <2>2 DEF RefInv, CallInv, Begun
<1> QED
  BY <1>1, <1>2, <1>3, PTL DEF Spec
=============================================================================

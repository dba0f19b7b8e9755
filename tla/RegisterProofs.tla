-------------------------- MODULE RegisterProofs --------------------------
(***************************************************************************)
(* What a server and a master make of each other, for any protocols,       *)
(* time-outs and bounds.                                                   *)
(*                                                                         *)
(* The two halves of the master's list fit together: what Servers::add,    *)
(* remove and prune_before unwrap and assert is there, whatever requests   *)
(* reach the master, in any order (ListTheorem).                           *)
(*                                                                         *)
(* The server is listed one period after the last trouble (ListedTheorem), *)
(* and what has gone is out of the list with the time-out (GoneTheorem).   *)
(* For both the proof follows what each protocol that is enabled waits for *)
(* while it is calm (Timely): for its first register since, for the next   *)
(* one, listed since the last, or for the answer to the last, which sends  *)
(* it again within the same unit of time if it lacks the token or the      *)
(* info.                                                                   *)
(***************************************************************************)
EXTENDS Register, TLAPS, FiniteSetTheorems, SequenceTheorems, WellFoundedInduction

(* A list is two functions on records. *)
IsList(l) ==
  /\ l = [addresses |-> l.addresses, servers |-> l.servers]
  /\ l.addresses = [a \in DOMAIN l.addresses |->
                      [secret |-> l.addresses[a].secret, age |-> l.addresses[a].age]]
  /\ l.servers = [s \in DOMAIN l.servers |->
                    [addresses |-> l.servers[s].addresses,
                     serial |-> l.servers[s].serial]]

Good(l) == IsList(l) /\ Consistent(l)

LEMMA EmptyGood == Good(EmptyList)
BY DEF Good, IsList, Consistent, EmptyList

(* Taking addresses out leaves each server with the rest of its own, and   *)
(* no server without any.                                                  *)
LEMMA WithoutGood ==
  ASSUME NEW l, Good(l), NEW gone
  PROVE  Good(Without(l, gone))
<1> DEFINE Left(s) == l.servers[s].addresses
                        \ {a \in gone : l.addresses[a].secret = s}
           rest == DOMAIN l.addresses \ gone
           left == {s \in DOMAIN l.servers : Left(s) # {}}
           w == Without(l, gone)
<1>1. w = [addresses |-> [a \in rest |-> l.addresses[a]],
           servers |-> [s \in left |-> [l.servers[s] EXCEPT !.addresses = Left(s)]]]
  BY DEF Without
<1>2. \A s \in left :
        [l.servers[s] EXCEPT !.addresses = Left(s)]
          = [addresses |-> Left(s), serial |-> l.servers[s].serial]
  <2> SUFFICES ASSUME NEW s \in left
               PROVE  [l.servers[s] EXCEPT !.addresses = Left(s)]
                        = [addresses |-> Left(s), serial |-> l.servers[s].serial]
    OBVIOUS
  <2>1. l.servers[s] = [addresses |-> l.servers[s].addresses,
                        serial |-> l.servers[s].serial]
    BY DEF Good, IsList
  <2> HIDE DEF Left
  <2> QED BY <2>1
<1>3. /\ DOMAIN w.addresses = rest
      /\ \A a \in rest : w.addresses[a] = l.addresses[a]
      /\ DOMAIN w.servers = left
      /\ \A s \in left : /\ w.servers[s].addresses = Left(s)
                         /\ w.servers[s] = [addresses |-> Left(s),
                                            serial |-> l.servers[s].serial]
  <2> HIDE DEF Left, rest, left, w
  <2> QED BY <1>1, <1>2
<1>4. \A a \in rest : l.addresses[a] = [secret |-> l.addresses[a].secret,
                                        age |-> l.addresses[a].age]
  BY DEF Good, IsList
<1>5. IsList(w)
  <2> HIDE DEF Left, rest, left
  <2> QED BY <1>1, <1>2, <1>3, <1>4 DEF IsList
<1>6. \A s \in DOMAIN l.servers :
        Left(s) = {a \in rest : l.addresses[a].secret = s}
  BY DEF Good, Consistent
<1>7. \A a \in rest : l.addresses[a].secret \in left
  BY <1>6 DEF Good, Consistent
<1>8. Consistent(w)
  <2>1. \A s \in left : Left(s) # {} /\ s \in DOMAIN l.servers
    OBVIOUS
  <2>2. \A s : {a \in rest : l.addresses[a].secret = s}
                 = {a \in rest : w.addresses[a].secret = s}
    <3> HIDE DEF rest, w
    <3> QED BY <1>3
  <2>3. \A s \in left : w.servers[s].addresses
                          = {a \in DOMAIN w.addresses : w.addresses[a].secret = s}
    <3> SUFFICES ASSUME NEW s \in left
                 PROVE  w.servers[s].addresses
                          = {a \in DOMAIN w.addresses : w.addresses[a].secret = s}
      OBVIOUS
    <3>1. w.servers[s].addresses = Left(s)
      BY <1>3
    <3>2. Left(s) = {a \in rest : l.addresses[a].secret = s}
      BY <1>6, <2>1
    <3>3. DOMAIN w.addresses = rest
      BY <1>3
    <3>4. {a \in rest : l.addresses[a].secret = s} = {a \in rest : w.addresses[a].secret = s}
      BY <2>2
    <3> HIDE DEF Left, rest, left, w
    <3> QED BY <3>1, <3>2, <3>3, <3>4
  <2>4. \A a \in DOMAIN w.addresses : w.addresses[a].secret \in DOMAIN w.servers
    <3> HIDE DEF Left, rest, left, w
    <3> QED BY <1>3, <1>7
  <2> HIDE DEF Left, rest, left, w
  <2> QED BY <1>3, <2>1, <2>3, <2>4 DEF Consistent
<1> QED BY <1>5, <1>8 DEF Good

(* An address that comes to a server has been taken from the one that had  *)
(* it, and the server that had none before has it alone.                   *)
LEMMA AddedGood ==
  ASSUME NEW l, Good(l), NEW addr, NEW secret, NEW serial
  PROVE  Good(Added(l, addr, secret, serial))
<1> DEFINE old == Vacated(l, addr, secret)
           new == Added(l, addr, secret, serial)
           as == DOMAIN old.addresses \cup {addr}
           ss == DOMAIN old.servers \cup {secret}
           address(a) == IF a = addr THEN [secret |-> secret, age |-> 0]
                                     ELSE old.addresses[a]
           server(s) ==
             IF s # secret THEN old.servers[s]
             ELSE IF s \in DOMAIN old.servers
               THEN [addresses |-> old.servers[s].addresses \cup {addr},
                     serial |-> Newer(old.servers[s].serial, serial)]
               ELSE [addresses |-> {addr}, serial |-> serial]
<1>1. Good(old) /\ (addr \in DOMAIN old.addresses => old.addresses[addr].secret = secret)
  <2>1. CASE addr \in DOMAIN l.addresses /\ l.addresses[addr].secret # secret
    <3>1. old = Without(l, {addr})
      BY <2>1 DEF Vacated
    <3>2. DOMAIN Without(l, {addr}).addresses = DOMAIN l.addresses \ {addr}
      BY DEF Without
    <3> QED BY <3>1, <3>2, WithoutGood
  <2>2. CASE ~(addr \in DOMAIN l.addresses /\ l.addresses[addr].secret # secret)
    BY <2>2 DEF Vacated
  <2> QED BY <2>1, <2>2
<1>2. new = [addresses |-> [a \in as |-> address(a)], servers |-> [s \in ss |-> server(s)]]
  BY DEF Added
<1> HIDE DEF old
<1>3. /\ DOMAIN new.addresses = as
      /\ \A a \in as : new.addresses[a] = address(a)
      /\ DOMAIN new.servers = ss
      /\ \A s \in ss : new.servers[s] = server(s)
  <2> HIDE DEF as, ss, address, server, new
  <2> QED BY <1>2
<1>4. \A a \in as : address(a) = [secret |-> address(a).secret, age |-> address(a).age]
  BY <1>1 DEF Good, IsList
<1>5. \A s \in ss : server(s) = [addresses |-> server(s).addresses,
                                 serial |-> server(s).serial]
  BY <1>1 DEF Good, IsList
<1>6. IsList(new)
  <2> HIDE DEF as, ss, address, server, new
  <2>1. new = [addresses |-> new.addresses, servers |-> new.servers]
    BY <1>2
  <2>2. new.addresses = [a \in as |-> address(a)] /\ new.servers = [s \in ss |-> server(s)]
    BY <1>2
  <2>3. \A a \in as : new.addresses[a] = [secret |-> new.addresses[a].secret,
                                          age |-> new.addresses[a].age]
    BY <1>3, <1>4
  <2>4. \A s \in ss : new.servers[s] = [addresses |-> new.servers[s].addresses,
                                        serial |-> new.servers[s].serial]
    BY <1>3, <1>5
  <2>5. new.addresses = [a \in DOMAIN new.addresses |->
                          [secret |-> new.addresses[a].secret, age |-> new.addresses[a].age]]
    BY <2>2, <2>3
  <2>6. new.servers = [s \in DOMAIN new.servers |->
                        [addresses |-> new.servers[s].addresses,
                         serial |-> new.servers[s].serial]]
    BY <2>2, <2>4
  <2> QED BY <2>1, <2>5, <2>6 DEF IsList
<1>7. \A a \in as : address(a).secret \in ss
  BY <1>1 DEF Good, Consistent
<1>8. \A s \in ss : /\ server(s).addresses # {}
                    /\ server(s).addresses = {a \in as : address(a).secret = s}
  <2>1. SUFFICES ASSUME NEW s \in ss
                 PROVE  /\ server(s).addresses # {}
                        /\ server(s).addresses = {a \in as : address(a).secret = s}
    OBVIOUS
  <2>2. CASE s # secret
    BY <1>1, <2>2 DEF Good, Consistent
  <2>3. CASE s = secret /\ s \in DOMAIN old.servers
    <3>1. old.servers[s].addresses = {a \in DOMAIN old.addresses :
                                        old.addresses[a].secret = s}
      BY <1>1, <2>3 DEF Good, Consistent
    <3>2. server(s).addresses = old.servers[s].addresses \cup {addr}
      BY <2>3
    <3> QED BY <2>3, <3>1, <3>2
  <2>4. CASE s = secret /\ s \notin DOMAIN old.servers
    <3>1. \A a \in DOMAIN old.addresses : old.addresses[a].secret # s
      BY <1>1, <2>4 DEF Good, Consistent
    <3> QED BY <2>4, <3>1, <1>1
  <2> QED BY <2>2, <2>3, <2>4
<1>9. Consistent(new)
  <2>1. \A a \in DOMAIN new.addresses : new.addresses[a].secret \in DOMAIN new.servers
    <3> HIDE DEF as, ss, address, server, new
    <3> QED BY <1>3, <1>7
  <2>2. ASSUME NEW s \in DOMAIN new.servers
        PROVE  /\ new.servers[s].addresses # {}
               /\ new.servers[s].addresses
                    = {a \in DOMAIN new.addresses : new.addresses[a].secret = s}
    <3> HIDE DEF as, ss, address, server, new
    <3>1. s \in ss /\ new.servers[s] = server(s)
      BY <1>3
    <3>2. server(s).addresses # {} /\ server(s).addresses = {a \in as : address(a).secret = s}
      BY <3>1, <1>8
    <3>3. {a \in as : address(a).secret = s}
            = {a \in DOMAIN new.addresses : new.addresses[a].secret = s}
      BY <1>3
    <3> QED BY <3>1, <3>2, <3>3
  <2> HIDE DEF new
  <2> QED BY <2>1, <2>2 DEF Consistent
<1> QED BY <1>6, <1>9 DEF Good

LEMMA RemovedGood ==
  ASSUME NEW l, Good(l), NEW addr, NEW secret
  PROVE  Good(Removed(l, addr, secret))
BY WithoutGood DEF Removed

LEMMA AgedGood ==
  ASSUME NEW l, Good(l)
  PROVE  Good(Aged(l))
<1> DEFINE as == DOMAIN l.addresses
           aged == Aged(l)
<1>1. \A a \in as : [l.addresses[a] EXCEPT !.age = @ + 1]
                      = [secret |-> l.addresses[a].secret, age |-> l.addresses[a].age + 1]
  <2> SUFFICES ASSUME NEW a \in as
               PROVE  [l.addresses[a] EXCEPT !.age = @ + 1]
                        = [secret |-> l.addresses[a].secret, age |-> l.addresses[a].age + 1]
    OBVIOUS
  <2>1. l.addresses[a] = [secret |-> l.addresses[a].secret, age |-> l.addresses[a].age]
    BY DEF Good, IsList
  <2> QED BY <2>1
<1>2. aged = [addresses |-> [a \in as |-> [secret |-> l.addresses[a].secret,
                                           age |-> l.addresses[a].age + 1]],
              servers |-> l.servers]
  BY <1>1 DEF Aged
<1>3. /\ DOMAIN aged.addresses = as
      /\ \A a \in as : /\ aged.addresses[a].secret = l.addresses[a].secret
                       /\ aged.addresses[a].age = l.addresses[a].age + 1
      /\ aged.servers = l.servers
  <2> HIDE DEF as, aged
  <2> QED BY <1>2
<1>4. IsList(aged)
  <2> HIDE DEF as
  <2> QED BY <1>2, <1>3 DEF IsList, Good
<1>5. Consistent(aged)
  <2> HIDE DEF aged
  <2> QED BY <1>3 DEF Good, Consistent
<1> QED BY <1>4, <1>5 DEF Good

-----------------------------------------------------------------------------
(* What is on the disk was the list once. *)
MasterInv == Good(list) /\ Good(dump)

LEMMA ArriveStep ==
  ASSUME MasterInv, NEW p, NEW i, Arrive(p, i)
  PROVE  MasterInv'
<1>1. dump' = dump
  BY DEF Arrive
<1>2. \/ list' = Removed(list, p, requests[p][i].secret)
      \/ list' = Added(list, p, requests[p][i].secret, requests[p][i].serial)
      \/ list' = list
  BY DEF Arrive
<1> QED BY <1>1, <1>2, RemovedGood, AddedGood DEF MasterInv

LEMMA TickStep ==
  ASSUME MasterInv, Tick
  PROVE  MasterInv'
<1>1. PICK gone : list' = Without(Aged(list), gone)
  BY DEF Tick, Writeout, Pruned
<1>2. dump' = list'
  BY DEF Tick, Writeout
<1> QED BY <1>1, <1>2, AgedGood, WithoutGood DEF MasterInv

LEMMA RestartStep ==
  ASSUME MasterInv, MasterRestart
  PROVE  MasterInv'
BY EmptyGood DEF MasterInv, MasterRestart, masterVars, serverVars

LEMMA MasterStep ==
  ASSUME MasterInv, [Next]_vars
  PROVE  MasterInv'
<1> USE DEF MasterInv
<1>1. CASE Serving
  <2>1. ASSUME Update PROVE MasterInv'
    BY <2>1 DEF Update, masterVars
  <2>2. ASSUME NEW c, OnToken(c) PROVE MasterInv'
    BY <2>2 DEF OnToken, masterVars
  <2> QED BY <1>1, <2>1, <2>2 DEF Serving
<1>2. CASE Working
  <2>1. PICK p \in Protocols : \E i \in DOMAIN requests[p] : Work(p, i)
    BY <1>2 DEF Working
  <2>6. PICK i \in DOMAIN requests[p] : Work(p, i)
    BY <2>1
  <2>2. CASE Arrive(p, i)
    BY <2>2, ArriveStep
  <2>3. CASE NoteStatus(p, i)
    BY <2>3 DEF NoteStatus, masterVars
  <2>4. CASE NoteSerial(p, i)
    BY <2>4 DEF NoteSerial, masterVars
  <2>5. CASE Ignore(p, i)
    BY <2>5 DEF Ignore, masterVars
  <2> QED BY <2>6, <2>2, <2>3, <2>4, <2>5 DEF Work
<1>3. CASE OnNewInfo
  BY <1>3 DEF OnNewInfo, masterVars
<1>4. CASE Start
  BY <1>4 DEF Start, masterVars
<1>5. CASE Tick
  BY <1>5, TickStep
<1>6. CASE Troubling
  <2>1. ASSUME NEW E, OnConfigChange(E) PROVE MasterInv'
    BY <2>1 DEF OnConfigChange, masterVars
  <2>2. ASSUME NEW shutdown, Stop(shutdown) PROVE MasterInv'
    BY <2>2 DEF Stop, masterVars
  <2>3. ASSUME NEW p, NEW i, Fail(p, i) \/ Delay(p, i) PROVE MasterInv'
    BY <2>3 DEF Fail, Delay, masterVars
  <2>4. ASSUME NEW c, LoseChallenge(c) \/ DelayChallenge(c) PROVE MasterInv'
    BY <2>4 DEF LoseChallenge, DelayChallenge, masterVars
  <2>5. CASE Reseed
    BY <2>5 DEF Reseed
  <2>6. CASE MasterRestart
    BY <2>6, RestartStep
  <2> QED BY <1>6, <2>1, <2>2, <2>3, <2>4, <2>5, <2>6 DEF Troubling
<1>7. CASE UNCHANGED vars
  BY <1>7 DEF vars, masterVars
<1> QED BY <1>1, <1>2, <1>3, <1>4, <1>5, <1>6, <1>7 DEF Next

(* The list stays consistent: an address is listed under its server and    *)
(* under no other, and no server without an address (Servers::add, remove  *)
(* and prune_before).                                                      *)
THEOREM ListTheorem == Spec => []ListFits
<1>1. Init => MasterInv
  BY EmptyGood DEF Init, MasterInv
<1>2. MasterInv /\ [Next]_vars => MasterInv'
  BY MasterStep
<1>3. MasterInv => ListFits
  BY DEF MasterInv, Good, ListFits
<1> QED BY <1>1, <1>2, <1>3, PTL DEF Spec

-----------------------------------------------------------------------------
(* The types of the state. *)
Life == Nat \ {0}

Statuses == {"none", "failed"} \cup Answers

ProtocolState == [next : Int, prev : Nat, status : Statuses, answered : BOOLEAN,
                  token : Nat, newToken : BOOLEAN]

ARequest == [action : {"register", "delete"}, secret : Life, serial : Nat, info : BOOLEAN,
             token : Nat, newest : BOOLEAN, late : BOOLEAN,
             at : {"sent", "failed"} \cup Answers, noted : BOOLEAN, slow : BOOLEAN]

Challenge == [protocol : Protocols, secret : Life, seed : Nat, slow : BOOLEAN]

TypeOK ==
  /\ life \in Life /\ up \in BOOLEAN /\ updated \in BOOLEAN
  /\ enabled \in SUBSET Protocols
  /\ infoSerial \in Nat /\ latest \in Int
  /\ protocol \in [Protocols -> ProtocolState]
  /\ requests \in [Protocols -> Seq(ARequest)]
  /\ challenges \in SUBSET Challenge
  /\ seed \in Nat
  /\ trouble \in Nat /\ calm \in Nat

(* Min of a set of numbers is in it. *)
LEMMA MinInSet ==
  ASSUME NEW S \in SUBSET Nat, S # {}
  PROVE  Min(S) \in S /\ \A y \in S : Min(S) <= y
<1> DEFINE T == {0 .. x : x \in S}
<1>1. T \subseteq FiniteSubsetsOf(Nat) /\ T # {}
  <2>1. \A x \in S : 0 .. x \in SUBSET Nat /\ IsFiniteSet(0 .. x)
    BY FS_Interval
  <2>2. \A x \in S : 0 .. x \in FiniteSubsetsOf(Nat)
    BY <2>1 DEF FiniteSubsetsOf
  <2> QED BY <2>2
<1>2. PICK t \in T : \A u \in T : ~ (<<u, t>> \in StrictSubsetOrdering(Nat))
  BY <1>1, FS_StrictSubsetOrderingWellFounded, WFMin
<1>3. PICK x \in S : t = 0 .. x
  OBVIOUS
<1>4. ASSUME NEW y \in S, ~ x <= y
      PROVE  FALSE
  <2>1. 0 .. y \in T /\ 0 .. y \subseteq 0 .. x
    BY <1>4
  <2>2. 0 .. y # 0 .. x
    <3>1. x \in 0 .. x /\ x \notin 0 .. y
      BY <1>4
    <3> QED BY <3>1
  <2>3. 0 .. y \in SUBSET Nat /\ 0 .. x \in SUBSET Nat
    OBVIOUS
  <2>4. <<0 .. y, t>> \in StrictSubsetOrdering(Nat)
    BY <1>3, <2>1, <2>2, <2>3 DEF StrictSubsetOrdering
  <2> QED BY <1>2, <2>1, <2>4
<1>5. \A y \in S : x <= y
  BY <1>4
<1> QED BY <1>5 DEF Min

(* What is left when one element is taken out of a sequence. *)
LEMMA RemoveAtFacts ==
  ASSUME NEW T, NEW s \in Seq(T), NEW i \in DOMAIN s
  PROVE  /\ RemoveAt(s, i) \in Seq(T)
         /\ Len(RemoveAt(s, i)) = Len(s) - 1
         /\ \A j \in 1 .. Len(s) - 1 : RemoveAt(s, i)[j] = IF j < i THEN s[j] ELSE s[j + 1]
<1> DEFINE a == SubSeq(s, 1, i - 1)
           b == SubSeq(s, i + 1, Len(s))
<1>1. i \in 1 .. Len(s) /\ Len(s) \in Nat
  OBVIOUS
<1>2. a \in Seq(T) /\ Len(a) = i - 1 /\ \A j \in 1 .. i - 1 : a[j] = s[j]
  BY <1>1
<1>3. b \in Seq(T) /\ Len(b) = Len(s) - i /\ \A j \in 1 .. Len(s) - i : b[j] = s[i + j]
  BY <1>1
<1>4. RemoveAt(s, i) = a \o b
  BY DEF RemoveAt
<1> HIDE DEF a, b
<1>5. /\ a \o b \in Seq(T) /\ Len(a \o b) = Len(a) + Len(b)
      /\ \A j \in 1 .. Len(a) + Len(b) :
           (a \o b)[j] = IF j <= Len(a) THEN a[j] ELSE b[j - Len(a)]
  BY <1>2, <1>3, ConcatProperties
<1>8. Len(a) = i - 1 /\ Len(b) = Len(s) - i
  BY <1>2, <1>3
<1>6. ASSUME NEW j \in 1 .. Len(s) - 1
      PROVE  (a \o b)[j] = IF j < i THEN s[j] ELSE s[j + 1]
  <2>1. CASE j < i
    <3>1. (a \o b)[j] = a[j]
      BY <1>1, <1>2, <1>3, <1>5, <2>1
    <3> QED BY <3>1, <1>1, <1>2, <2>1
  <2>2. CASE ~ j < i
    <3>3. j \in 1 .. Len(a) + Len(b) /\ ~ j <= Len(a)
      <4>1. j \in Int /\ 1 <= j /\ j <= Len(s) - 1 /\ i <= j /\ i \in Int /\ Len(s) \in Int
        BY <1>1, <2>2
      <4>2. Len(a) \in Int /\ Len(b) \in Int /\ Len(a) + Len(b) = Len(s) - 1
        BY <1>1, <1>8
      <4>3. Len(a) < j
        BY <1>8, <4>1
      <4>4. ~ j <= Len(a)
        BY <4>1, <4>2, <4>3
      <4>5. j <= Len(a) + Len(b)
        BY <4>1, <4>2
      <4>6. j \in 1 .. Len(a) + Len(b)
        BY <4>1, <4>2, <4>5
      <4> QED BY <4>4, <4>6
    <3>1. (a \o b)[j] = b[j - (i - 1)]
      BY <3>3, <1>1, <1>2, <1>3, <1>5, <2>2
    <3>2. j - (i - 1) \in 1 .. Len(s) - i /\ i + (j - (i - 1)) = j + 1
      BY <1>1, <2>2
    <3> QED BY <3>1, <3>2, <1>3, <2>2
  <2> QED BY <2>1, <2>2
<1>7. Len(a) + Len(b) = Len(s) - 1
  BY <1>1, <1>2, <1>3
<1> QED BY <1>4, <1>5, <1>6, <1>7

LEMMA SentFacts ==
  ASSUME NEW r \in ProtocolState
  PROVE  /\ Sent(r) \in ProtocolState
         /\ Sent(r).next = Period /\ ~Sent(r).newToken /\ ~Sent(r).answered
         /\ Sent(r).token = r.token /\ Sent(r).status = r.status
<1> DEFINE r1 == [r EXCEPT !.next = Period]
           r2 == [r1 EXCEPT !.prev = 0]
           r3 == [r2 EXCEPT !.newToken = FALSE]
           r4 == [r3 EXCEPT !.answered = FALSE]
<1>1. Sent(r) = r4
  BY DEF Sent
<1>2. Period \in Int
  BY RegisterAssumption
<1>3. r1 \in ProtocolState /\ r1.next = Period /\ r1.token = r.token /\ r1.status = r.status
  BY <1>2 DEF ProtocolState
<1> HIDE DEF r1
<1>4. r2 \in ProtocolState /\ r2.next = Period /\ r2.token = r.token /\ r2.status = r.status
  BY <1>3 DEF ProtocolState
<1> HIDE DEF r2
<1>5. /\ r3 \in ProtocolState /\ r3.next = Period /\ r3.token = r.token /\ r3.status = r.status
      /\ ~r3.newToken
  BY <1>4 DEF ProtocolState
<1> HIDE DEF r3
<1>6. /\ r4 \in ProtocolState /\ r4.next = Period /\ r4.token = r.token /\ r4.status = r.status
      /\ ~r4.newToken /\ ~r4.answered
  BY <1>5 DEF ProtocolState
<1> QED BY <1>1, <1>6

LEMMA RequestFacts ==
  ASSUME TypeOK, NEW r \in ProtocolState, NEW serial \in Nat, NEW action \in {"register", "delete"}
  PROVE  /\ Request(action, r, serial) \in ARequest
         /\ Request(action, r, serial).action = action
         /\ Request(action, r, serial).secret = life
         /\ Request(action, r, serial).serial = serial
         /\ Request(action, r, serial).token = r.token
         /\ Request(action, r, serial).newest = (action = "register")
         /\ ~Request(action, r, serial).late /\ ~Request(action, r, serial).noted
         /\ ~Request(action, r, serial).slow /\ Request(action, r, serial).at = "sent"
BY DEF Request, ARequest, ProtocolState, TypeOK

(* The request for q: it is the same but for what has become of it. *)
SameRequest(q, r) ==
  /\ q.action = r.action /\ q.secret = r.secret /\ q.serial = r.serial /\ q.token = r.token

(* A register is sent behind the others, which are no longer the newest. *)
LEMMA WithRegisterFacts ==
  ASSUME TypeOK, NEW s \in Seq(ARequest), NEW r \in ProtocolState, NEW serial \in Nat
  PROVE  /\ WithRegister(s, r, serial) \in Seq(ARequest)
         /\ Len(WithRegister(s, r, serial)) = Len(s) + 1
         /\ WithRegister(s, r, serial)[Len(s) + 1] = Request("register", r, serial)
         /\ \A i \in 1 .. Len(s) :
              LET q == WithRegister(s, r, serial)[i]
              IN  /\ SameRequest(q, s[i]) /\ q.at = s[i].at /\ q.noted = s[i].noted
                  /\ q.slow = s[i].slow /\ q.late = s[i].late /\ ~q.newest
<1> DEFINE o == [i \in DOMAIN s |-> [s[i] EXCEPT !.newest = FALSE]]
           n == Request("register", r, serial)
<1>1. n \in ARequest
  BY RequestFacts
<1>2. \A i \in 1 .. Len(s) : s[i] \in ARequest
  OBVIOUS
<1>3. \A i \in 1 .. Len(s) :
        /\ o[i] \in ARequest
        /\ SameRequest(o[i], s[i]) /\ o[i].at = s[i].at /\ o[i].noted = s[i].noted
        /\ o[i].slow = s[i].slow /\ o[i].late = s[i].late /\ ~o[i].newest
  <2> SUFFICES ASSUME NEW i \in 1 .. Len(s)
               PROVE  /\ o[i] \in ARequest
                      /\ SameRequest(o[i], s[i]) /\ o[i].at = s[i].at /\ o[i].noted = s[i].noted
                      /\ o[i].slow = s[i].slow /\ o[i].late = s[i].late /\ ~o[i].newest
    OBVIOUS
  <2>1. o[i] = [s[i] EXCEPT !.newest = FALSE]
    <3>1. i \in DOMAIN s
      OBVIOUS
    <3> QED BY <3>1
  <2> HIDE DEF o
  <2>2. s[i] \in ARequest
    BY <1>2
  <2>3. o[i] = [action |-> s[i].action, secret |-> s[i].secret, serial |-> s[i].serial,
                info |-> s[i].info, token |-> s[i].token, newest |-> FALSE,
                late |-> s[i].late, at |-> s[i].at, noted |-> s[i].noted, slow |-> s[i].slow]
    BY <2>1, <2>2 DEF ARequest
  <2> QED BY <2>2, <2>3 DEF ARequest, SameRequest
<1>4. DOMAIN o = 1 .. Len(s) /\ Len(s) \in Nat
  OBVIOUS
<1>5. o \in Seq(ARequest) /\ Len(o) = Len(s)
  <2> HIDE DEF o
  <2>1. o \in [1 .. Len(s) -> ARequest]
    <3>1. o = [i \in 1 .. Len(s) |-> o[i]]
      BY <1>4 DEF o
    <3> QED BY <1>3, <3>1
  <2> QED BY <1>4, <2>1
<1>6. WithRegister(s, r, serial) = Append(o, n)
  BY DEF WithRegister
<1> HIDE DEF o, n
<1>7. Append(o, n) \in Seq(ARequest) /\ Len(Append(o, n)) = Len(s) + 1
      /\ Append(o, n)[Len(s) + 1] = n /\ \A i \in 1 .. Len(s) : Append(o, n)[i] = o[i]
  BY <1>1, <1>4, <1>5
<1> QED BY <1>3, <1>6, <1>7 DEF n

LEMMA SendType ==
  ASSUME TypeOK, NEW S, NEW states \in [Protocols -> ProtocolState], NEW serial \in Nat,
         SendRegister(S, states, serial)
  PROVE  /\ protocol' \in [Protocols -> ProtocolState]
         /\ requests' \in [Protocols -> Seq(ARequest)]
<1>1. \A p \in Protocols : Sent(states[p]) \in ProtocolState
  BY SentFacts
<1>2. \A p \in Protocols : WithRegister(requests[p], states[p], serial) \in Seq(ARequest)
  BY WithRegisterFacts DEF TypeOK
<1> QED BY <1>1, <1>2 DEF SendRegister, TypeOK

LEMMA HurriedFacts ==
  ASSUME NEW r \in ProtocolState, NEW when \in Int
  PROVE  LET h == [r EXCEPT !.next = IF when < @ THEN when ELSE @]
         IN  h \in ProtocolState /\ h.next <= r.next /\ h.token = r.token
<1> DEFINE v == IF when < r.next THEN when ELSE r.next
           h == [r EXCEPT !.next = v]
<1>1. v \in Int /\ v <= r.next
  BY DEF ProtocolState
<1> HIDE DEF v
<1>2. h \in ProtocolState /\ h.next = v /\ h.token = r.token
  BY <1>1 DEF ProtocolState
<1> QED BY <1>1, <1>2 DEF v

(* When the first of several requests was, is a number. *)
LEMMA SinceFacts ==
  ASSUME TypeOK, enabled # {}
  PROVE  Min({protocol[p].prev : p \in enabled}) \in Nat
<1> DEFINE S == {protocol[p].prev : p \in enabled}
<1>1. \A p \in enabled : protocol[p].prev \in Nat
  BY DEF TypeOK, ProtocolState
<1>2. S \in SUBSET Nat /\ S # {}
  BY <1>1
<1> HIDE DEF S
<1>3. Min(S) \in S
  BY <1>2, MinInSet
<1> QED BY <1>2, <1>3 DEF S

LEMMA NewInfoFacts ==
  ASSUME TypeOK, OnNewInfo
  PROVE  \/ UNCHANGED <<protocol, requests>>
         \/ \E S, states :
              /\ states \in [Protocols -> ProtocolState]
              /\ SendRegister(S, states, infoSerial')
              /\ \A p \in Protocols : /\ states[p].next <= protocol[p].next
                                      /\ states[p].token = protocol[p].token
<1> DEFINE since == Min({protocol[p].prev : p \in enabled})
           Hurried(r) == [r EXCEPT !.next = IF Second - since < @ THEN Second - since ELSE @]
           states(n) == [protocol EXCEPT ![n] = Hurried(@)]
           due(n) == {p \in enabled : states(n)[p].next <= 0}
<1>1. CASE ~(updated /\ enabled # {})
  BY <1>1 DEF OnNewInfo
<1>2. CASE updated /\ enabled # {}
  <2>1. PICK n \in enabled : SendRegister(due(n), states(n), infoSerial')
    BY <1>2 DEF OnNewInfo
  <2>2. since \in Nat /\ Second - since \in Int
    BY <1>2, SinceFacts, RegisterAssumption
  <2> HIDE DEF since
  <2>3. \A p \in Protocols : protocol[p] \in ProtocolState
    BY DEF TypeOK
  <2>4. n \in Protocols
    BY DEF TypeOK
  <2>5. /\ Hurried(protocol[n]) \in ProtocolState
        /\ Hurried(protocol[n]).next <= protocol[n].next
        /\ Hurried(protocol[n]).token = protocol[n].token
    BY <2>2, <2>3, <2>4, HurriedFacts
  <2> HIDE DEF Hurried
  <2>6. DOMAIN protocol = Protocols
    BY DEF TypeOK
  <2>7. states(n) = [p \in Protocols |-> IF p = n THEN Hurried(protocol[n]) ELSE protocol[p]]
    BY <2>4, <2>6
  <2>8. states(n) \in [Protocols -> ProtocolState]
    BY <2>3, <2>5, <2>7
  <2>9. \A p \in Protocols : /\ states(n)[p].next <= protocol[p].next
                             /\ states(n)[p].token = protocol[p].token
    <3>1. \A p \in Protocols : protocol[p].next \in Int
      BY <2>3 DEF ProtocolState
    <3> QED BY <2>5, <2>7, <3>1
  <2> HIDE DEF due, states
  <2>10. \E S, q : /\ q \in [Protocols -> ProtocolState]
                   /\ SendRegister(S, q, infoSerial')
                   /\ \A p \in Protocols : /\ q[p].next <= protocol[p].next
                                           /\ q[p].token = protocol[p].token
    <3> WITNESS due(n), states(n)
    <3> QED BY <2>1, <2>8, <2>9
  <2> QED BY <2>10
<1> QED BY <1>1, <1>2

(* The state in which OnToken may send. *)
TokenNoted(c) == [protocol EXCEPT ![c.protocol].token = c.seed, ![c.protocol].newToken = TRUE]

LEMMA TokenNotedFacts ==
  ASSUME TypeOK, NEW c \in challenges
  PROVE  /\ TokenNoted(c) \in [Protocols -> ProtocolState]
         /\ c.protocol \in Protocols
         /\ \A p \in Protocols \ {c.protocol} : TokenNoted(c)[p] = protocol[p]
         /\ LET r == TokenNoted(c)[c.protocol]
            IN  /\ r.newToken /\ r.token = c.seed /\ r.next = protocol[c.protocol].next
                /\ r.status = protocol[c.protocol].status
                /\ r.answered = protocol[c.protocol].answered
<1> DEFINE k == c.protocol
           r1 == [protocol[k] EXCEPT !.token = c.seed]
           r2 == [r1 EXCEPT !.newToken = TRUE]
<1>1. k \in Protocols /\ c.seed \in Nat /\ DOMAIN protocol = Protocols
      /\ \A p \in Protocols : protocol[p] \in ProtocolState
  BY DEF TypeOK, Challenge
<1> HIDE DEF k
<1>2. TokenNoted(c) = [p \in Protocols |-> IF p = k THEN r2 ELSE protocol[p]]
  <2>1. TokenNoted(c) = [[protocol EXCEPT ![k].token = c.seed] EXCEPT ![k].newToken = TRUE]
    BY DEF TokenNoted, k
  <2>2. [protocol EXCEPT ![k].token = c.seed]
          = [p \in Protocols |-> IF p = k THEN r1 ELSE protocol[p]]
    BY <1>1
  <2>3. \A f : f = [p \in Protocols |-> IF p = k THEN r1 ELSE protocol[p]] =>
               [f EXCEPT ![k].newToken = TRUE]
                 = [p \in Protocols |-> IF p = k THEN r2 ELSE protocol[p]]
    BY <1>1
  <2> QED BY <2>1, <2>2, <2>3
<1>3. r1 \in ProtocolState /\ r1.token = c.seed /\ r1.next = protocol[k].next
      /\ r1.status = protocol[k].status /\ r1.answered = protocol[k].answered
  BY <1>1 DEF ProtocolState
<1> HIDE DEF r1
<1>4. /\ r2 \in ProtocolState /\ r2.token = c.seed /\ r2.next = protocol[k].next
      /\ r2.status = protocol[k].status /\ r2.answered = protocol[k].answered /\ r2.newToken
  BY <1>3 DEF ProtocolState
<1> HIDE DEF r2
<1>5. TokenNoted(c)[k] = r2 /\ \A p \in Protocols \ {k} : TokenNoted(c)[p] = protocol[p]
  BY <1>1, <1>2
<1>6. TokenNoted(c) \in [Protocols -> ProtocolState]
  BY <1>1, <1>2, <1>4
<1> QED BY <1>1, <1>4, <1>5, <1>6 DEF k

LEMMA OnTokenFacts ==
  ASSUME TypeOK, NEW c \in challenges, OnToken(c)
  PROVE  /\ challenges' = challenges \ {c}
         /\ trouble' = trouble /\ calm' = IF c.slow THEN 0 ELSE calm
         /\ UNCHANGED <<life, up, updated, enabled, infoSerial, latest, list, dump, seed>>
         /\ up /\ c.secret = life =>
              SendRegister({c.protocol} \cap {q \in Protocols : Due(TokenNoted(c)[q])},
                           TokenNoted(c), infoSerial)
         /\ ~(up /\ c.secret = life) => UNCHANGED <<protocol, requests>>
BY DEF OnToken, Quietly, TokenNoted, masterVars

(* What becomes of a request, and what is left of one that is dropped. *)
Becomes(p, i, v) == requests' = [requests EXCEPT ![p][i].at = v]

LEMMA AtFacts ==
  ASSUME TypeOK, NEW p \in Protocols, NEW i \in DOMAIN requests[p],
         NEW v \in {"sent", "failed"} \cup Answers,
         Becomes(p, i, v)
  PROVE  /\ requests' \in [Protocols -> Seq(ARequest)]
         /\ \A x \in Protocols \ {p} : requests'[x] = requests[x]
         /\ Len(requests'[p]) = Len(requests[p])
         /\ \A j \in DOMAIN requests[p] \ {i} : requests'[p][j] = requests[p][j]
         /\ LET q == requests[p][i]
                r == requests'[p][i]
            IN  /\ SameRequest(r, q) /\ r.at = v /\ r.noted = q.noted /\ r.slow = q.slow
                /\ r.late = q.late /\ r.newest = q.newest
<1> DEFINE s == requests[p]
           q == s[i]
           r == [q EXCEPT !.at = v]
           t == [s EXCEPT ![i] = r]
<1>1. s \in Seq(ARequest) /\ q \in ARequest /\ i \in 1 .. Len(s) /\ DOMAIN requests = Protocols
  BY DEF TypeOK
<1>2. requests' = [requests EXCEPT ![p] = t]
  BY DEF Becomes
<1>0. q \in ARequest
  BY <1>1
<1> HIDE DEF q
<1>3. r = [action |-> q.action, secret |-> q.secret, serial |-> q.serial, info |-> q.info,
           token |-> q.token, newest |-> q.newest, late |-> q.late, at |-> v,
           noted |-> q.noted, slow |-> q.slow]
  BY <1>0 DEF ARequest
<1>4. r \in ARequest
  BY <1>0, <1>3 DEF ARequest
<1> HIDE DEF r
<1>5. t \in Seq(ARequest) /\ Len(t) = Len(s) /\ t[i] = r /\ \A j \in 1 .. Len(s) : j # i => t[j] = s[j]
  BY <1>1, <1>4
<1> HIDE DEF t
<1>6. requests'[p] = t /\ \A x \in Protocols \ {p} : requests'[x] = requests[x]
  BY <1>1, <1>2
<1>7. requests' \in [Protocols -> Seq(ARequest)]
  BY <1>1, <1>2, <1>5 DEF TypeOK
<1> QED BY <1>1, <1>3, <1>5, <1>6, <1>7 DEF SameRequest, q

LEMMA SlowFacts ==
  ASSUME TypeOK, NEW p \in Protocols, NEW i \in DOMAIN requests[p],
         requests' = [requests EXCEPT ![p][i].slow = TRUE]
  PROVE  /\ requests' \in [Protocols -> Seq(ARequest)]
         /\ \A x \in Protocols \ {p} : requests'[x] = requests[x]
         /\ Len(requests'[p]) = Len(requests[p])
         /\ \A j \in DOMAIN requests[p] \ {i} : requests'[p][j] = requests[p][j]
         /\ SameRequest(requests'[p][i], requests[p][i])
<1> DEFINE s == requests[p]
           q == s[i]
           r == [q EXCEPT !.slow = TRUE]
           t == [s EXCEPT ![i] = r]
<1>1. s \in Seq(ARequest) /\ q \in ARequest /\ i \in 1 .. Len(s) /\ DOMAIN requests = Protocols
  BY DEF TypeOK
<1>2. requests' = [requests EXCEPT ![p] = t]
  OBVIOUS
<1>0. q \in ARequest
  BY <1>1
<1> HIDE DEF q
<1>3. r = [action |-> q.action, secret |-> q.secret, serial |-> q.serial, info |-> q.info,
           token |-> q.token, newest |-> q.newest, late |-> q.late, at |-> q.at,
           noted |-> q.noted, slow |-> TRUE]
  <2>1. \A w \in BOOLEAN :
          [q EXCEPT !.slow = w]
            = [action |-> q.action, secret |-> q.secret, serial |-> q.serial, info |-> q.info,
               token |-> q.token, newest |-> q.newest, late |-> q.late, at |-> q.at,
               noted |-> q.noted, slow |-> w]
    BY <1>0 DEF ARequest
  <2> QED BY <2>1
<1>4. r \in ARequest
  BY <1>0, <1>3 DEF ARequest
<1> HIDE DEF r
<1>5. t \in Seq(ARequest) /\ Len(t) = Len(s) /\ t[i] = r /\ \A j \in 1 .. Len(s) : j # i => t[j] = s[j]
  BY <1>1, <1>4
<1> HIDE DEF t
<1>6. requests'[p] = t /\ \A x \in Protocols \ {p} : requests'[x] = requests[x]
  BY <1>1, <1>2
<1>7. requests' \in [Protocols -> Seq(ARequest)]
  BY <1>1, <1>2, <1>5 DEF TypeOK
<1> QED BY <1>1, <1>3, <1>5, <1>6, <1>7 DEF SameRequest, q

LEMMA DroppedFacts ==
  ASSUME TypeOK, NEW p \in Protocols, NEW i \in DOMAIN requests[p],
         requests' = [requests EXCEPT ![p] = RemoveAt(@, i)]
  PROVE  /\ requests' \in [Protocols -> Seq(ARequest)]
         /\ \A x \in Protocols \ {p} : requests'[x] = requests[x]
         /\ Len(requests'[p]) = Len(requests[p]) - 1
         /\ \A j \in DOMAIN requests'[p] : requests'[p][j] = IF j < i THEN requests[p][j] ELSE requests[p][j + 1]
<1> DEFINE t == RemoveAt(requests[p], i)
<1>1. requests[p] \in Seq(ARequest) /\ DOMAIN requests = Protocols
  BY DEF TypeOK
<1>2. /\ t \in Seq(ARequest) /\ Len(t) = Len(requests[p]) - 1
      /\ \A j \in 1 .. Len(requests[p]) - 1 :
           t[j] = IF j < i THEN requests[p][j] ELSE requests[p][j + 1]
  BY <1>1, RemoveAtFacts
<1> HIDE DEF t
<1>3. requests' = [requests EXCEPT ![p] = t]
  BY DEF t
<1>4. requests'[p] = t /\ \A x \in Protocols \ {p} : requests'[x] = requests[x]
  BY <1>1, <1>3
<1>5. requests' \in [Protocols -> Seq(ARequest)]
  BY <1>1, <1>2, <1>3 DEF TypeOK
<1>6. DOMAIN t = 1 .. Len(requests[p]) - 1
  BY <1>2
<1> QED BY <1>2, <1>4, <1>5, <1>6

(* NoteStatus tells all requests before the one whose answer came. *)
LEMMA NotedFacts ==
  ASSUME TypeOK, NEW p \in Protocols, NEW i \in DOMAIN requests[p], NoteStatus(p, i)
  PROVE  /\ requests' \in [Protocols -> Seq(ARequest)]
         /\ \A x \in Protocols \ {p} : requests'[x] = requests[x]
         /\ Len(requests'[p]) = Len(requests[p])
         /\ \A j \in DOMAIN requests[p] :
              LET q == requests[p][j]
                  r == requests'[p][j]
              IN  /\ SameRequest(r, q) /\ r.at = q.at /\ r.slow = q.slow /\ r.newest = q.newest
                  /\ r.noted = (q.noted \/ j = i)
                  /\ r.late = (q.late \/ (~requests[p][i].late /\ j < i))
<1> DEFINE s == requests[p]
           noted(j) == s[j].noted \/ j = i
           late(j) == s[j].late \/ (~s[i].late /\ j < i)
           r1(j) == [s[j] EXCEPT !.noted = noted(j)]
           r2(j) == [r1(j) EXCEPT !.late = late(j)]
           t == [j \in DOMAIN s |-> r2(j)]
<1>1. s \in Seq(ARequest) /\ DOMAIN requests = Protocols
  BY DEF TypeOK
<1>0. Noted(requests[p], i) = t
  BY DEF Noted
<1>2. requests' = [requests EXCEPT ![p] = t]
  <2>1. requests' = [requests EXCEPT ![p] = Noted(requests[p], i)]
    BY DEF NoteStatus
  <2> HIDE DEF t
  <2> QED BY <1>0, <2>1
<1>3. ASSUME NEW j \in DOMAIN s
      PROVE  /\ r2(j) \in ARequest
             /\ SameRequest(r2(j), s[j]) /\ r2(j).at = s[j].at /\ r2(j).slow = s[j].slow
             /\ r2(j).newest = s[j].newest /\ r2(j).noted = noted(j) /\ r2(j).late = late(j)
  <2>1. s[j] \in ARequest /\ noted(j) \in BOOLEAN /\ late(j) \in BOOLEAN
    <3>1. s[j] \in ARequest
      BY <1>1
    <3> QED BY <3>1
  <2> HIDE DEF noted, late, s
  <2>2. /\ r1(j) \in ARequest /\ SameRequest(r1(j), s[j]) /\ r1(j).at = s[j].at
        /\ r1(j).slow = s[j].slow /\ r1(j).newest = s[j].newest /\ r1(j).noted = noted(j)
    <3>1. r1(j) = [action |-> s[j].action, secret |-> s[j].secret, serial |-> s[j].serial,
                   info |-> s[j].info, token |-> s[j].token, newest |-> s[j].newest,
                   late |-> s[j].late, at |-> s[j].at, noted |-> noted(j), slow |-> s[j].slow]
      BY <2>1 DEF ARequest
    <3> QED BY <2>1, <3>1 DEF ARequest, SameRequest
  <2> HIDE DEF r1
  <2>3. r2(j) = [action |-> r1(j).action, secret |-> r1(j).secret, serial |-> r1(j).serial,
                 info |-> r1(j).info, token |-> r1(j).token, newest |-> r1(j).newest,
                 late |-> late(j), at |-> r1(j).at, noted |-> r1(j).noted, slow |-> r1(j).slow]
    BY <2>2 DEF ARequest
  <2> HIDE DEF r2
  <2> QED BY <2>1, <2>2, <2>3 DEF ARequest, SameRequest
<1>4. DOMAIN s = 1 .. Len(s) /\ Len(s) \in Nat
  BY <1>1
<1> HIDE DEF r2, s, noted, late
<1>5. t \in Seq(ARequest) /\ Len(t) = Len(s) /\ DOMAIN t = DOMAIN s
  <2>1. t \in [1 .. Len(s) -> ARequest]
    BY <1>3, <1>4
  <2> QED BY <1>4, <2>1
<1>6. \A j \in DOMAIN s : t[j] = r2(j)
  OBVIOUS
<1> HIDE DEF t
<1>7. requests'[p] = t /\ \A x \in Protocols \ {p} : requests'[x] = requests[x]
  BY <1>1, <1>2
<1>8. requests' \in [Protocols -> Seq(ARequest)]
  BY <1>1, <1>2, <1>5 DEF TypeOK
<1>9. ASSUME NEW j \in DOMAIN requests[p]
      PROVE  LET q == requests[p][j]
                 r == requests'[p][j]
             IN  /\ SameRequest(r, q) /\ r.at = q.at /\ r.slow = q.slow /\ r.newest = q.newest
                 /\ r.noted = (q.noted \/ j = i)
                 /\ r.late = (q.late \/ (~requests[p][i].late /\ j < i))
  BY <1>3, <1>6, <1>7 DEF s, noted, late
<1> QED BY <1>5, <1>7, <1>8, <1>9 DEF s

(* Each request was there, or is one that the server sends now. *)
Sends(R) ==
  \A p \in Protocols : \A i \in DOMAIN R[p] :
    \/ \E j \in DOMAIN requests[p] : SameRequest(R[p][i], requests[p][j])
    \/ R[p][i].secret = life /\ (up' => R[p][i].serial <= infoSerial')

Typed == TypeOK' /\ Sends(requests')

LEMMA SameSends == ASSUME requests' = requests PROVE Sends(requests')
BY DEF Sends, SameRequest

LEMMA SendSends ==
  ASSUME TypeOK, NEW S, NEW states \in [Protocols -> ProtocolState], NEW serial \in Nat,
         serial = infoSerial', SendRegister(S, states, serial)
  PROVE  Sends(requests')
<1> SUFFICES ASSUME NEW p \in Protocols, NEW i \in DOMAIN requests'[p]
             PROVE  \/ \E j \in DOMAIN requests[p] : SameRequest(requests'[p][i], requests[p][j])
                    \/ /\ requests'[p][i].secret = life
                       /\ requests'[p][i].serial <= infoSerial'
  BY DEF Sends
<1>1. requests'[p] = IF p \in S THEN WithRegister(requests[p], states[p], serial) ELSE requests[p]
  BY DEF SendRegister
<1>2. CASE p \notin S
  BY <1>1, <1>2 DEF SameRequest
<1>3. CASE p \in S
  <2>1. requests[p] \in Seq(ARequest) /\ states[p] \in ProtocolState
    BY DEF TypeOK
  <2>0. requests'[p] = WithRegister(requests[p], states[p], serial)
    BY <1>1, <1>3
  <2>2. Len(requests'[p]) = Len(requests[p]) + 1 /\ requests'[p] \in Seq(ARequest)
    <3>1. /\ WithRegister(requests[p], states[p], serial) \in Seq(ARequest)
          /\ Len(WithRegister(requests[p], states[p], serial)) = Len(requests[p]) + 1
      BY <2>1, WithRegisterFacts
    <3> QED BY <2>0, <3>1
  <2>5. i \in 1 .. Len(requests[p]) \/ i = Len(requests[p]) + 1
    <3>1. i \in 1 .. Len(requests'[p]) /\ Len(requests[p]) \in Nat
      BY <2>1, <2>2
    <3> QED BY <2>2, <3>1
  <2>3. CASE i \in 1 .. Len(requests[p])
    <3>1. SameRequest(requests'[p][i], requests[p][i])
      BY <2>0, <2>1, <2>3, WithRegisterFacts
    <3> QED BY <2>1, <2>3, <3>1
  <2>4. CASE i = Len(requests[p]) + 1
    <3>1. requests'[p][i] = Request("register", states[p], serial)
      BY <2>0, <2>1, <2>4, WithRegisterFacts
    <3> QED BY <2>1, <3>1, RequestFacts
  <2> QED BY <2>3, <2>4, <2>5
<1> QED BY <1>2, <1>3

(* SendDeleteIfRegistered *)
LEMMA WithDeleteFacts ==
  ASSUME TypeOK, NEW s \in Seq(ARequest), NEW r \in ProtocolState
  PROVE  /\ WithDelete(s, r) \in Seq(ARequest)
         /\ \A i \in DOMAIN WithDelete(s, r) :
              \/ i \in DOMAIN s /\ WithDelete(s, r)[i] = s[i]
              \/ WithDelete(s, r)[i].secret = life /\ WithDelete(s, r)[i].serial = infoSerial
<1> DEFINE n == Request("delete", r, infoSerial)
<1>1. n \in ARequest /\ n.secret = life /\ n.serial = infoSerial
  BY RequestFacts DEF TypeOK
<1>2. WithDelete(s, r) = IF r.status = "ok" THEN Append(s, n) ELSE s
  BY DEF WithDelete
<1> HIDE DEF n
<1>3. Append(s, n) \in Seq(ARequest) /\ \A i \in DOMAIN Append(s, n) :
        (i \in DOMAIN s /\ Append(s, n)[i] = s[i]) \/ Append(s, n)[i] = n
  BY <1>1
<1> QED BY <1>1, <1>2, <1>3

LEMMA ForgottenType ==
  ASSUME NEW r \in ProtocolState
  PROVE  Forgotten(r) \in ProtocolState /\ Forgotten(r).next = r.next
BY DEF Forgotten, ProtocolState, Statuses

LEMMA FreshType == Fresh \in ProtocolState
BY RegisterAssumption DEF Fresh, ProtocolState, Statuses, NoToken

LEMMA UpdateTyped == ASSUME TypeOK, Update PROVE Typed
<1>1. PICK S : SendRegister(S, protocol, infoSerial)
  BY DEF Update
<1>2. protocol \in [Protocols -> ProtocolState] /\ infoSerial \in Nat /\ infoSerial' = infoSerial
  BY DEF TypeOK, Update
<1>3. /\ protocol' \in [Protocols -> ProtocolState]
      /\ requests' \in [Protocols -> Seq(ARequest)]
  BY <1>1, <1>2, SendType
<1>4. Sends(requests')
  BY <1>1, <1>2, SendSends
<1>5. updated' = TRUE /\ UNCHANGED <<life, up, enabled, infoSerial, latest, challenges, seed,
                                     trouble, calm>>
  BY DEF Update, masterVars
<1> QED BY <1>3, <1>4, <1>5 DEF Typed, TypeOK

LEMMA OnTokenTyped == ASSUME TypeOK, NEW c \in challenges, OnToken(c) PROVE Typed
<1> USE OnTokenFacts
<1>1. /\ challenges' \subseteq challenges /\ calm' \in {0, calm}
      /\ UNCHANGED <<life, up, updated, enabled, infoSerial, latest, seed, trouble>>
  OBVIOUS
<1>2. /\ protocol' \in [Protocols -> ProtocolState]
      /\ requests' \in [Protocols -> Seq(ARequest)]
      /\ Sends(requests')
  <2>1. CASE up /\ c.secret = life
    <3>1. PICK S : SendRegister(S, TokenNoted(c), infoSerial)
      BY <2>1
    <3>2. TokenNoted(c) \in [Protocols -> ProtocolState] /\ infoSerial \in Nat
      BY TokenNotedFacts DEF TypeOK
    <3> QED BY <1>1, <3>1, <3>2, SendType, SendSends
  <2>2. CASE ~(up /\ c.secret = life)
    <3>1. UNCHANGED <<protocol, requests>>
      BY <2>2
    <3> QED BY <3>1, SameSends DEF TypeOK
  <2> QED BY <2>1, <2>2
<1> QED BY <1>1, <1>2 DEF Typed, TypeOK

LEMMA NewInfoTyped == ASSUME TypeOK, OnNewInfo PROVE Typed
<1>1. /\ infoSerial' = infoSerial + 1 /\ calm' = 0
      /\ UNCHANGED <<life, up, updated, enabled, latest, challenges, seed, trouble>>
  BY DEF OnNewInfo, masterVars
<1>2. infoSerial' \in Nat
  BY <1>1 DEF TypeOK
<1>3. /\ protocol' \in [Protocols -> ProtocolState]
      /\ requests' \in [Protocols -> Seq(ARequest)]
      /\ Sends(requests')
  <2>1. CASE UNCHANGED <<protocol, requests>>
    BY <2>1, SameSends DEF TypeOK
  <2>2. ASSUME NEW S, NEW states \in [Protocols -> ProtocolState],
               SendRegister(S, states, infoSerial')
        PROVE  /\ protocol' \in [Protocols -> ProtocolState]
               /\ requests' \in [Protocols -> Seq(ARequest)]
               /\ Sends(requests')
    BY <1>2, <2>2, SendType, SendSends
  <2> QED BY <2>1, <2>2, NewInfoFacts
<1> QED BY <1>1, <1>2, <1>3 DEF Typed, TypeOK

LEMMA ConfigTyped ==
  ASSUME TypeOK, NEW E \in SUBSET Protocols, OnConfigChange(E)
  PROVE  Typed
<1> DEFINE on == E \ enabled
           off == enabled \ E
<1>1. /\ enabled' = E /\ calm' = 0 /\ trouble' = trouble + 1
      /\ UNCHANGED <<life, up, updated, infoSerial, latest, challenges, seed>>
  BY DEF OnConfigChange, Disturb, masterVars
<1>2. \A p \in Protocols : protocol[p] \in ProtocolState /\ requests[p] \in Seq(ARequest)
  BY DEF TypeOK
<1>3. infoSerial \in Nat /\ infoSerial' = infoSerial
  BY <1>1 DEF TypeOK
<1>4. /\ protocol' \in [Protocols -> ProtocolState]
      /\ requests' \in [Protocols -> Seq(ARequest)]
      /\ Sends(requests')
  <2>1. CASE ~updated
    <3>1. UNCHANGED <<protocol, requests>>
      BY <2>1 DEF OnConfigChange
    <3> QED BY <3>1, SameSends DEF TypeOK
  <2>2. CASE updated
    <3>1. protocol' = [p \in Protocols |->
                     IF p \in on THEN Sent(protocol[p])
                     ELSE IF p \in off THEN Forgotten(protocol[p]) ELSE protocol[p]]
      BY <2>2 DEF OnConfigChange
    <3>2. requests' = [p \in Protocols |->
                     IF p \in on THEN WithRegister(requests[p], protocol[p], infoSerial)
                     ELSE IF p \in off THEN WithDelete(requests[p], protocol[p])
                     ELSE requests[p]]
      BY <2>2 DEF OnConfigChange
    <3> HIDE DEF on, off
    <3>3. \A p \in Protocols : /\ Sent(protocol[p]) \in ProtocolState
                               /\ Forgotten(protocol[p]) \in ProtocolState
      BY <1>2, SentFacts, ForgottenType
    <3>4. protocol' \in [Protocols -> ProtocolState]
      BY <1>2, <3>1, <3>3
    <3>5. ASSUME NEW p \in Protocols
          PROVE  /\ requests'[p] \in Seq(ARequest)
                 /\ \A i \in DOMAIN requests'[p] :
                      \/ \E j \in DOMAIN requests[p] : SameRequest(requests'[p][i], requests[p][j])
                      \/ /\ requests'[p][i].secret = life
                         /\ up' => requests'[p][i].serial <= infoSerial'
      <4>1. CASE p \in on
        <5>1. requests'[p] = WithRegister(requests[p], protocol[p], infoSerial)
          BY <3>2, <4>1
        <5> DEFINE w == WithRegister(requests[p], protocol[p], infoSerial)
        <5>3. /\ w \in Seq(ARequest) /\ Len(w) = Len(requests[p]) + 1
              /\ w[Len(requests[p]) + 1] = Request("register", protocol[p], infoSerial)
              /\ \A i \in 1 .. Len(requests[p]) : SameRequest(w[i], requests[p][i])
          BY <1>2, <1>3, WithRegisterFacts
        <5>4. /\ Request("register", protocol[p], infoSerial).secret = life
              /\ Request("register", protocol[p], infoSerial).serial = infoSerial
          BY <1>2, <1>3, RequestFacts
        <5> HIDE DEF w
        <5>5. ASSUME NEW i \in DOMAIN w
              PROVE  \/ \E j \in DOMAIN requests[p] : SameRequest(w[i], requests[p][j])
                     \/ w[i].secret = life /\ (up' => w[i].serial <= infoSerial')
          <6>1. i \in 1 .. Len(w) /\ Len(requests[p]) \in Nat /\ DOMAIN requests[p] = 1 .. Len(requests[p])
            BY <1>2, <5>3
          <6>2. CASE i \in 1 .. Len(requests[p])
            BY <5>3, <6>1, <6>2
          <6>3. CASE i = Len(requests[p]) + 1
            BY <1>3, <5>3, <5>4, <6>3
          <6> QED BY <5>3, <6>1, <6>2, <6>3
        <5> QED BY <5>1, <5>3, <5>5 DEF w
      <4>2. CASE p \notin on /\ p \in off
        <5>1. requests'[p] = WithDelete(requests[p], protocol[p])
          BY <3>2, <4>2
        <5>2. /\ WithDelete(requests[p], protocol[p]) \in Seq(ARequest)
              /\ \A i \in DOMAIN WithDelete(requests[p], protocol[p]) :
                   LET q == WithDelete(requests[p], protocol[p])[i]
                   IN  \/ i \in DOMAIN requests[p] /\ q = requests[p][i]
                       \/ q.secret = life /\ q.serial = infoSerial
          BY <1>2, WithDeleteFacts
        <5> QED BY <1>3, <5>1, <5>2 DEF SameRequest
      <4>3. CASE p \notin on /\ p \notin off
        <5>1. requests'[p] = requests[p]
          BY <3>2, <4>3
        <5> QED BY <1>2, <5>1 DEF SameRequest
      <4> QED BY <4>1, <4>2, <4>3
    <3>6. DOMAIN requests' = Protocols /\ requests' = [p \in Protocols |-> requests'[p]]
      BY <3>2
    <3>7. requests' \in [Protocols -> Seq(ARequest)]
      BY <3>5, <3>6
    <3>8. Sends(requests')
      BY <3>5 DEF Sends
    <3> QED BY <3>4, <3>7, <3>8
  <2> QED BY <2>1, <2>2
<1> QED BY <1>1, <1>4 DEF Typed, TypeOK

LEMMA StopTyped ==
  ASSUME TypeOK, NEW shutdown \in BOOLEAN, Stop(shutdown)
  PROVE  Typed
<1>1. /\ up' = FALSE /\ updated' = FALSE /\ infoSerial' = 0 /\ latest' = -1
      /\ protocol' = [p \in Protocols |-> Fresh] /\ calm' = 0 /\ trouble' = trouble + 1
      /\ UNCHANGED <<life, enabled, challenges, seed>>
  BY DEF Stop, Disturb, masterVars
<1>2. protocol' \in [Protocols -> ProtocolState]
  BY <1>1, FreshType
<1>3. requests' \in [Protocols -> Seq(ARequest)] /\ Sends(requests')
  <2>1. CASE ~shutdown
    <3>1. requests' = requests
      BY <2>1 DEF Stop
    <3> QED BY <3>1, SameSends DEF TypeOK
  <2>2. CASE shutdown
    <3>1. requests' = [p \in Protocols |-> IF p \in enabled
                           THEN WithDelete(requests[p], protocol[p]) ELSE requests[p]]
      BY <2>2 DEF Stop
    <3>2. ASSUME NEW p \in Protocols
          PROVE  /\ requests'[p] \in Seq(ARequest)
                 /\ \A i \in DOMAIN requests'[p] :
                      \/ \E j \in DOMAIN requests[p] : SameRequest(requests'[p][i], requests[p][j])
                      \/ requests'[p][i].secret = life
      <4>1. protocol[p] \in ProtocolState /\ requests[p] \in Seq(ARequest)
        BY DEF TypeOK
      <4>2. CASE p \in enabled
        <5>1. requests'[p] = WithDelete(requests[p], protocol[p])
          BY <3>1, <4>2
        <5>2. /\ WithDelete(requests[p], protocol[p]) \in Seq(ARequest)
              /\ \A i \in DOMAIN WithDelete(requests[p], protocol[p]) :
                   LET q == WithDelete(requests[p], protocol[p])[i]
                   IN  \/ i \in DOMAIN requests[p] /\ q = requests[p][i]
                       \/ q.secret = life /\ q.serial = infoSerial
          BY <4>1, WithDeleteFacts
        <5> QED BY <5>1, <5>2 DEF SameRequest
      <4>3. CASE p \notin enabled
        <5>1. requests'[p] = requests[p]
          BY <3>1, <4>3
        <5> QED BY <4>1, <5>1 DEF SameRequest
      <4> QED BY <4>2, <4>3
    <3>3. requests' = [p \in Protocols |-> requests'[p]]
      BY <3>1
    <3>4. requests' \in [Protocols -> Seq(ARequest)]
      BY <3>2, <3>3
    <3>5. Sends(requests')
      BY <1>1, <3>2 DEF Sends
    <3> QED BY <3>4, <3>5
  <2> QED BY <2>1, <2>2
<1>4. /\ life' \in Life /\ up' \in BOOLEAN /\ updated' \in BOOLEAN
      /\ enabled' \in SUBSET Protocols /\ challenges' \in SUBSET Challenge /\ seed' \in Nat
  BY <1>1 DEF TypeOK
<1>5. infoSerial' \in Nat /\ latest' \in Int /\ trouble' \in Nat /\ calm' \in Nat
  BY <1>1 DEF TypeOK
<1> QED BY <1>2, <1>3, <1>4, <1>5 DEF Typed, TypeOK

LEMMA StartTyped == ASSUME TypeOK, Start PROVE Typed
<1>1. /\ life' = life + 1 /\ up' = TRUE /\ calm' = 0
      /\ UNCHANGED <<updated, enabled, infoSerial, latest, protocol, requests, challenges,
                     seed, trouble>>
  BY DEF Start, masterVars
<1>2. Sends(requests')
  BY <1>1, SameSends
<1>3. life' \in Life
  BY <1>1 DEF TypeOK, Life
<1> QED BY <1>1, <1>2, <1>3 DEF Typed, TypeOK

(* Steps that leave all requests where they are, or drop one. *)
LEMMA InPlaceSends ==
  ASSUME TypeOK, NEW p \in Protocols,
         \A x \in Protocols \ {p} : requests'[x] = requests[x],
         DOMAIN requests'[p] \subseteq DOMAIN requests[p],
         \A j \in DOMAIN requests'[p] : SameRequest(requests'[p][j], requests[p][j])
  PROVE  Sends(requests')
BY DEF Sends, SameRequest

(* What NoteStatus notes of a protocol. *)
LEMMA StatusNotedFacts ==
  ASSUME TypeOK, NEW p \in Protocols, NEW i \in DOMAIN requests[p], NoteStatus(p, i)
  PROVE  LET q == requests[p][i]
         IN  /\ protocol' \in [Protocols -> ProtocolState]
             /\ \A x \in Protocols \ {p} : protocol'[x] = protocol[x]
             /\ protocol'[p].next = protocol[p].next
             /\ protocol'[p].newToken = protocol[p].newToken
             /\ q.late => protocol'[p] = protocol[p]
             /\ ~q.late => protocol'[p].status = q.at /\ protocol'[p].answered = q.newest
<1> DEFINE q == requests[p][i]
           r1 == [protocol[p] EXCEPT !.status = q.at]
           r2 == [r1 EXCEPT !.answered = q.newest]
           P1 == [protocol EXCEPT ![p] = r1]
           P2 == [P1 EXCEPT ![p] = [@ EXCEPT !.answered = q.newest]]
<1>1. q \in ARequest /\ protocol[p] \in ProtocolState /\ DOMAIN protocol = Protocols
  BY DEF TypeOK
<1>2. q.at \in Answers /\ q.newest \in BOOLEAN
  BY <1>1 DEF NoteStatus, ARequest
<1>3. ~q.late => protocol' = P2
  BY DEF NoteStatus
<1>4. q.late => protocol' = protocol
  BY DEF NoteStatus
<1> HIDE DEF q
<1>5. /\ r1 \in ProtocolState /\ r1.status = q.at /\ r1.next = protocol[p].next
      /\ r1.newToken = protocol[p].newToken
  BY <1>1, <1>2 DEF ProtocolState, Statuses
<1> HIDE DEF r1
<1>6. /\ r2 \in ProtocolState /\ r2.status = q.at /\ r2.next = protocol[p].next
      /\ r2.newToken = protocol[p].newToken /\ r2.answered = q.newest
  BY <1>2, <1>5 DEF ProtocolState
<1>7. P1[p] = r1 /\ DOMAIN P1 = Protocols /\ \A x \in Protocols \ {p} : P1[x] = protocol[x]
  BY <1>1
<1> HIDE DEF P1
<1>8. P2 = [P1 EXCEPT ![p] = r2]
  BY <1>7
<1> HIDE DEF r2
<1>9. P2[p] = r2 /\ DOMAIN P2 = Protocols /\ \A x \in Protocols \ {p} : P2[x] = protocol[x]
  BY <1>7, <1>8
<1>10. P2 \in [Protocols -> ProtocolState]
  <2>1. P2 = [x \in Protocols |-> P2[x]]
    BY <1>7, <1>8
  <2>2. \A x \in Protocols : P2[x] \in ProtocolState
    BY <1>6, <1>9 DEF TypeOK
  <2> HIDE DEF P2
  <2> QED BY <2>1, <2>2
<1> HIDE DEF P2
<1>11. CASE q.late
  BY <1>4, <1>11 DEF TypeOK, q
<1>12. CASE ~q.late
  BY <1>3, <1>6, <1>9, <1>10, <1>12 DEF q
<1> QED BY <1>11, <1>12 DEF q

LEMMA ArriveTyped ==
  ASSUME TypeOK, NEW p \in Protocols, NEW i \in DOMAIN requests[p], Arrive(p, i)
  PROVE  Typed
<1> DEFINE q == requests[p][i]
           c == [protocol |-> p, secret |-> q.secret, seed |-> seed, slow |-> FALSE]
<1>1. PICK v \in Answers : Becomes(p, i, v)
  BY DEF Arrive, Answers, Becomes
<1>2. /\ challenges' \in {challenges, challenges \cup {c}}
      /\ calm' \in {0, calm}
      /\ UNCHANGED <<life, up, updated, enabled, infoSerial, latest, protocol, seed, trouble>>
  BY DEF Arrive, Quietly, serverVars
<1>3. requests' \in [Protocols -> Seq(ARequest)] /\ Sends(requests')
  <2>1. /\ requests' \in [Protocols -> Seq(ARequest)]
        /\ \A x \in Protocols \ {p} : requests'[x] = requests[x]
        /\ Len(requests'[p]) = Len(requests[p])
        /\ \A j \in DOMAIN requests[p] \ {i} : requests'[p][j] = requests[p][j]
        /\ SameRequest(requests'[p][i], requests[p][i])
    BY <1>1, AtFacts
  <2>2. DOMAIN requests'[p] = DOMAIN requests[p]
    <3>1. requests'[p] \in Seq(ARequest) /\ requests[p] \in Seq(ARequest)
      BY <2>1 DEF TypeOK
    <3> QED BY <2>1, <3>1
  <2>3. \A j \in DOMAIN requests'[p] : SameRequest(requests'[p][j], requests[p][j])
    BY <2>1, <2>2 DEF SameRequest
  <2> QED BY <2>1, <2>2, <2>3, InPlaceSends
<1>4. c \in Challenge
  <2>1. q \in ARequest
    BY DEF TypeOK
  <2> QED BY <2>1 DEF Challenge, ARequest, TypeOK
<1> HIDE DEF c
<1> QED BY <1>2, <1>3, <1>4 DEF Typed, TypeOK

LEMMA NoteStatusTyped ==
  ASSUME TypeOK, NEW p \in Protocols, NEW i \in DOMAIN requests[p], NoteStatus(p, i)
  PROVE  Typed
<1>1. /\ calm' \in {0, calm}
      /\ UNCHANGED <<life, up, updated, enabled, infoSerial, latest, challenges, seed, trouble>>
  BY DEF NoteStatus, Quietly, masterVars
<1>2. /\ requests' \in [Protocols -> Seq(ARequest)]
      /\ \A x \in Protocols \ {p} : requests'[x] = requests[x]
      /\ Len(requests'[p]) = Len(requests[p])
      /\ \A j \in DOMAIN requests[p] : SameRequest(requests'[p][j], requests[p][j])
  BY NotedFacts
<1>3. DOMAIN requests'[p] = DOMAIN requests[p]
  <2>1. requests'[p] \in Seq(ARequest) /\ requests[p] \in Seq(ARequest)
    BY <1>2 DEF TypeOK
  <2> QED BY <1>2, <2>1
<1>4. Sends(requests')
  BY <1>2, <1>3, InPlaceSends
<1>5. protocol' \in [Protocols -> ProtocolState]
  BY StatusNotedFacts
<1> QED BY <1>1, <1>2, <1>4, <1>5 DEF Typed, TypeOK

LEMMA DroppedTyped ==
  ASSUME TypeOK, NEW p \in Protocols, NEW i \in DOMAIN requests[p],
         requests' = [requests EXCEPT ![p] = RemoveAt(@, i)],
         latest' \in Int, calm' \in {0, calm},
         UNCHANGED <<life, up, updated, enabled, infoSerial, protocol, challenges, seed, trouble>>
  PROVE  Typed
<1>1. /\ requests' \in [Protocols -> Seq(ARequest)]
      /\ \A x \in Protocols \ {p} : requests'[x] = requests[x]
      /\ Len(requests'[p]) = Len(requests[p]) - 1
      /\ \A j \in DOMAIN requests'[p] :
           requests'[p][j] = IF j < i THEN requests[p][j] ELSE requests[p][j + 1]
  BY DroppedFacts
<1>2. requests[p] \in Seq(ARequest) /\ requests'[p] \in Seq(ARequest)
  BY <1>1 DEF TypeOK
<1>3. ASSUME NEW j \in DOMAIN requests'[p]
      PROVE  \E k \in DOMAIN requests[p] : SameRequest(requests'[p][j], requests[p][k])
  <2>1. j \in 1 .. Len(requests[p]) - 1 /\ Len(requests[p]) \in Nat
    BY <1>1, <1>2
  <2>2. j \in DOMAIN requests[p] /\ j + 1 \in DOMAIN requests[p]
    BY <1>2, <2>1
  <2> QED BY <1>1, <2>2 DEF SameRequest
<1>4. Sends(requests')
  BY <1>1, <1>3 DEF Sends, SameRequest
<1> QED BY <1>1, <1>4 DEF Typed, TypeOK

LEMMA NoteSerialTyped ==
  ASSUME TypeOK, NEW p \in Protocols, NEW i \in DOMAIN requests[p], NoteSerial(p, i)
  PROVE  Typed
<1>1. latest' \in Int
  <2>1. requests[p][i] \in ARequest
    BY DEF TypeOK
  <2>2. requests[p][i].serial \in Nat /\ latest \in Int
    BY <2>1 DEF TypeOK, ARequest
  <2>3. latest' \in {Newer(latest, requests[p][i].serial), latest - 1, latest}
    BY DEF NoteSerial
  <2> QED BY <2>2, <2>3 DEF Newer
<1> QED BY <1>1, DroppedTyped DEF NoteSerial, Quietly, masterVars

LEMMA IgnoreTyped ==
  ASSUME TypeOK, NEW p \in Protocols, NEW i \in DOMAIN requests[p], Ignore(p, i)
  PROVE  Typed
BY DroppedTyped DEF Ignore, Quietly, masterVars, serverVars, TypeOK

LEMMA FailTyped ==
  ASSUME TypeOK, NEW p \in Protocols, NEW i \in DOMAIN requests[p], Fail(p, i) \/ Delay(p, i)
  PROVE  Typed
<1>1. /\ calm' = 0 /\ trouble' = trouble + 1
      /\ UNCHANGED <<life, up, updated, enabled, infoSerial, latest, protocol, challenges, seed>>
  BY DEF Fail, Delay, Disturb, masterVars, serverVars
<1>2. /\ requests' \in [Protocols -> Seq(ARequest)]
      /\ \A x \in Protocols \ {p} : requests'[x] = requests[x]
      /\ Len(requests'[p]) = Len(requests[p])
      /\ \A j \in DOMAIN requests[p] \ {i} : requests'[p][j] = requests[p][j]
      /\ SameRequest(requests'[p][i], requests[p][i])
  <2>1. CASE Fail(p, i)
    <3>1. Becomes(p, i, "failed")
      BY <2>1 DEF Fail, Becomes
    <3> QED BY <3>1, AtFacts
  <2>2. CASE Delay(p, i)
    <3>1. requests' = [requests EXCEPT ![p][i].slow = TRUE]
      BY <2>2 DEF Delay
    <3> QED BY <3>1, SlowFacts
  <2> QED BY <2>1, <2>2
<1>3. DOMAIN requests'[p] = DOMAIN requests[p]
  <2>1. requests'[p] \in Seq(ARequest) /\ requests[p] \in Seq(ARequest)
    BY <1>2 DEF TypeOK
  <2> QED BY <1>2, <2>1
<1>4. \A j \in DOMAIN requests'[p] : SameRequest(requests'[p][j], requests[p][j])
  BY <1>2, <1>3 DEF SameRequest
<1>5. Sends(requests')
  BY <1>2, <1>3, <1>4, InPlaceSends
<1> QED BY <1>1, <1>2, <1>5 DEF Typed, TypeOK

LEMMA ChallengeTyped ==
  ASSUME TypeOK, NEW c \in challenges, LoseChallenge(c) \/ DelayChallenge(c)
  PROVE  Typed
<1> DEFINE d == [c EXCEPT !.slow = TRUE]
<1>1. /\ calm' = 0 /\ trouble' = trouble + 1
      /\ UNCHANGED <<life, up, updated, enabled, infoSerial, latest, protocol, requests, seed>>
  BY DEF LoseChallenge, DelayChallenge, Disturb, masterVars, serverVars
<1>2. challenges' \subseteq challenges \cup {d}
  BY DEF LoseChallenge, DelayChallenge
<1>3. d \in Challenge
  <2>1. c \in Challenge
    BY DEF TypeOK
  <2> QED BY <2>1 DEF Challenge
<1> HIDE DEF d
<1>4. Sends(requests')
  BY <1>1, SameSends
<1> QED BY <1>1, <1>2, <1>3, <1>4 DEF Typed, TypeOK

LEMMA MasterTyped == ASSUME TypeOK, Reseed \/ MasterRestart PROVE Typed
<1>1. /\ calm' = 0 /\ trouble' = trouble + 1 /\ seed' \in {seed + 1, seed + 2}
      /\ UNCHANGED <<life, up, updated, enabled, infoSerial, latest, protocol, requests,
                     challenges>>
  BY DEF Reseed, MasterRestart, Disturb, serverVars
<1>2. Sends(requests')
  BY <1>1, SameSends
<1> QED BY <1>1, <1>2 DEF Typed, TypeOK

(* A unit of time brings each register nearer. *)
LEMMA LaterFacts ==
  ASSUME NEW r \in ProtocolState
  PROVE  LET s == Later(r)
         IN  /\ s \in ProtocolState
             /\ s.status = r.status /\ s.answered = r.answered
             /\ s.newToken = r.newToken /\ s.token = r.token
             /\ s.next = IF r.next > 0 THEN r.next - 1 ELSE 0
<1> DEFINE next == IF r.next > 0 THEN r.next - 1 ELSE 0
           prev == IF r.prev < Second THEN r.prev + 1 ELSE Second
<1>1. Later(r) = [r EXCEPT !.next = next, !.prev = prev]
  BY DEF Later
<1>2. next \in Int /\ prev \in Nat
  BY RegisterAssumption DEF ProtocolState
<1> HIDE DEF next, prev
<1>3. Later(r) = [next |-> next, prev |-> prev, status |-> r.status, answered |-> r.answered,
                  token |-> r.token, newToken |-> r.newToken]
  BY <1>1 DEF ProtocolState
<1> QED BY <1>2, <1>3 DEF ProtocolState, next

LEMMA TickFacts ==
  ASSUME TypeOK, Tick
  PROVE  /\ protocol' \in [Protocols -> ProtocolState]
         /\ up => \A p \in Protocols : protocol'[p] = Later(protocol[p])
         /\ ~up => protocol' = protocol
<1>1. protocol' = IF up THEN [p \in Protocols |-> Later(protocol[p])] ELSE protocol
  BY DEF Tick
<1>2. \A p \in Protocols : Later(protocol[p]) \in ProtocolState
  BY LaterFacts DEF TypeOK
<1> QED BY <1>1, <1>2 DEF TypeOK

LEMMA TickTyped == ASSUME TypeOK, Tick PROVE Typed
<1>1. /\ calm' \in {calm, calm + 1}
      /\ UNCHANGED <<life, up, updated, enabled, infoSerial, latest, requests,
                     challenges, seed, trouble>>
  BY DEF Tick
<1>2. Sends(requests')
  BY <1>1, SameSends
<1>3. protocol' \in [Protocols -> ProtocolState]
  BY TickFacts
<1> QED BY <1>1, <1>2, <1>3 DEF Typed, TypeOK

LEMMA TypedStep == TypeOK /\ [Next]_vars => Typed
<1> SUFFICES ASSUME TypeOK, [Next]_vars PROVE Typed
  OBVIOUS
<1>1. CASE Serving
  BY <1>1, UpdateTyped, OnTokenTyped DEF Serving
<1>2. CASE Working
  <2>1. PICK p \in Protocols : \E i \in DOMAIN requests[p] : Work(p, i)
    BY <1>2 DEF Working
  <2>2. PICK i \in DOMAIN requests[p] : Work(p, i)
    BY <2>1
  <2> QED BY <2>2, ArriveTyped, NoteStatusTyped, NoteSerialTyped, IgnoreTyped DEF Work
<1>3. CASE OnNewInfo
  BY <1>3, NewInfoTyped
<1>4. CASE Start
  BY <1>4, StartTyped
<1>5. CASE Tick
  BY <1>5, TickTyped
<1>6. CASE Troubling
  <2>1. ASSUME NEW E \in SUBSET Protocols \ {enabled}, OnConfigChange(E) PROVE Typed
    BY <2>1, ConfigTyped
  <2>2. ASSUME NEW shutdown \in BOOLEAN, Stop(shutdown) PROVE Typed
    BY <2>2, StopTyped
  <2>3. ASSUME NEW p \in Protocols, NEW i \in DOMAIN requests[p], Fail(p, i) \/ Delay(p, i)
        PROVE  Typed
    BY <2>3, FailTyped
  <2>4. ASSUME NEW c \in challenges, LoseChallenge(c) \/ DelayChallenge(c) PROVE Typed
    BY <2>4, ChallengeTyped
  <2>5. CASE Reseed \/ MasterRestart
    BY <2>5, MasterTyped
  <2> QED BY <1>6, <2>1, <2>2, <2>3, <2>4, <2>5 DEF Troubling
<1>7. CASE UNCHANGED vars
  <2>1. Sends(requests')
    BY <1>7, SameSends DEF vars
  <2> QED BY <1>7, <2>1 DEF Typed, TypeOK, vars, serverVars, masterVars
<1> QED BY <1>1, <1>2, <1>3, <1>4, <1>5, <1>6, <1>7 DEF Next

LEMMA TypeInit == Init => TypeOK
<1>1. Fresh \in ProtocolState
  BY FreshType
<1>2. Init => protocol \in [Protocols -> ProtocolState]
  BY <1>1 DEF Init
<1>3. Init => requests \in [Protocols -> Seq(ARequest)]
  BY DEF Init
<1>4. Init => challenges \in SUBSET Challenge /\ up \in BOOLEAN /\ updated \in BOOLEAN
  BY DEF Init
<1>5. Init => /\ life \in Life /\ infoSerial \in Nat /\ latest \in Int
                /\ seed \in Nat /\ trouble \in Nat /\ calm \in Nat
  BY DEF Init, Life
<1>6. Init => enabled \in SUBSET Protocols
  BY DEF Init
<1> QED BY <1>2, <1>3, <1>4, <1>5, <1>6 DEF TypeOK

(* Each variable keeps its type, numbers of requests and tokens included.  *)
THEOREM RegisterTypeCorrect == Spec => []TypeOK
<1>1. Init => TypeOK
  BY TypeInit
<1>2. TypeOK /\ [Next]_vars => TypeOK'
  BY TypedStep DEF Typed
<1> QED BY <1>1, <1>2, PTL DEF Spec

-----------------------------------------------------------------------------
(* What is left of a list, what is new in it and what becomes older. *)
LEMMA WithoutFacts ==
  ASSUME NEW l, Good(l), NEW gone
  PROVE  LET w == Without(l, gone)
         IN  /\ DOMAIN w.addresses = DOMAIN l.addresses \ gone
             /\ \A a \in DOMAIN w.addresses : w.addresses[a] = l.addresses[a]
             /\ DOMAIN w.servers \subseteq DOMAIN l.servers
             /\ \A s \in DOMAIN w.servers : w.servers[s].serial = l.servers[s].serial
             /\ \A s \in DOMAIN l.servers :
                  (\A a \in gone \cap DOMAIN l.addresses : l.addresses[a].secret # s)
                    => s \in DOMAIN w.servers
<1> DEFINE Left(s) == l.servers[s].addresses
                        \ {a \in gone : l.addresses[a].secret = s}
           rest == DOMAIN l.addresses \ gone
           left == {s \in DOMAIN l.servers : Left(s) # {}}
           w == Without(l, gone)
<1>1. w = [addresses |-> [a \in rest |-> l.addresses[a]],
           servers |-> [s \in left |-> [l.servers[s] EXCEPT !.addresses = Left(s)]]]
  BY DEF Without
<1>2. \A s \in left : [l.servers[s] EXCEPT !.addresses = Left(s)].serial = l.servers[s].serial
  <2> SUFFICES ASSUME NEW s \in left
               PROVE  [l.servers[s] EXCEPT !.addresses = Left(s)].serial = l.servers[s].serial
    OBVIOUS
  <2>1. l.servers[s] = [addresses |-> l.servers[s].addresses,
                        serial |-> l.servers[s].serial]
    BY DEF Good, IsList
  <2> HIDE DEF Left
  <2> QED BY <2>1
<1>3. ASSUME NEW s \in DOMAIN l.servers,
             \A a \in gone \cap DOMAIN l.addresses : l.addresses[a].secret # s
      PROVE  s \in left
  <2>1. /\ l.servers[s].addresses # {}
        /\ l.servers[s].addresses = {a \in DOMAIN l.addresses : l.addresses[a].secret = s}
    BY DEF Good, Consistent
  <2>2. Left(s) = l.servers[s].addresses
    BY <1>3, <2>1
  <2> QED BY <2>1, <2>2
<1> HIDE DEF Left, left
<1>4. /\ DOMAIN w.addresses = rest
      /\ \A a \in rest : w.addresses[a] = l.addresses[a]
      /\ DOMAIN w.servers = left
      /\ \A s \in left : w.servers[s].serial = l.servers[s].serial
  <2> HIDE DEF w, rest
  <2> QED BY <1>1, <1>2
<1>5. left \subseteq DOMAIN l.servers
  BY DEF left
<1> HIDE DEF w
<1> QED BY <1>3, <1>4, <1>5 DEF w

LEMMA AgedFacts ==
  ASSUME NEW l, Good(l)
  PROVE  /\ DOMAIN Aged(l).addresses = DOMAIN l.addresses
         /\ \A a \in DOMAIN l.addresses :
              /\ Aged(l).addresses[a].secret = l.addresses[a].secret
              /\ Aged(l).addresses[a].age = l.addresses[a].age + 1
         /\ Aged(l).servers = l.servers
<1>1. ASSUME NEW a \in DOMAIN l.addresses
      PROVE  /\ [l.addresses[a] EXCEPT !.age = @ + 1].secret = l.addresses[a].secret
             /\ [l.addresses[a] EXCEPT !.age = @ + 1].age = l.addresses[a].age + 1
  <2>1. l.addresses[a] = [secret |-> l.addresses[a].secret, age |-> l.addresses[a].age]
    BY DEF Good, IsList
  <2> QED BY <2>1
<1>2. Aged(l) = [addresses |-> [a \in DOMAIN l.addresses |->
                                  [l.addresses[a] EXCEPT !.age = @ + 1]],
                 servers |-> l.servers]
  BY DEF Aged
<1> QED BY <1>1, <1>2

LEMMA AddedFacts ==
  ASSUME NEW l, Good(l), NEW addr, NEW secret, NEW serial
  PROVE  LET w == Added(l, addr, secret, serial)
         IN  /\ DOMAIN w.addresses = DOMAIN l.addresses \cup {addr}
             /\ w.addresses[addr].secret = secret /\ w.addresses[addr].age = 0
             /\ \A a \in DOMAIN l.addresses : a # addr => w.addresses[a] = l.addresses[a]
             /\ DOMAIN w.servers \subseteq DOMAIN l.servers \cup {secret}
             /\ secret \in DOMAIN w.servers
             /\ \A s \in DOMAIN w.servers \ {secret} :
                  w.servers[s].serial = l.servers[s].serial
             /\ w.servers[secret].serial =
                  IF secret \in DOMAIN l.servers
                    THEN Newer(l.servers[secret].serial, serial) ELSE serial
<1> DEFINE old == Vacated(l, addr, secret)
           w == Added(l, addr, secret, serial)
           as == DOMAIN old.addresses \cup {addr}
           ss == DOMAIN old.servers \cup {secret}
           address(a) == IF a = addr THEN [secret |-> secret, age |-> 0]
                                     ELSE old.addresses[a]
           server(s) ==
             IF s # secret THEN old.servers[s]
             ELSE IF s \in DOMAIN old.servers
               THEN [addresses |-> old.servers[s].addresses \cup {addr},
                     serial |-> Newer(old.servers[s].serial, serial)]
               ELSE [addresses |-> {addr}, serial |-> serial]
<1>1. /\ DOMAIN old.addresses \cup {addr} = DOMAIN l.addresses \cup {addr}
      /\ \A a \in DOMAIN l.addresses \ {addr} : old.addresses[a] = l.addresses[a]
      /\ DOMAIN old.servers \subseteq DOMAIN l.servers
      /\ \A s \in DOMAIN old.servers : old.servers[s].serial = l.servers[s].serial
      /\ secret \in DOMAIN l.servers => secret \in DOMAIN old.servers
  <2>1. CASE addr \in DOMAIN l.addresses /\ l.addresses[addr].secret # secret
    <3>1. old = Without(l, {addr})
      BY <2>1 DEF Vacated
    <3>2. /\ DOMAIN old.addresses = DOMAIN l.addresses \ {addr}
          /\ \A a \in DOMAIN old.addresses : old.addresses[a] = l.addresses[a]
          /\ DOMAIN old.servers \subseteq DOMAIN l.servers
          /\ \A s \in DOMAIN old.servers : old.servers[s].serial = l.servers[s].serial
          /\ \A s \in DOMAIN l.servers :
               (\A a \in {addr} \cap DOMAIN l.addresses : l.addresses[a].secret # s)
                 => s \in DOMAIN old.servers
      <4> HIDE DEF old
      <4> QED BY <3>1, WithoutFacts
    <3> HIDE DEF old
    <3> QED BY <2>1, <3>2
  <2>2. CASE ~(addr \in DOMAIN l.addresses /\ l.addresses[addr].secret # secret)
    <3>1. old = l
      BY <2>2 DEF Vacated
    <3> HIDE DEF old
    <3> QED BY <3>1
  <2> QED BY <2>1, <2>2
<1>2. w = [addresses |-> [a \in as |-> address(a)], servers |-> [s \in ss |-> server(s)]]
  BY DEF Added
<1> HIDE DEF old
<1>3. /\ DOMAIN w.addresses = as
      /\ \A a \in as : w.addresses[a] = address(a)
      /\ DOMAIN w.servers = ss
      /\ \A s \in ss : w.servers[s] = server(s)
  <2> HIDE DEF as, ss, address, server, w
  <2> QED BY <1>2
<1>4. /\ address(addr).secret = secret /\ address(addr).age = 0
      /\ \A a \in DOMAIN l.addresses \ {addr} : address(a) = l.addresses[a]
  BY <1>1
<1>5. /\ \A s \in ss \ {secret} : server(s).serial = l.servers[s].serial
      /\ server(secret).serial =
           IF secret \in DOMAIN l.servers
             THEN Newer(l.servers[secret].serial, serial) ELSE serial
  BY <1>1
<1> HIDE DEF w, address, server
<1> QED BY <1>1, <1>3, <1>4, <1>5 DEF w

-----------------------------------------------------------------------------
(* A server that sends is due again in one period at the latest.  What the *)
(* master knows of a server comes from a request, and is not newer than    *)
(* what the server knows; what is as old as the time-out goes.             *)
NextInv == \A p \in Protocols : protocol[p].next <= Period

KnownInv ==
  \A p \in Protocols : \A i \in DOMAIN requests[p] :
    LET q == requests[p][i]
    IN  q.secret <= life /\ (up /\ q.secret = life => q.serial <= infoSerial)

(* For a server of this life, which runs or not. *)
Sound(l, who, runs, serial) ==
  /\ Good(l)
  /\ \A a \in DOMAIN l.addresses : l.addresses[a].age \in 0 .. Timeout
  /\ \A s \in DOMAIN l.servers :
       /\ s \in Life /\ s <= who /\ l.servers[s].serial \in Nat
       /\ runs /\ s = who => l.servers[s].serial <= serial

ListsInv == Sound(list, life, up, infoSerial) /\ Sound(dump, life, up, infoSerial)

BaseInv == TypeOK /\ NextInv /\ KnownInv /\ ListsInv

(* A server that runs knows no less than before; one that starts has a     *)
(* secret of its own.                                                      *)
Lives ==
  \/ life' = life /\ (up' => up /\ infoSerial <= infoSerial')
  \/ life' = life + 1

LEMMA LivesStep == ASSUME TypeOK, [Next]_vars PROVE Lives
<1> USE DEF Lives
<1>0. infoSerial <= infoSerial /\ infoSerial <= infoSerial + 1
  BY DEF TypeOK
<1>1. CASE UNCHANGED <<life, up, infoSerial>>
  BY <1>0, <1>1
<1>2. CASE Serving
  BY <1>1, <1>2, OnTokenFacts DEF Serving, Update
<1>3. CASE Working
  BY <1>1, <1>3 DEF Working, Work, Arrive, NoteStatus, NoteSerial, Ignore, serverVars
<1>4. CASE OnNewInfo
  <2>1. life' = life /\ up' = up /\ infoSerial' = infoSerial + 1
    BY <1>4 DEF OnNewInfo
  <2> QED BY <1>0, <2>1
<1>5. CASE Start
  BY <1>5 DEF Start
<1>6. CASE Tick
  BY <1>1, <1>6 DEF Tick
<1>7. CASE Troubling
  <2>1. ASSUME NEW E, OnConfigChange(E) PROVE Lives
    BY <1>1, <2>1 DEF OnConfigChange
  <2>2. ASSUME NEW shutdown, Stop(shutdown) PROVE Lives
    BY <2>2 DEF Stop
  <2>3. ASSUME NEW p, NEW i, Fail(p, i) \/ Delay(p, i) PROVE Lives
    BY <1>1, <2>3 DEF Fail, Delay, serverVars
  <2>4. ASSUME NEW c, LoseChallenge(c) \/ DelayChallenge(c) PROVE Lives
    BY <1>1, <2>4 DEF LoseChallenge, DelayChallenge, serverVars
  <2>5. CASE Reseed \/ MasterRestart
    BY <1>1, <2>5 DEF Reseed, MasterRestart, serverVars
  <2> QED BY <1>7, <2>1, <2>2, <2>3, <2>4, <2>5 DEF Troubling
<1>8. CASE UNCHANGED vars
  BY <1>1, <1>8 DEF vars, serverVars
<1> QED BY <1>2, <1>3, <1>4, <1>5, <1>6, <1>7, <1>8 DEF Next

LEMMA KnownStep == ASSUME TypeOK, KnownInv, [Next]_vars PROVE KnownInv'
<1> SUFFICES ASSUME NEW p \in Protocols, NEW i \in DOMAIN requests'[p]
             PROVE  LET q == requests'[p][i]
                    IN  /\ q.secret <= life'
                        /\ up' /\ q.secret = life' => q.serial <= infoSerial'
  BY DEF KnownInv
<1> DEFINE q == requests'[p][i]
<1>1. Lives /\ TypeOK' /\ Sends(requests')
  BY LivesStep, TypedStep DEF Typed
<1>2. q \in ARequest
  BY <1>1 DEF TypeOK
<1>3. q.serial \in Nat /\ q.secret \in Nat /\ life \in Nat /\ infoSerial \in Nat /\ infoSerial' \in Nat
  BY <1>1, <1>2 DEF TypeOK, ARequest, Life
<1>4. \/ \E j \in DOMAIN requests[p] : SameRequest(q, requests[p][j])
      \/ q.secret = life /\ (up' => q.serial <= infoSerial')
  BY <1>1 DEF Sends
<1>5. q.secret <= life /\ (up /\ up' /\ q.secret = life => q.serial <= infoSerial \/ q.serial <= infoSerial')
  <2>1. CASE \E j \in DOMAIN requests[p] : SameRequest(q, requests[p][j])
    BY <2>1 DEF KnownInv, SameRequest
  <2>2. CASE q.secret = life /\ (up' => q.serial <= infoSerial')
    BY <1>3, <2>2
  <2> QED BY <1>4, <2>1, <2>2
<1> SUFFICES /\ q.secret <= life'
             /\ up' /\ q.secret = life' => q.serial <= infoSerial'
  OBVIOUS
<1> HIDE DEF q
<1>6. CASE life' = life /\ (up' => up /\ infoSerial <= infoSerial')
  BY <1>3, <1>5, <1>6
<1>7. CASE life' = life + 1
  BY <1>3, <1>5, <1>7
<1> QED BY <1>1, <1>6, <1>7 DEF Lives

LEMMA SendNext ==
  ASSUME TypeOK, NEW S, NEW states \in [Protocols -> ProtocolState], NEW serial,
         SendRegister(S, states, serial),
         \A p \in Protocols : states[p].next <= Period
  PROVE  NextInv'
<1>1. ASSUME NEW p \in Protocols
      PROVE  protocol'[p].next <= Period
  <2>1. protocol'[p] = IF p \in S THEN Sent(states[p]) ELSE states[p]
    BY DEF SendRegister
  <2>2. Sent(states[p]).next = Period /\ Period <= Period
    BY SentFacts, RegisterAssumption
  <2> QED BY <2>1, <2>2
<1> QED BY <1>1 DEF NextInv

LEMMA NextStep == ASSUME TypeOK, NextInv, [Next]_vars PROVE NextInv'
<1>0. /\ Period \in Nat
      /\ \A p \in Protocols : protocol[p] \in ProtocolState /\ protocol[p].next \in Int
                              /\ protocol[p].next <= Period
  BY RegisterAssumption DEF TypeOK, ProtocolState, NextInv
<1>1. CASE UNCHANGED protocol
  BY <1>1 DEF NextInv
<1>2. CASE Update
  BY <1>2, SendNext DEF Update, TypeOK, NextInv
<1>3. ASSUME NEW c \in challenges, OnToken(c) PROVE NextInv'
  <2>1. CASE up /\ c.secret = life
    <3>1. \A p \in Protocols : TokenNoted(c)[p].next <= Period
      BY <1>0, TokenNotedFacts
    <3>2. PICK S : SendRegister(S, TokenNoted(c), infoSerial)
      BY <1>3, <2>1, OnTokenFacts
    <3> QED BY <3>1, <3>2, TokenNotedFacts, SendNext
  <2>2. CASE ~(up /\ c.secret = life)
    BY <1>1, <1>3, <2>2, OnTokenFacts
  <2> QED BY <2>1, <2>2
<1>4. CASE Working
  <2>1. PICK p \in Protocols : \E i \in DOMAIN requests[p] : Work(p, i)
    BY <1>4 DEF Working
  <2>2. PICK i \in DOMAIN requests[p] : Work(p, i)
    BY <2>1
  <2>3. CASE NoteStatus(p, i)
    BY <1>0, <2>3, StatusNotedFacts DEF NextInv
  <2> QED BY <1>1, <2>2, <2>3 DEF Work, Arrive, NoteSerial, Ignore, serverVars
<1>5. CASE OnNewInfo
  <2>1. CASE UNCHANGED <<protocol, requests>>
    BY <1>1, <2>1
  <2>2. ASSUME NEW S, NEW states \in [Protocols -> ProtocolState],
               SendRegister(S, states, infoSerial'),
               \A p \in Protocols : states[p].next <= protocol[p].next
        PROVE  NextInv'
    <3>1. \A p \in Protocols : states[p].next <= Period
      <4>1. \A p \in Protocols : states[p].next \in Int
        BY DEF ProtocolState
      <4> QED BY <1>0, <2>2, <4>1
    <3> QED BY <2>2, <3>1, SendNext
  <2> QED BY <1>5, <2>1, <2>2, NewInfoFacts
<1>6. CASE Start
  BY <1>1, <1>6 DEF Start
<1>7. CASE Tick
  <2>1. ASSUME NEW p \in Protocols, up
        PROVE  protocol'[p].next <= Period
    <3>1. protocol'[p] = Later(protocol[p])
      BY <1>7, <2>1, TickFacts
    <3>2. protocol'[p].next = IF protocol[p].next > 0 THEN protocol[p].next - 1 ELSE 0
      BY <1>0, <3>1, LaterFacts
    <3> QED BY <1>0, <3>2
  <2>2. CASE ~up
    BY <1>1, <1>7, <2>2, TickFacts
  <2> QED BY <2>1, <2>2 DEF NextInv
<1>8. CASE Troubling
  <2>1. ASSUME NEW E, OnConfigChange(E) PROVE NextInv'
    <3>1. CASE ~updated
      BY <1>1, <2>1, <3>1 DEF OnConfigChange
    <3>2. CASE updated
      <4>1. \A p \in Protocols :
              protocol'[p] \in {Sent(protocol[p]), Forgotten(protocol[p]), protocol[p]}
        BY <2>1, <3>2 DEF OnConfigChange
      <4>2. \A p \in Protocols : /\ Sent(protocol[p]).next = Period
                                 /\ Forgotten(protocol[p]).next = protocol[p].next
        BY <1>0, SentFacts, ForgottenType
      <4> QED BY <1>0, <4>1, <4>2 DEF NextInv
    <3> QED BY <3>1, <3>2
  <2>2. ASSUME NEW shutdown, Stop(shutdown) PROVE NextInv'
    <3>1. \A p \in Protocols : protocol'[p] = Fresh
      BY <2>2 DEF Stop
    <3>2. Fresh.next = 0
      BY DEF Fresh
    <3> QED BY <1>0, <3>1, <3>2 DEF NextInv
  <2>3. ASSUME NEW p, NEW i, Fail(p, i) \/ Delay(p, i) PROVE NextInv'
    BY <1>1, <2>3 DEF Fail, Delay, serverVars
  <2>4. ASSUME NEW c, LoseChallenge(c) \/ DelayChallenge(c) PROVE NextInv'
    BY <1>1, <2>4 DEF LoseChallenge, DelayChallenge, serverVars
  <2>5. CASE Reseed \/ MasterRestart
    BY <1>1, <2>5 DEF Reseed, MasterRestart, serverVars
  <2> QED BY <1>8, <2>1, <2>2, <2>3, <2>4, <2>5 DEF Troubling
<1>9. CASE UNCHANGED vars
  BY <1>1, <1>9 DEF vars, serverVars
<1> QED BY <1>2, <1>3, <1>4, <1>5, <1>6, <1>7, <1>8, <1>9 DEF Next, Serving

LEMMA EmptySound ==
  ASSUME NEW who, NEW runs, NEW serial
  PROVE  Sound(EmptyList, who, runs, serial)
BY EmptyGood DEF Sound, EmptyList

(* The server goes on, or another comes. *)
LEMMA LivesSound ==
  ASSUME NEW l, NEW who \in Nat, NEW runs, NEW serial \in Nat, Sound(l, who, runs, serial),
         NEW who2 \in Nat, NEW runs2, NEW serial2 \in Nat,
         \/ who2 = who /\ (runs2 => runs /\ serial <= serial2)
         \/ who2 = who + 1
  PROVE  Sound(l, who2, runs2, serial2)
<1>1. ASSUME NEW s \in DOMAIN l.servers
      PROVE  /\ s <= who2
             /\ runs2 /\ s = who2 => l.servers[s].serial <= serial2
  <2>1. /\ s \in Life /\ s <= who /\ l.servers[s].serial \in Nat
        /\ runs /\ s = who => l.servers[s].serial <= serial
    BY DEF Sound
  <2> QED BY <2>1 DEF Life
<1> QED BY <1>1 DEF Sound

LEMMA WithoutSound ==
  ASSUME NEW l, NEW who, NEW runs, NEW serial, Sound(l, who, runs, serial), NEW gone
  PROVE  Sound(Without(l, gone), who, runs, serial)
<1> DEFINE w == Without(l, gone)
<1>1. Good(l)
  BY DEF Sound
<1>2. Good(w)
  BY <1>1, WithoutGood
<1>3. /\ DOMAIN w.addresses = DOMAIN l.addresses \ gone
      /\ \A a \in DOMAIN w.addresses : w.addresses[a] = l.addresses[a]
      /\ DOMAIN w.servers \subseteq DOMAIN l.servers
      /\ \A s \in DOMAIN w.servers : w.servers[s].serial = l.servers[s].serial
  BY <1>1, WithoutFacts
<1> HIDE DEF w
<1>4. \A a \in DOMAIN w.addresses : w.addresses[a].age \in 0 .. Timeout
  BY <1>3 DEF Sound
<1>5. ASSUME NEW s \in DOMAIN w.servers
      PROVE  /\ s \in Life /\ s <= who /\ w.servers[s].serial \in Nat
             /\ runs /\ s = who => w.servers[s].serial <= serial
  BY <1>3 DEF Sound
<1>6. Sound(w, who, runs, serial)
  BY <1>2, <1>4, <1>5 DEF Sound
<1> QED BY <1>6 DEF w

LEMMA AddedSound ==
  ASSUME NEW l, NEW who, NEW runs, NEW serial, Sound(l, who, runs, serial),
         NEW addr, NEW secret \in Life, NEW told \in Nat, secret <= who,
         runs /\ secret = who => told <= serial
  PROVE  Sound(Added(l, addr, secret, told), who, runs, serial)
<1> DEFINE w == Added(l, addr, secret, told)
<1>1. Good(l)
  BY DEF Sound
<1>2. Good(w)
  BY <1>1, AddedGood
<1>3. /\ DOMAIN w.addresses = DOMAIN l.addresses \cup {addr}
      /\ w.addresses[addr].age = 0
      /\ \A a \in DOMAIN l.addresses : a # addr => w.addresses[a] = l.addresses[a]
      /\ DOMAIN w.servers \subseteq DOMAIN l.servers \cup {secret}
      /\ \A s \in DOMAIN w.servers \ {secret} : w.servers[s].serial = l.servers[s].serial
      /\ w.servers[secret].serial =
           IF secret \in DOMAIN l.servers THEN Newer(l.servers[secret].serial, told) ELSE told
  BY <1>1, AddedFacts
<1> HIDE DEF w
<1>4. ASSUME NEW a \in DOMAIN w.addresses
      PROVE  w.addresses[a].age \in 0 .. Timeout
  <2>1. CASE a = addr
    BY <1>3, <2>1, RegisterAssumption
  <2>2. CASE a # addr
    BY <1>3, <2>2 DEF Sound
  <2> QED BY <2>1, <2>2
<1>5. ASSUME NEW s \in DOMAIN w.servers
      PROVE  /\ s \in Life /\ s <= who /\ w.servers[s].serial \in Nat
             /\ runs /\ s = who => w.servers[s].serial <= serial
  <2>1. CASE s # secret
    BY <1>3, <2>1 DEF Sound
  <2>2. CASE s = secret
    BY <1>3, <2>2 DEF Sound, Newer
  <2> QED BY <2>1, <2>2
<1>6. Sound(w, who, runs, serial)
  BY <1>2, <1>4, <1>5 DEF Sound
<1> QED BY <1>6 DEF w

(* What a unit of time leaves of the list: what is older than the time-out *)
(* has gone, and what is younger is there.                                 *)
LEMMA WriteoutFacts ==
  ASSUME ListsInv, Writeout
  PROVE  /\ dump' = list'
         /\ Sound(list', life, up, infoSerial)
         /\ \A a \in DOMAIN list'.addresses :
              /\ a \in DOMAIN list.addresses
              /\ list'.addresses[a].secret = list.addresses[a].secret
              /\ list'.addresses[a].age = list.addresses[a].age + 1
         /\ \A a \in DOMAIN list.addresses :
              list.addresses[a].age + 1 < Timeout => a \in DOMAIN list'.addresses
         /\ \A s \in DOMAIN list'.servers :
              s \in DOMAIN list.servers /\ list'.servers[s].serial = list.servers[s].serial
<1> DEFINE g == Aged(list)
           Old(age) == {a \in DOMAIN list.addresses : g.addresses[a].age = age}
<1>1. PICK edge \in SUBSET Old(Timeout) : list' = Pruned(g, edge \cup Old(Timeout + 1))
  BY DEF Writeout
<1> DEFINE gone == edge \cup Old(Timeout + 1)
<1>2. list' = Without(g, gone) /\ dump' = list'
  BY <1>1 DEF Pruned, Writeout
<1>3. Good(list) /\ Good(g)
  BY AgedGood DEF ListsInv, Sound
<1>4. /\ DOMAIN g.addresses = DOMAIN list.addresses
      /\ \A a \in DOMAIN list.addresses :
           /\ g.addresses[a].secret = list.addresses[a].secret
           /\ g.addresses[a].age = list.addresses[a].age + 1
      /\ g.servers = list.servers
  BY <1>3, AgedFacts
<1>5. \A a \in DOMAIN list.addresses :
        /\ list.addresses[a].age \in 0 .. Timeout
        /\ a \in gone => list.addresses[a].age + 1 \in {Timeout, Timeout + 1}
        /\ list.addresses[a].age + 1 = Timeout + 1 => a \in gone
  <2>1. \A a \in DOMAIN list.addresses : list.addresses[a].age \in 0 .. Timeout
    BY DEF ListsInv, Sound
  <2> HIDE DEF g
  <2> QED BY <1>4, <2>1
<1> HIDE DEF g, gone
<1>6. /\ Good(list')
      /\ DOMAIN list'.addresses = DOMAIN g.addresses \ gone
      /\ \A a \in DOMAIN list'.addresses : list'.addresses[a] = g.addresses[a]
      /\ DOMAIN list'.servers \subseteq DOMAIN g.servers
      /\ \A s \in DOMAIN list'.servers : list'.servers[s].serial = g.servers[s].serial
  BY <1>2, <1>3, WithoutGood, WithoutFacts
<1>7. \A a \in DOMAIN list'.addresses :
        /\ a \in DOMAIN list.addresses
        /\ list'.addresses[a].secret = list.addresses[a].secret
        /\ list'.addresses[a].age = list.addresses[a].age + 1
  BY <1>4, <1>6
<1>8. ASSUME NEW a \in DOMAIN list'.addresses
      PROVE  list'.addresses[a].age \in 0 .. Timeout
  <2>1. /\ a \in DOMAIN list.addresses /\ a \notin gone
        /\ list'.addresses[a].age = list.addresses[a].age + 1
    BY <1>6, <1>7
  <2> QED BY <1>5, <2>1, RegisterAssumption
<1>9. ASSUME NEW a \in DOMAIN list.addresses, list.addresses[a].age + 1 < Timeout
      PROVE  a \in DOMAIN list'.addresses
  <2>1. a \notin gone
    BY <1>5, <1>9, RegisterAssumption
  <2> QED BY <1>4, <1>6, <2>1
<1>10. \A s \in DOMAIN list'.servers :
         s \in DOMAIN list.servers /\ list'.servers[s].serial = list.servers[s].serial
  BY <1>4, <1>6
<1>11. Sound(list', life, up, infoSerial)
  BY <1>6, <1>8, <1>10 DEF ListsInv, Sound
<1> QED BY <1>2, <1>7, <1>9, <1>10, <1>11

LEMMA MasterSteps ==
  ASSUME [Next]_vars
  PROVE  \/ UNCHANGED <<list, dump>>
         \/ \E p \in Protocols : \E i \in DOMAIN requests[p] : Arrive(p, i)
         \/ Tick \/ MasterRestart
<1> DEFINE Kept == UNCHANGED <<list, dump>>
<1>1. ASSUME Update \/ OnNewInfo \/ Start \/ Reseed PROVE Kept
  BY <1>1 DEF Update, OnNewInfo, Start, Reseed, masterVars
<1>2. ASSUME NEW c, OnToken(c) PROVE Kept
  BY <1>2 DEF OnToken, masterVars
<1>3. ASSUME NEW p, NEW i, NoteStatus(p, i) \/ NoteSerial(p, i) \/ Ignore(p, i) PROVE Kept
  BY <1>3 DEF NoteStatus, NoteSerial, Ignore, masterVars
<1>4. ASSUME NEW p, NEW i, Fail(p, i) \/ Delay(p, i) PROVE Kept
  BY <1>4 DEF Fail, Delay, masterVars
<1>5. ASSUME NEW c, LoseChallenge(c) \/ DelayChallenge(c) PROVE Kept
  BY <1>5 DEF LoseChallenge, DelayChallenge, masterVars
<1>6. ASSUME NEW E, OnConfigChange(E) PROVE Kept
  BY <1>6 DEF OnConfigChange, masterVars
<1>7. ASSUME NEW shutdown, Stop(shutdown) PROVE Kept
  BY <1>7 DEF Stop, masterVars
<1>8. ASSUME UNCHANGED vars PROVE Kept
  BY <1>8 DEF vars, masterVars
<1> HIDE DEF Kept
<1>9. ASSUME Troubling PROVE Kept \/ MasterRestart
  BY <1>9, <1>1, <1>4, <1>5, <1>6, <1>7 DEF Troubling
<1>10. ASSUME Working
       PROVE  Kept \/ \E p \in Protocols : \E i \in DOMAIN requests[p] : Arrive(p, i)
  BY <1>10, <1>3 DEF Working, Work
<1>11. Kept \/ (\E p \in Protocols : \E i \in DOMAIN requests[p] : Arrive(p, i))
            \/ Tick \/ MasterRestart
  BY <1>1, <1>2, <1>8, <1>9, <1>10 DEF Next, Serving
<1> QED BY <1>11 DEF Kept

LEMMA ListsStep == ASSUME BaseInv, [Next]_vars PROVE ListsInv'
<1>1. /\ life \in Nat /\ life' \in Nat /\ infoSerial \in Nat /\ infoSerial' \in Nat
      /\ \/ life' = life /\ (up' => up /\ infoSerial <= infoSerial')
         \/ life' = life + 1
  BY LivesStep, TypedStep DEF BaseInv, Typed, TypeOK, Life, Lives
<1>2. Sound(list, life, up, infoSerial) /\ Sound(dump, life, up, infoSerial)
  BY DEF BaseInv, ListsInv
<1>3. Sound(list, life', up', infoSerial') /\ Sound(dump, life', up', infoSerial')
  BY <1>1, <1>2, LivesSound
<1>4. CASE UNCHANGED <<list, dump>>
  BY <1>3, <1>4 DEF ListsInv
<1>5. ASSUME NEW p \in Protocols, NEW i \in DOMAIN requests[p], Arrive(p, i)
      PROVE  ListsInv'
  <2> DEFINE q == requests[p][i]
  <2>1. dump' = dump /\ UNCHANGED <<life, up, infoSerial>>
    BY <1>5 DEF Arrive, serverVars
  <2>2. \/ list' = Removed(list, p, q.secret)
        \/ list' = Added(list, p, q.secret, q.serial)
        \/ list' = list
    BY <1>5 DEF Arrive
  <2>3. q \in ARequest /\ q.secret <= life /\ (up /\ q.secret = life => q.serial <= infoSerial)
    BY DEF BaseInv, TypeOK, KnownInv
  <2>4. q.secret \in Life /\ q.serial \in Nat
    BY <2>3 DEF ARequest
  <2> HIDE DEF q
  <2>5. Sound(Added(list, p, q.secret, q.serial), life, up, infoSerial)
    BY <1>2, <2>3, <2>4, AddedSound
  <2>6. Sound(Removed(list, p, q.secret), life, up, infoSerial)
    BY <1>2, WithoutSound DEF Removed
  <2>7. Sound(list', life, up, infoSerial)
    BY <1>2, <2>2, <2>5, <2>6
  <2> QED BY <1>2, <2>1, <2>7 DEF ListsInv
<1>6. CASE Tick
  <2>1. Writeout /\ UNCHANGED <<life, up, infoSerial>>
    BY <1>6 DEF Tick
  <2>2. dump' = list' /\ Sound(list', life, up, infoSerial)
    BY <2>1, WriteoutFacts DEF BaseInv
  <2> QED BY <2>1, <2>2 DEF ListsInv
<1>7. CASE MasterRestart
  <2>1. list' \in {EmptyList, dump} /\ dump' = dump
    BY <1>7 DEF MasterRestart
  <2>2. Sound(list', life', up', infoSerial')
    BY <1>3, <2>1, EmptySound
  <2> QED BY <1>3, <2>1, <2>2 DEF ListsInv
<1> QED BY <1>4, <1>5, <1>6, <1>7, MasterSteps

LEMMA BaseInit == Init => BaseInv
<1> SUFFICES ASSUME Init PROVE BaseInv
  OBVIOUS
<1>1. TypeOK
  BY TypeInit
<1>2. NextInv
  <2>1. \A p \in Protocols : protocol[p].next = 0
    BY DEF Init, Fresh
  <2> QED BY <2>1, RegisterAssumption DEF NextInv
<1>3. KnownInv
  BY DEF Init, KnownInv
<1>4. ListsInv
  BY EmptySound DEF Init, ListsInv
<1> QED BY <1>1, <1>2, <1>3, <1>4 DEF BaseInv

LEMMA BaseStep == BaseInv /\ [Next]_vars => BaseInv'
<1> SUFFICES ASSUME BaseInv, [Next]_vars PROVE BaseInv'
  OBVIOUS
<1>1. TypeOK'
  BY TypedStep DEF BaseInv, Typed
<1>2. NextInv' /\ KnownInv'
  BY NextStep, KnownStep DEF BaseInv
<1>3. ListsInv'
  BY ListsStep
<1> QED BY <1>1, <1>2, <1>3 DEF BaseInv

-----------------------------------------------------------------------------
(* While it is calm, what is not late is of the server that runs and of    *)
(* what it knows now.                                                      *)
Current(p, q) ==
  /\ up /\ p \in enabled
  /\ q.action = "register" /\ q.secret = life /\ q.serial = infoSerial /\ q.at # "failed"

PromptInv ==
  /\ \A p \in Protocols : \A i \in DOMAIN requests[p] :
       requests[p][i].slow \/ Current(p, requests[p][i])
  /\ \A c \in challenges :
       c.slow \/ (c.protocol \in enabled /\ c.secret = life /\ c.seed = seed)

Refreshed(p, within) == Listed(p) /\ list.addresses[p].age <= within

(* What the master told it, or is about to, is a token. *)
Challenged(p) ==
  \/ protocol[p].newToken
  \/ \E c \in challenges : c.protocol = p /\ c.secret = life /\ ~c.slow

(* A request of p is under way whose answer, if there is one already,      *)
(* makes the server ask again; and the last that was sent.                 *)
Pending(q, p) ==
  /\ ~q.slow /\ ~q.noted /\ ~q.late /\ q.newest
  /\ q.at \in {"sent", "needchallenge", "needinfo"}
  /\ q.at = "needchallenge" => Challenged(p)

Open(p) ==
  /\ Len(requests[p]) > 0
  /\ ~protocol[p].answered
  /\ Pending(requests[p][Len(requests[p])], p)
  /\ \A i \in 1 .. Len(requests[p]) - 1 : ~requests[p][i].newest

(* The answer is there, and the server asks again within the unit.         *)
Replied(p) ==
  /\ protocol[p].answered
  /\ \/ protocol[p].status = "needinfo"
     \/ protocol[p].status = "needchallenge" /\ Challenged(p)
  /\ \A i \in DOMAIN requests[p] :
       requests[p][i].slow \/ requests[p][i].noted \/ requests[p][i].late

(* An enabled protocol waits for its first register since it is calm, or   *)
(* was listed since it sent the last, or is not done with that.            *)
Timely(p) ==
  /\ \/ calm + protocol[p].next <= Period
     \/ Refreshed(p, Period - protocol[p].next)
     \/ protocol[p].next = Period /\ (Open(p) \/ Replied(p))
  /\ calm > Period => Refreshed(p, Period)

Leaving == \A a \in DOMAIN list.addresses : list.addresses[a].age >= calm \/ (up /\ a \in enabled)

CalmInv == calm > 0 => /\ PromptInv /\ Leaving
                       /\ up => \A p \in enabled : Timely(p)

(* Nothing but time makes it calm; it stays calm by what is not late.      *)
LEMMA CalmSteps ==
  ASSUME [Next]_vars
  PROVE  \/ calm' = 0
         \/ Update \/ Tick \/ UNCHANGED vars
         \/ \E c \in challenges : ~c.slow /\ OnToken(c)
         \/ \E p \in Protocols : \E i \in DOMAIN requests[p] :
              ~requests[p][i].slow /\ Work(p, i)
<1>1. ASSUME NEW c \in challenges, OnToken(c), c.slow PROVE calm' = 0
  BY <1>1 DEF OnToken, Quietly
<1>2. ASSUME NEW p, NEW i, Work(p, i), requests[p][i].slow PROVE calm' = 0
  BY <1>2 DEF Work, Arrive, NoteStatus, NoteSerial, Ignore, Quietly
<1>3. ASSUME OnNewInfo \/ Start \/ Reseed \/ MasterRestart PROVE calm' = 0
  BY <1>3 DEF OnNewInfo, Start, Reseed, MasterRestart, Disturb
<1>4. ASSUME NEW E, OnConfigChange(E) PROVE calm' = 0
  BY <1>4 DEF OnConfigChange, Disturb
<1>5. ASSUME NEW shutdown, Stop(shutdown) PROVE calm' = 0
  BY <1>5 DEF Stop, Disturb
<1>6. ASSUME NEW p, NEW i, Fail(p, i) \/ Delay(p, i) PROVE calm' = 0
  BY <1>6 DEF Fail, Delay, Disturb
<1>7. ASSUME NEW c, LoseChallenge(c) \/ DelayChallenge(c) PROVE calm' = 0
  BY <1>7 DEF LoseChallenge, DelayChallenge, Disturb
<1>8. ASSUME Troubling PROVE calm' = 0
  BY <1>8, <1>3, <1>4, <1>5, <1>6, <1>7 DEF Troubling
<1>9. CASE Serving
  BY <1>1, <1>9 DEF Serving
<1>10. CASE Working
  BY <1>2, <1>10 DEF Working
<1> QED BY <1>3, <1>8, <1>9, <1>10 DEF Next

(* What does not touch the list of p, nor when it sends next. *)
LEMMA TimelyKept ==
  ASSUME BaseInv, BaseInv', NEW p \in Protocols, Timely(p), calm' = calm,
         protocol'[p].next = protocol[p].next,
         Listed(p) => Listed(p)' /\ list'.addresses[p].age <= list.addresses[p].age,
         protocol[p].next = Period /\ (Open(p) \/ Replied(p)) =>
           \/ Open(p)' \/ Replied(p)'
           \/ Refreshed(p, Period - protocol[p].next)'
  PROVE  Timely(p)'
<1>1. Listed(p) => list.addresses[p].age \in Int
  BY DEF BaseInv, ListsInv, Sound, Listed
<1>2. Listed(p)' => list'.addresses[p].age \in Int
  BY DEF BaseInv, ListsInv, Sound, Listed
<1>3. \A d \in Int : Refreshed(p, d) => Listed(p)' /\ list'.addresses[p].age <= d
  BY <1>1, <1>2 DEF Refreshed
<1>4. Period \in Int /\ Period - protocol[p].next \in Int
  BY RegisterAssumption DEF BaseInv, TypeOK, ProtocolState
<1>5. \/ calm + protocol[p].next <= Period
      \/ Refreshed(p, Period - protocol[p].next)
      \/ protocol[p].next = Period /\ (Open(p) \/ Replied(p))
  BY DEF Timely
<1>6. calm > Period => Refreshed(p, Period)
  BY DEF Timely
<1> QED BY <1>3, <1>4, <1>5, <1>6 DEF Timely, Refreshed

(* A protocol that sends waits for the answer to its last request.         *)
LEMMA SendOpens ==
  ASSUME TypeOK, TypeOK', NEW S, NEW states \in [Protocols -> ProtocolState],
         SendRegister(S, states, infoSerial), NEW p \in Protocols, p \in S
  PROVE  protocol'[p].next = Period /\ Open(p)'
<1> DEFINE w == WithRegister(requests[p], states[p], infoSerial)
           n == Len(requests[p])
<1>1. protocol'[p] = Sent(states[p]) /\ requests'[p] = w
  BY DEF SendRegister
<1>2. protocol'[p].next = Period /\ ~protocol'[p].answered
  BY <1>1, SentFacts
<1>3. requests[p] \in Seq(ARequest) /\ states[p] \in ProtocolState /\ infoSerial \in Nat /\ n \in Nat
  BY DEF TypeOK
<1>4. /\ Len(w) = n + 1
      /\ w[n + 1] = Request("register", states[p], infoSerial)
      /\ \A i \in 1 .. n : ~w[i].newest
  BY <1>3, WithRegisterFacts
<1>5. LET q == Request("register", states[p], infoSerial)
      IN  ~q.slow /\ ~q.noted /\ ~q.late /\ q.newest /\ q.at = "sent"
  BY <1>3, RequestFacts
<1> HIDE DEF w, n
<1>6. /\ Len(requests'[p]) = n + 1 /\ Len(requests'[p]) > 0 /\ Len(requests'[p]) - 1 = n
      /\ \A i \in 1 .. n : ~requests'[p][i].newest
  BY <1>1, <1>3, <1>4
<1>7. Pending(requests[p][Len(requests[p])], p)'
  BY <1>1, <1>4, <1>5, <1>6 DEF Pending
<1> QED BY <1>2, <1>6, <1>7 DEF Open

(* What is sent is current. *)
LEMMA SendPrompt ==
  ASSUME TypeOK, PromptInv, up, NEW S, NEW states \in [Protocols -> ProtocolState],
         S \cap Protocols \subseteq enabled,
         SendRegister(S, states, infoSerial),
         UNCHANGED <<life, up, enabled, infoSerial, seed>>,
         challenges' \subseteq challenges
  PROVE  PromptInv'
<1>1. ASSUME NEW p \in Protocols, NEW i \in DOMAIN requests'[p]
      PROVE  (requests[p][i].slow \/ Current(p, requests[p][i]))'
  <2>1. requests'[p] = IF p \in S THEN WithRegister(requests[p], states[p], infoSerial)
                       ELSE requests[p]
    BY DEF SendRegister
  <2>2. requests[p] \in Seq(ARequest) /\ states[p] \in ProtocolState /\ infoSerial \in Nat
    BY DEF TypeOK
  <2>3. CASE p \notin S
    BY <2>1, <2>3 DEF PromptInv, Current
  <2>4. CASE p \in S
    <3> DEFINE w == WithRegister(requests[p], states[p], infoSerial)
               n == Len(requests[p])
    <3>1. /\ w \in Seq(ARequest) /\ Len(w) = n + 1
          /\ w[n + 1] = Request("register", states[p], infoSerial)
          /\ \A j \in 1 .. n : /\ SameRequest(w[j], requests[p][j])
                               /\ w[j].at = requests[p][j].at /\ w[j].slow = requests[p][j].slow
      BY <2>2, WithRegisterFacts
    <3>2. LET q == w[n + 1]
          IN  /\ q.action = "register" /\ q.secret = life /\ q.serial = infoSerial
              /\ q.at = "sent"
      <4>1. LET q == Request("register", states[p], infoSerial)
            IN  /\ q.action = "register" /\ q.secret = life /\ q.serial = infoSerial
                /\ q.at = "sent"
        BY <2>2, RequestFacts
      <4> HIDE DEF w, n
      <4> QED BY <3>1, <4>1
    <3>3. requests'[p] = w
      BY <2>1, <2>4
    <3>4. n \in Nat /\ DOMAIN requests[p] = 1 .. n
      BY <2>2
    <3> HIDE DEF w, n
    <3>5. i \in 1 .. n \/ i = n + 1
      <4>1. i \in 1 .. Len(w)
        BY <3>1, <3>3
      <4> QED BY <3>1, <3>4, <4>1
    <3>6. CASE i \in 1 .. n
      <4>1. requests[p][i].slow \/ Current(p, requests[p][i])
        BY <3>4, <3>6 DEF PromptInv
      <4> QED BY <3>1, <3>3, <3>6, <4>1 DEF Current, SameRequest
    <3>7. CASE i = n + 1
      BY <2>4, <3>2, <3>3, <3>7 DEF Current
    <3> QED BY <3>5, <3>6, <3>7
  <2> QED BY <2>3, <2>4
<1>2. ASSUME NEW c \in challenges'
      PROVE  c.slow \/ (c.protocol \in enabled' /\ c.secret = life' /\ c.seed = seed')
  BY DEF PromptInv
<1> QED BY <1>1, <1>2 DEF PromptInv

LEMMA UpdateCalm ==
  ASSUME BaseInv, BaseInv', CalmInv, Update
  PROVE  CalmInv'
<1>1. /\ UNCHANGED <<life, up, enabled, infoSerial, challenges, list, seed, calm>>
      /\ up
      /\ SendRegister({p \in Asked : Due(protocol[p])}, protocol, infoSerial)
  BY DEF Update, masterVars
<1>2. TypeOK /\ TypeOK' /\ protocol \in [Protocols -> ProtocolState] /\ enabled \subseteq Protocols
  BY DEF BaseInv, TypeOK
<1> SUFFICES ASSUME calm > 0
             PROVE  PromptInv' /\ Leaving' /\ \A p \in enabled : Timely(p)'
  BY <1>1 DEF CalmInv
<1>3. PromptInv /\ Leaving /\ \A p \in enabled : Timely(p)
  BY <1>1 DEF CalmInv
<1>4. PromptInv'
  BY <1>1, <1>2, <1>3, SendPrompt DEF Asked
<1>5. Leaving'
  BY <1>1, <1>3 DEF Leaving
<1>6. ASSUME NEW p \in enabled
      PROVE  Timely(p)'
  <2>1. Timely(p) /\ p \in Protocols
    BY <1>2, <1>3
  <2>2. CASE Due(protocol[p])
    <3>1. protocol'[p].next = Period /\ Open(p)'
      BY <1>1, <1>2, <2>1, <2>2, SendOpens DEF Asked
    <3>2. calm > Period => Refreshed(p, Period)'
      BY <1>1, <2>1 DEF Timely, Refreshed, Listed
    <3> QED BY <1>1, <3>1, <3>2 DEF Timely
  <2>3. CASE ~Due(protocol[p])
    <3>1. protocol'[p] = protocol[p] /\ requests'[p] = requests[p]
      BY <1>1, <2>1, <2>3 DEF SendRegister
    <3> QED BY <1>1, <2>1, <3>1
         DEF Timely, Refreshed, Listed, Open, Replied, Pending, Challenged
  <2> QED BY <2>2, <2>3
<1> QED BY <1>4, <1>5, <1>6

LEMMA OnTokenCalm ==
  ASSUME BaseInv, BaseInv', CalmInv, NEW c \in challenges, ~c.slow, OnToken(c)
  PROVE  CalmInv'
<1> DEFINE k == c.protocol
           states == TokenNoted(c)
<1>1. /\ UNCHANGED <<life, up, enabled, infoSerial, list, seed, calm>>
      /\ challenges' = challenges \ {c}
      /\ up /\ c.secret = life =>
           SendRegister({k} \cap {q \in Protocols : Due(states[q])}, states, infoSerial)
      /\ ~(up /\ c.secret = life) => UNCHANGED <<protocol, requests>>
  BY OnTokenFacts DEF BaseInv
<1>2. /\ TypeOK /\ TypeOK' /\ enabled \subseteq Protocols
      /\ states \in [Protocols -> ProtocolState] /\ k \in Protocols
      /\ \A p \in Protocols \ {k} : states[p] = protocol[p]
      /\ states[k].newToken /\ states[k].next = protocol[k].next
      /\ states[k].status = protocol[k].status /\ states[k].answered = protocol[k].answered
  BY TokenNotedFacts DEF BaseInv, TypeOK
<1> HIDE DEF k, states
<1> SUFFICES ASSUME calm > 0
             PROVE  PromptInv' /\ Leaving' /\ (up => \A p \in enabled : Timely(p)')
  BY <1>1 DEF CalmInv
<1>3. PromptInv /\ Leaving /\ (up => \A p \in enabled : Timely(p))
  BY DEF CalmInv
<1>4. k \in enabled /\ c.secret = life
  BY <1>3 DEF PromptInv, k
<1>5. Leaving'
  BY <1>1, <1>3 DEF Leaving
<1>6. CASE ~up
  <2>1. PromptInv'
    BY <1>1, <1>3, <1>6 DEF PromptInv, Current
  <2> QED BY <1>5, <1>6, <2>1
<1>7. CASE up
  <2>1. SendRegister({k} \cap {q \in Protocols : Due(states[q])}, states, infoSerial)
    BY <1>1, <1>4, <1>7
  <2>2. PromptInv'
    BY <1>1, <1>2, <1>3, <1>4, <1>7, <2>1, SendPrompt
  <2>3. ASSUME NEW p \in enabled
        PROVE  Timely(p)'
    <3>1. Timely(p) /\ p \in Protocols
      BY <1>2, <1>3, <1>7
    <3>2. CASE p = k /\ Due(states[k])
      <4>1. protocol'[p].next = Period /\ Open(p)'
        BY <1>2, <2>1, <3>1, <3>2, SendOpens
      <4>2. calm > Period => Refreshed(p, Period)'
        BY <1>1, <3>1 DEF Timely, Refreshed, Listed
      <4> QED BY <1>1, <4>1, <4>2 DEF Timely
    <3>3. CASE p = k /\ ~Due(states[k])
      <4>1. protocol'[p] = states[p] /\ requests'[p] = requests[p]
        BY <2>1, <3>1, <3>3 DEF SendRegister
      <4>2. Open(p) => Open(p)'
        BY <1>2, <3>3, <4>1 DEF Open, Pending, Challenged
      <4>3. ~Replied(p)
        BY <1>2, <3>3 DEF Replied, Due, Prompted
      <4>4. Listed(p) => Listed(p)' /\ list'.addresses[p].age <= list.addresses[p].age
        <5>1. Listed(p) => list.addresses[p].age \in Int
          BY DEF BaseInv, ListsInv, Sound, Listed
        <5> QED BY <1>1, <5>1 DEF Listed
      <4> QED BY <1>1, <1>2, <3>1, <3>3, <4>1, <4>2, <4>3, <4>4, TimelyKept
    <3>4. CASE p # k
      <4>1. protocol'[p] = protocol[p] /\ requests'[p] = requests[p]
        BY <1>2, <2>1, <3>1, <3>4 DEF SendRegister
      <4>2. Challenged(p) => Challenged(p)'
        BY <1>1, <3>4, <4>1 DEF Challenged, k
      <4> QED BY <1>1, <3>1, <4>1, <4>2
           DEF Timely, Refreshed, Listed, Open, Replied, Pending
    <3> QED BY <3>2, <3>3, <3>4
  <2> QED BY <1>5, <2>2, <2>3
<1> QED BY <1>6, <1>7

(* A server is listed with its last info: no server else is.               *)
LEMMA AddedLists ==
  ASSUME BaseInv, up, NEW p, list' = Added(list, p, life, infoSerial),
         UNCHANGED <<life, infoSerial>>
  PROVE  /\ Listed(p)' /\ list'.addresses[p].age = 0
         /\ \A a : a # p /\ Listed(a) =>
              Listed(a)' /\ list'.addresses[a].age = list.addresses[a].age
         /\ \A a \in DOMAIN list'.addresses :
              a = p \/ (a \in DOMAIN list.addresses /\ list'.addresses[a] = list.addresses[a])
<1>1. Good(list)
  BY DEF BaseInv, ListsInv, Sound
<1>2. /\ DOMAIN list'.addresses = DOMAIN list.addresses \cup {p}
      /\ list'.addresses[p].secret = life /\ list'.addresses[p].age = 0
      /\ \A a \in DOMAIN list.addresses : a # p => list'.addresses[a] = list.addresses[a]
      /\ list'.servers[life].serial =
           IF life \in DOMAIN list.servers
             THEN Newer(list.servers[life].serial, infoSerial) ELSE infoSerial
  BY <1>1, AddedFacts
<1>3. list'.servers[life].serial = infoSerial
  <2>1. CASE life \in DOMAIN list.servers
    <3>1. list.servers[life].serial \in Nat /\ list.servers[life].serial <= infoSerial
      BY <2>1 DEF BaseInv, ListsInv, Sound
    <3>2. infoSerial \in Nat
      BY DEF BaseInv, TypeOK
    <3>3. Newer(list.servers[life].serial, infoSerial) = infoSerial
      BY <3>1, <3>2 DEF Newer
    <3> QED BY <1>2, <2>1, <3>3
  <2>2. CASE life \notin DOMAIN list.servers
    BY <1>2, <2>2
  <2> QED BY <2>1, <2>2
<1> QED BY <1>2, <1>3 DEF Listed

LEMMA ArriveCalm ==
  ASSUME BaseInv, BaseInv', CalmInv, NEW p \in Protocols, NEW i \in DOMAIN requests[p],
         ~requests[p][i].slow, Arrive(p, i)
  PROVE  CalmInv'
<1> DEFINE q == requests[p][i]
           challenge == [protocol |-> p, secret |-> life, seed |-> seed, slow |-> FALSE]
<1>0. /\ UNCHANGED <<life, up, enabled, infoSerial, protocol, seed, calm>>
      /\ TypeOK /\ enabled \subseteq Protocols
  BY DEF Arrive, Quietly, serverVars, BaseInv, TypeOK
<1> SUFFICES ASSUME calm > 0
             PROVE  PromptInv' /\ Leaving' /\ (up => \A x \in enabled : Timely(x)')
  BY <1>0 DEF CalmInv
<1>1. PromptInv /\ Leaving /\ (up => \A x \in enabled : Timely(x))
  BY DEF CalmInv
<1>2. Current(p, q)
  BY <1>1 DEF PromptInv
<1>3. up /\ p \in enabled /\ q.action = "register" /\ q.secret = life /\ q.serial = infoSerial
  BY <1>2 DEF Current
<1>4. PICK v \in Answers :
        /\ Becomes(p, i, v)
        /\ v # "ok" => list' = list
        /\ v = "ok" => list' = Added(list, p, life, infoSerial)
        /\ v = "needchallenge" => q.token # seed
  BY <1>3 DEF Arrive, Answers, Becomes
<1>5. challenges' = IF q.token = seed THEN challenges ELSE challenges \cup {challenge}
  BY <1>3 DEF Arrive
<1>6. /\ \A x \in Protocols \ {p} : requests'[x] = requests[x]
      /\ Len(requests'[p]) = Len(requests[p])
      /\ \A j \in DOMAIN requests[p] \ {i} : requests'[p][j] = requests[p][j]
      /\ LET r == requests'[p][i]
         IN  /\ SameRequest(r, q) /\ r.at = v /\ r.noted = q.noted /\ r.slow = q.slow
             /\ r.late = q.late /\ r.newest = q.newest
  <2>1. Becomes(p, i, v) /\ TypeOK /\ v \in {"sent", "failed"} \cup Answers
    BY <1>0, <1>4
  <2>2. /\ \A x \in Protocols \ {p} : requests'[x] = requests[x]
        /\ Len(requests'[p]) = Len(requests[p])
        /\ \A j \in DOMAIN requests[p] \ {i} : requests'[p][j] = requests[p][j]
    BY <2>1, AtFacts
  <2>3. SameRequest(requests'[p][i], requests[p][i]) /\ requests'[p][i].at = v
    BY <2>1, AtFacts
  <2>4. requests'[p][i].noted = requests[p][i].noted
    BY <2>1, AtFacts
  <2>5. requests'[p][i].slow = requests[p][i].slow
    BY <2>1, AtFacts
  <2>6. requests'[p][i].late = requests[p][i].late
    BY <2>1, AtFacts
  <2>7. requests'[p][i].newest = requests[p][i].newest
    BY <2>1, AtFacts
  <2> QED BY <2>2, <2>3, <2>4, <2>5, <2>6, <2>7
<1>7. DOMAIN requests'[p] = DOMAIN requests[p]
  <2>1. requests[p] \in Seq(ARequest) /\ requests'[p] \in Seq(ARequest)
    BY DEF BaseInv, TypeOK
  <2> QED BY <1>6, <2>1
<1>8. \A x \in Protocols : Challenged(x) => Challenged(x)'
  BY <1>0, <1>5 DEF Challenged
<1>9. v = "needchallenge" => Challenged(p)'
  <2> SUFFICES ASSUME v = "needchallenge" PROVE Challenged(p)'
    OBVIOUS
  <2>1. q.token # seed
    BY <1>4
  <2> HIDE DEF q
  <2>2. challenge \in challenges'
    BY <1>5, <2>1
  <2>3. challenge.protocol = p /\ challenge.secret = life' /\ ~challenge.slow
    BY <1>0
  <2> HIDE DEF challenge
  <2> QED BY <2>2, <2>3 DEF Challenged
<1> HIDE DEF q
<1>10. PromptInv'
  <2>1. ASSUME NEW x \in Protocols, NEW j \in DOMAIN requests'[x]
        PROVE  (requests[x][j].slow \/ Current(x, requests[x][j]))'
    <3>1. CASE x = p /\ j = i
      BY <1>0, <1>2, <1>6, <3>1 DEF Current, SameRequest, Answers
    <3>2. CASE ~(x = p /\ j = i)
      <4>1. requests'[x][j] = requests[x][j] /\ j \in DOMAIN requests[x]
        BY <1>6, <1>7, <3>2
      <4> QED BY <1>0, <1>1, <4>1 DEF PromptInv, Current
    <3> QED BY <3>1, <3>2
  <2>2. \A c \in challenges' :
          c.slow \/ (c.protocol \in enabled' /\ c.secret = life' /\ c.seed = seed')
    BY <1>0, <1>1, <1>3, <1>5 DEF PromptInv
  <2> QED BY <2>1, <2>2 DEF PromptInv
<1>11. CASE v = "ok"
  <2>1. /\ Listed(p)' /\ list'.addresses[p].age = 0
        /\ \A a : a # p /\ Listed(a) =>
             Listed(a)' /\ list'.addresses[a].age = list.addresses[a].age
        /\ \A a \in DOMAIN list'.addresses :
             a = p \/ (a \in DOMAIN list.addresses /\ list'.addresses[a] = list.addresses[a])
    BY <1>0, <1>3, <1>4, <1>11, AddedLists
  <2>2. Leaving'
    BY <1>0, <1>1, <1>3, <2>1 DEF Leaving
  <2>3. Timely(p)'
    <3>1. Period \in Nat /\ protocol'[p].next \in Int /\ protocol'[p].next <= Period
      BY <1>0, RegisterAssumption DEF BaseInv, NextInv, TypeOK, ProtocolState
    <3>2. Refreshed(p, Period - protocol[p].next)' /\ Refreshed(p, Period)'
      BY <1>0, <2>1, <3>1, RegisterAssumption DEF Refreshed
    <3> QED BY <3>2 DEF Timely
  <2>4. ASSUME NEW x \in enabled, x # p
        PROVE  Timely(x)'
    <3>1. requests'[x] = requests[x] /\ protocol'[x] = protocol[x] /\ Timely(x) /\ x \in Protocols
      BY <1>0, <1>1, <1>3, <1>6, <2>4
    <3>2. Open(x) => Open(x)'
      BY <1>8, <3>1 DEF Open, Pending
    <3>3. Replied(x) => Replied(x)'
      BY <1>8, <3>1 DEF Replied
    <3>4. Listed(x) => Listed(x)' /\ list'.addresses[x].age <= list.addresses[x].age
      <4>1. Listed(x) => list.addresses[x].age \in Int
        BY DEF BaseInv, ListsInv, Sound, Listed
      <4> QED BY <2>1, <2>4, <4>1
    <3> QED BY <1>0, <3>1, <3>2, <3>3, <3>4, TimelyKept
  <2> QED BY <1>10, <2>2, <2>3, <2>4
<1>12. CASE v # "ok"
  <2>1. list' = list
    BY <1>4, <1>12
  <2>2. Leaving'
    BY <1>0, <1>1, <2>1 DEF Leaving
  <2>3. ASSUME NEW x \in enabled
        PROVE  Timely(x)'
    <3>1. protocol'[x] = protocol[x] /\ Timely(x) /\ x \in Protocols
      BY <1>0, <1>1, <1>3
    <3>2. Listed(x) => Listed(x)' /\ list'.addresses[x].age <= list.addresses[x].age
      <4>1. Listed(x) => list.addresses[x].age \in Int
        BY DEF BaseInv, ListsInv, Sound, Listed
      <4> QED BY <1>0, <2>1, <4>1 DEF Listed
    <3>3. CASE x # p
      <4>1. requests'[x] = requests[x]
        BY <1>6, <3>1, <3>3
      <4>2. Open(x) => Open(x)'
        BY <1>8, <3>1, <4>1 DEF Open, Pending
      <4>3. Replied(x) => Replied(x)'
        BY <1>8, <3>1, <4>1 DEF Replied
      <4> QED BY <1>0, <3>1, <3>2, <4>2, <4>3, TimelyKept
    <3>4. CASE x = p
      <4>1. Replied(p) => Replied(p)'
        <5>1. \A j \in DOMAIN requests[p] :
                /\ requests'[p][j].slow = requests[p][j].slow
                /\ requests'[p][j].noted = requests[p][j].noted
                /\ requests'[p][j].late = requests[p][j].late
          BY <1>6 DEF q
        <5> QED BY <1>7, <1>8, <3>1, <3>4, <5>1 DEF Replied
      <4>2. ASSUME Open(p) PROVE Open(p)'
        <5> DEFINE n == Len(requests[p])
        <5>1. /\ n > 0 /\ n \in Nat /\ DOMAIN requests[p] = 1 .. n
              /\ Pending(requests[p][n], p)
              /\ \A j \in 1 .. n - 1 : ~requests[p][j].newest
          BY <1>0, <4>2 DEF Open, TypeOK
        <5>2. Len(requests'[p]) = n
          BY <1>6
        <5> HIDE DEF n
        <5>3. \A j \in 1 .. n - 1 : ~requests'[p][j].newest
          BY <1>6, <5>1 DEF q
        <5>4. Pending(requests[p][Len(requests[p])], p)'
          <6>1. CASE i = n
            <7>1. v \in {"sent", "needchallenge", "needinfo"}
              BY <1>12 DEF Answers
            <7> QED BY <1>6, <1>9, <5>1, <5>2, <6>1, <7>1 DEF Pending, q
          <6>2. CASE i # n
            <7>1. n \in DOMAIN requests[p] \ {i}
              BY <5>1, <6>2
            <7>2. requests'[p][n] = requests[p][n]
              BY <1>6, <7>1
            <7> QED BY <1>8, <5>1, <5>2, <7>2 DEF Pending
          <6> QED BY <6>1, <6>2
        <5> QED BY <3>1, <3>4, <4>2, <5>1, <5>2, <5>3, <5>4 DEF Open
      <4> QED BY <1>0, <3>1, <3>2, <3>4, <4>1, <4>2, TimelyKept
    <3> QED BY <3>3, <3>4
  <2> QED BY <1>10, <2>2, <2>3
<1> QED BY <1>11, <1>12

LEMMA NoteStatusCalm ==
  ASSUME BaseInv, BaseInv', CalmInv, NEW p \in Protocols, NEW i \in DOMAIN requests[p],
         ~requests[p][i].slow, NoteStatus(p, i)
  PROVE  CalmInv'
<1> DEFINE q == requests[p][i]
           n == Len(requests[p])
<1>1. /\ UNCHANGED <<life, up, enabled, infoSerial, challenges, list, seed, calm>>
      /\ TypeOK /\ enabled \subseteq Protocols
  BY DEF NoteStatus, Quietly, masterVars, BaseInv, TypeOK
<1>2. q.at \in Answers /\ ~q.noted /\ ~q.slow /\ q \in ARequest
  BY DEF NoteStatus, BaseInv, TypeOK
<1> SUFFICES ASSUME calm > 0
             PROVE  PromptInv' /\ Leaving' /\ (up => \A x \in enabled : Timely(x)')
  BY <1>1 DEF CalmInv
<1>3. PromptInv /\ Leaving /\ (up => \A x \in enabled : Timely(x))
  BY DEF CalmInv
<1>4. /\ \A x \in Protocols \ {p} : requests'[x] = requests[x]
      /\ Len(requests'[p]) = n
  BY <1>1, NotedFacts
<1>5. \A j \in DOMAIN requests[p] :
        /\ SameRequest(requests'[p][j], requests[p][j])
        /\ requests'[p][j].at = requests[p][j].at
  BY <1>1, NotedFacts
<1>6. ASSUME NEW j \in DOMAIN requests[p]
      PROVE  /\ requests'[p][j].slow = requests[p][j].slow
             /\ requests'[p][j].newest = requests[p][j].newest
             /\ requests'[p][j].noted = (requests[p][j].noted \/ j = i)
             /\ requests'[p][j].late = (requests[p][j].late \/ (~q.late /\ j < i))
  <2>1. requests'[p][j].slow = requests[p][j].slow
    BY <1>1, NotedFacts
  <2>2. requests'[p][j].newest = requests[p][j].newest
    BY <1>1, NotedFacts
  <2>3. requests'[p][j].noted = (requests[p][j].noted \/ j = i)
    BY <1>1, NotedFacts
  <2>4. requests'[p][j].late = (requests[p][j].late \/ (~q.late /\ j < i))
    BY <1>1, NotedFacts
  <2> QED BY <2>1, <2>2, <2>3, <2>4
<1>7. DOMAIN requests'[p] = 1 .. n /\ DOMAIN requests[p] = 1 .. n /\ n \in Nat /\ i \in 1 .. n
  <2>1. requests[p] \in Seq(ARequest) /\ requests'[p] \in Seq(ARequest)
    BY DEF BaseInv, TypeOK
  <2> QED BY <1>4, <2>1
<1>8. /\ \A x \in Protocols \ {p} : protocol'[x] = protocol[x]
      /\ protocol'[p].next = protocol[p].next
      /\ q.late => protocol'[p] = protocol[p]
  BY <1>1, StatusNotedFacts
<1>9. protocol'[p].newToken = protocol[p].newToken
  BY <1>1, StatusNotedFacts
<1>10. ~q.late => protocol'[p].status = q.at
  BY <1>1, StatusNotedFacts
<1>11. ~q.late => protocol'[p].answered = q.newest
  BY <1>1, StatusNotedFacts
<1>12. \A x \in Protocols : Challenged(x) => Challenged(x)'
  BY <1>1, <1>8, <1>9 DEF Challenged
<1> HIDE DEF q, n
<1>13. PromptInv'
  <2>1. ASSUME NEW x \in Protocols, NEW j \in DOMAIN requests'[x]
        PROVE  (requests[x][j].slow \/ Current(x, requests[x][j]))'
    <3>1. CASE x = p
      <4>1. j \in DOMAIN requests[p]
        BY <1>7, <3>1
      <4>2. requests[p][j].slow \/ Current(p, requests[p][j])
        BY <1>3, <4>1 DEF PromptInv
      <4> QED BY <1>1, <1>5, <1>6, <3>1, <4>1, <4>2 DEF Current, SameRequest
    <3>2. CASE x # p
      BY <1>1, <1>3, <1>4, <3>2 DEF PromptInv, Current
    <3> QED BY <3>1, <3>2
  <2>2. \A c \in challenges' :
          c.slow \/ (c.protocol \in enabled' /\ c.secret = life' /\ c.seed = seed')
    BY <1>1, <1>3 DEF PromptInv
  <2> QED BY <2>1, <2>2 DEF PromptInv
<1>14. Leaving'
  BY <1>1, <1>3 DEF Leaving
<1>15. ASSUME Open(p)
       PROVE  Open(p)' \/ Replied(p)'
  <2>1. /\ n > 0 /\ ~protocol[p].answered
        /\ Pending(requests[p][n], p)
        /\ \A j \in 1 .. n - 1 : ~requests[p][j].newest
    BY <1>15 DEF Open, n
  <2>2. CASE i = n
    <3>1. ~q.late /\ q.newest /\ q.at \in {"needchallenge", "needinfo"}
          /\ (q.at = "needchallenge" => Challenged(p))
      BY <1>2, <2>1, <2>2 DEF Pending, Answers, q
    <3>2. protocol'[p].answered /\ protocol'[p].status = q.at
      BY <1>10, <1>11, <3>1
    <3>3. \A j \in DOMAIN requests'[p] : requests'[p][j].noted \/ requests'[p][j].late
      <4> SUFFICES ASSUME NEW j \in 1 .. n
                   PROVE  requests'[p][j].noted \/ requests'[p][j].late
        BY <1>7
      <4>1. j = i \/ j < i
        BY <1>7, <2>2
      <4> QED BY <1>6, <1>7, <3>1, <4>1
    <3> QED BY <1>12, <3>1, <3>2, <3>3 DEF Replied
  <2>3. CASE i # n
    <3>1. i \in 1 .. n - 1 /\ n \in DOMAIN requests[p] /\ ~ n < i
      BY <1>7, <2>3
    <3>2. ~q.newest
      BY <2>1, <3>1 DEF q
    <3>3. ~protocol'[p].answered
      BY <1>8, <1>11, <2>1, <3>2
    <3>4. \A j \in 1 .. n - 1 : ~requests'[p][j].newest
      BY <1>6, <1>7, <2>1
    <3>5. /\ ~requests'[p][n].slow /\ requests'[p][n].newest
          /\ ~requests'[p][n].noted /\ ~requests'[p][n].late
          /\ requests'[p][n].at = requests[p][n].at
      BY <1>5, <1>6, <2>1, <2>3, <3>1 DEF Pending
    <3>6. Pending(requests[p][Len(requests[p])], p)'
      BY <1>4, <1>7, <1>12, <2>1, <3>5 DEF Pending
    <3> QED BY <1>4, <2>1, <3>3, <3>4, <3>6 DEF Open
  <2> QED BY <2>2, <2>3
<1>16. ASSUME Replied(p)
       PROVE  Replied(p)'
  <2>1. q.late
    BY <1>2, <1>16 DEF Replied, q
  <2>2. \A j \in DOMAIN requests'[p] :
          requests'[p][j].slow \/ requests'[p][j].noted \/ requests'[p][j].late
    BY <1>6, <1>7, <1>16 DEF Replied
  <2> QED BY <1>8, <1>12, <1>16, <2>1, <2>2 DEF Replied
<1>17. ASSUME up, NEW x \in enabled
       PROVE  Timely(x)'
  <2>1. Timely(x) /\ x \in Protocols /\ protocol'[x].next = protocol[x].next
    BY <1>1, <1>3, <1>8, <1>17
  <2>2. Listed(x) => Listed(x)' /\ list'.addresses[x].age <= list.addresses[x].age
    <3>1. Listed(x) => list.addresses[x].age \in Int
      BY DEF BaseInv, ListsInv, Sound, Listed
    <3> QED BY <1>1, <3>1 DEF Listed
  <2>3. CASE x = p
    BY <1>1, <1>15, <1>16, <2>1, <2>2, <2>3, TimelyKept
  <2>4. CASE x # p
    <3>1. protocol'[x] = protocol[x] /\ requests'[x] = requests[x]
      BY <1>4, <1>8, <2>1, <2>4
    <3>2. Open(x) => Open(x)'
      BY <1>12, <2>1, <3>1 DEF Open, Pending
    <3>3. Replied(x) => Replied(x)'
      BY <1>12, <2>1, <3>1 DEF Replied
    <3> QED BY <1>1, <2>1, <2>2, <3>2, <3>3, TimelyKept
  <2> QED BY <2>3, <2>4
<1> QED BY <1>13, <1>14, <1>17

LEMMA NoteSerialCalm ==
  ASSUME BaseInv, BaseInv', CalmInv, NEW p \in Protocols, NEW i \in DOMAIN requests[p],
         ~requests[p][i].slow, NoteSerial(p, i)
  PROVE  CalmInv'
<1> DEFINE n == Len(requests[p])
<1>1. /\ UNCHANGED <<life, up, enabled, infoSerial, protocol, challenges, list, seed, calm>>
      /\ TypeOK /\ enabled \subseteq Protocols
      /\ requests[p][i].noted
      /\ requests' = [requests EXCEPT ![p] = RemoveAt(@, i)]
  BY DEF NoteSerial, Quietly, masterVars, BaseInv, TypeOK
<1> SUFFICES ASSUME calm > 0
             PROVE  PromptInv' /\ Leaving' /\ (up => \A x \in enabled : Timely(x)')
  BY <1>1 DEF CalmInv
<1>2. PromptInv /\ Leaving /\ (up => \A x \in enabled : Timely(x))
  BY DEF CalmInv
<1>3. /\ \A x \in Protocols \ {p} : requests'[x] = requests[x]
      /\ Len(requests'[p]) = n - 1
      /\ \A j \in DOMAIN requests'[p] :
           requests'[p][j] = IF j < i THEN requests[p][j] ELSE requests[p][j + 1]
  BY <1>1, DroppedFacts
<1>4. DOMAIN requests'[p] = 1 .. n - 1 /\ DOMAIN requests[p] = 1 .. n /\ n \in Nat /\ i \in 1 .. n
  <2>1. requests[p] \in Seq(ARequest) /\ requests'[p] \in Seq(ARequest)
    BY DEF BaseInv, TypeOK
  <2> QED BY <1>3, <2>1
<1> HIDE DEF n
<1>5. \A j \in DOMAIN requests'[p] : \E m \in DOMAIN requests[p] : requests'[p][j] = requests[p][m]
  BY <1>3, <1>4
<1>6. \A x \in Protocols : Challenged(x) => Challenged(x)'
  BY <1>1 DEF Challenged
<1>7. PromptInv'
  <2>1. ASSUME NEW x \in Protocols, NEW j \in DOMAIN requests'[x]
        PROVE  (requests[x][j].slow \/ Current(x, requests[x][j]))'
    <3>1. PICK m \in DOMAIN requests[x] : requests'[x][j] = requests[x][m]
      BY <1>3, <1>5
    <3> QED BY <1>1, <1>2, <3>1 DEF PromptInv, Current
  <2> QED BY <1>1, <1>2, <2>1 DEF PromptInv
<1>8. Leaving'
  BY <1>1, <1>2 DEF Leaving
<1>9. ASSUME Open(p)
      PROVE  Open(p)'
  <2>1. /\ n > 0 /\ ~protocol[p].answered
        /\ Pending(requests[p][n], p)
        /\ \A j \in 1 .. n - 1 : ~requests[p][j].newest
    BY <1>9 DEF Open, n
  <2>2. i # n
    BY <1>1, <2>1 DEF Pending
  <2>3. n - 1 > 0 /\ n - 1 \in DOMAIN requests'[p] /\ ~ n - 1 < i
    BY <1>4, <2>2
  <2>4. requests'[p][n - 1] = requests[p][n]
    BY <1>3, <1>4, <2>3
  <2>5. ASSUME NEW j \in 1 .. (n - 1) - 1
        PROVE  ~requests'[p][j].newest
    <3>1. j \in DOMAIN requests'[p] /\ j \in 1 .. n - 1 /\ j + 1 \in 1 .. n - 1
      BY <1>4
    <3> QED BY <1>3, <2>1, <3>1
  <2>6. Pending(requests[p][Len(requests[p])], p)'
    BY <1>3, <1>6, <2>1, <2>4 DEF Pending
  <2> QED BY <1>1, <1>3, <2>1, <2>3, <2>5, <2>6 DEF Open
<1>10. ASSUME Replied(p)
       PROVE  Replied(p)'
  <2>1. \A j \in DOMAIN requests'[p] :
          requests'[p][j].slow \/ requests'[p][j].noted \/ requests'[p][j].late
    BY <1>5, <1>10 DEF Replied
  <2> QED BY <1>1, <1>6, <1>10, <2>1 DEF Replied
<1>11. ASSUME up, NEW x \in enabled
       PROVE  Timely(x)'
  <2>1. Timely(x) /\ x \in Protocols
    BY <1>1, <1>2, <1>11
  <2>2. Listed(x) => Listed(x)' /\ list'.addresses[x].age <= list.addresses[x].age
    <3>1. Listed(x) => list.addresses[x].age \in Int
      BY DEF BaseInv, ListsInv, Sound, Listed
    <3> QED BY <1>1, <3>1 DEF Listed
  <2>3. CASE x = p
    BY <1>1, <1>9, <1>10, <2>1, <2>2, <2>3, TimelyKept
  <2>4. CASE x # p
    <3>1. requests'[x] = requests[x]
      BY <1>3, <2>1, <2>4
    <3>2. Open(x) => Open(x)'
      BY <1>1, <1>6, <2>1, <3>1 DEF Open, Pending
    <3>3. Replied(x) => Replied(x)'
      BY <1>1, <1>6, <2>1, <3>1 DEF Replied
    <3> QED BY <1>1, <2>1, <2>2, <3>2, <3>3, TimelyKept
  <2> QED BY <2>3, <2>4
<1> QED BY <1>7, <1>8, <1>11

(* While it is calm no request fails, and none is of a server that has     *)
(* gone.                                                                   *)
LEMMA IgnoreCalm ==
  ASSUME TypeOK, CalmInv, NEW p \in Protocols, NEW i \in DOMAIN requests[p],
         ~requests[p][i].slow, Ignore(p, i)
  PROVE  CalmInv'
<1>1. calm' = calm
  BY DEF Ignore, Quietly
<1>2. ASSUME calm > 0
      PROVE  FALSE
  <2>1. Current(p, requests[p][i])
    BY <1>2 DEF CalmInv, PromptInv
  <2> QED BY <2>1 DEF Current, Ignore, Own
<1> QED BY <1>1, <1>2 DEF CalmInv

(* A unit of time passes when nothing is due.                              *)
LEMMA TickCalm ==
  ASSUME BaseInv, BaseInv', CalmInv, Tick
  PROVE  CalmInv'
<1>1. /\ UNCHANGED <<life, up, updated, enabled, infoSerial, requests, challenges, seed>>
      /\ TypeOK /\ enabled \subseteq Protocols /\ ListsInv /\ Writeout
      /\ \A p \in Protocols : \A i \in DOMAIN requests[p] : requests[p][i].slow
      /\ \A c \in challenges : c.slow
      /\ up => ~WaitUpdate
  BY DEF Tick, BaseInv, TypeOK
<1>2. calm \in Nat /\ Timeout \in Nat /\ Period \in Nat \ {0} /\ Period < Timeout
      /\ calm' = IF calm <= Timeout + 1 THEN calm + 1 ELSE calm
  BY RegisterAssumption, RatioAssumption DEF Tick, BaseInv, TypeOK
<1>3. calm' > 0 /\ calm' <= calm + 1 /\ (calm <= Timeout => calm' = calm + 1)
  BY <1>2
<1>4. /\ \A a \in DOMAIN list'.addresses :
           /\ a \in DOMAIN list.addresses
           /\ list'.addresses[a].secret = list.addresses[a].secret
           /\ list'.addresses[a].age = list.addresses[a].age + 1
      /\ \A a \in DOMAIN list.addresses :
           list.addresses[a].age + 1 < Timeout => a \in DOMAIN list'.addresses
      /\ \A s \in DOMAIN list'.servers :
           s \in DOMAIN list.servers /\ list'.servers[s].serial = list.servers[s].serial
  BY <1>1, WriteoutFacts
<1>5. \A a \in DOMAIN list.addresses : list.addresses[a].age \in Nat
  BY <1>1, RegisterAssumption DEF ListsInv, Sound
<1>6. PromptInv'
  BY <1>1 DEF PromptInv
<1>7. Leaving'
  <2> SUFFICES ASSUME NEW a \in DOMAIN list'.addresses
               PROVE  list'.addresses[a].age >= calm' \/ (up /\ a \in enabled)
    BY <1>1 DEF Leaving
  <2>1. /\ a \in DOMAIN list.addresses /\ list.addresses[a].age \in Nat
        /\ list'.addresses[a].age = list.addresses[a].age + 1
    BY <1>4, <1>5
  <2>2. CASE calm = 0
    BY <1>2, <2>1, <2>2
  <2>3. CASE calm > 0
    <3>1. list.addresses[a].age >= calm \/ (up /\ a \in enabled)
      BY <2>1, <2>3 DEF CalmInv, Leaving
    <3> QED BY <1>2, <1>3, <2>1, <3>1
  <2> QED BY <1>2, <2>2, <2>3
<1>8. ASSUME up, NEW p \in enabled
      PROVE  Timely(p)'
  <2> DEFINE next == protocol[p].next
  <2>1. next \in Int /\ next <= Period /\ p \in Protocols /\ protocol[p] \in ProtocolState
    BY <1>1 DEF BaseInv, NextInv, TypeOK, ProtocolState
  <2>2. ~Due(protocol[p])
    BY <1>1, <1>8 DEF WaitUpdate, Asked
  <2>3. next > 0 /\ ~Prompted(protocol[p])
    BY <2>1, <2>2 DEF Due
  <2>4. protocol'[p].next = next - 1
    <3>1. protocol'[p] = Later(protocol[p])
      BY <1>1, <1>8, <2>1, TickFacts
    <3> QED BY <2>1, <2>3, <3>1, LaterFacts
  <2>5. ~Open(p)
    <3> SUFFICES ASSUME Open(p) PROVE FALSE
      OBVIOUS
    <3>1. requests[p] \in Seq(ARequest) /\ Len(requests[p]) > 0
      BY <1>1, <2>1 DEF TypeOK, Open
    <3>2. Len(requests[p]) \in DOMAIN requests[p]
      BY <3>1
    <3> QED BY <1>1, <2>1, <3>2 DEF Open, Pending
  <2>6. ~Replied(p)
    BY <1>1, <2>3 DEF Replied, Challenged, Prompted
  <2> HIDE DEF next
  <2>7. CASE calm = 0 \/ calm + next <= Period
    <3>1. calm' = calm + 1
      BY <1>2, <2>1, <2>3, <2>7
    <3>2. calm' + protocol'[p].next <= Period
      BY <1>2, <2>1, <2>3, <2>4, <2>7, <3>1
    <3>3. ~ calm' > Period
      BY <1>2, <2>1, <2>3, <2>4, <3>1, <3>2
    <3> QED BY <3>2, <3>3 DEF Timely
  <2>8. CASE calm > 0 /\ ~ calm + next <= Period
    <3>1. Timely(p)
      BY <1>8, <2>8 DEF CalmInv
    <3>2. Refreshed(p, Period - next)
      BY <2>5, <2>6, <2>8, <3>1 DEF Timely, next
    <3>3. /\ Listed(p) /\ p \in DOMAIN list.addresses /\ list.addresses[p].age \in Nat
          /\ list.addresses[p].age <= Period - next
      BY <1>5, <3>2 DEF Refreshed, Listed
    <3>4. list.addresses[p].age + 1 < Timeout
      BY <1>2, <2>1, <2>3, <3>3
    <3>5. p \in DOMAIN list'.addresses
      BY <1>4, <3>3, <3>4
    <3>6. /\ list'.addresses[p].secret = life
          /\ list'.addresses[p].age = list.addresses[p].age + 1
      BY <1>4, <3>3, <3>5 DEF Listed
    <3>7. life \in DOMAIN list'.servers
      <4>1. Consistent(list')
        BY DEF BaseInv, ListsInv, Sound, Good
      <4> QED BY <3>5, <3>6, <4>1 DEF Consistent
    <3>8. Listed(p)'
      BY <1>1, <1>4, <3>3, <3>5, <3>6, <3>7 DEF Listed
    <3>9. /\ list'.addresses[p].age <= Period - protocol'[p].next
          /\ list'.addresses[p].age <= Period
      BY <1>2, <2>1, <2>3, <2>4, <3>3, <3>6
    <3> QED BY <3>8, <3>9 DEF Timely, Refreshed
  <2> QED BY <1>2, <2>7, <2>8
<1> QED BY <1>1, <1>3, <1>6, <1>7, <1>8 DEF CalmInv

LEMMA CalmStep ==
  ASSUME BaseInv, CalmInv, [Next]_vars
  PROVE  CalmInv'
<1>1. BaseInv' /\ TypeOK
  BY BaseStep DEF BaseInv
<1>2. CASE calm' = 0
  BY <1>2 DEF CalmInv
<1>3. ASSUME NEW p \in Protocols, NEW i \in DOMAIN requests[p], ~requests[p][i].slow, Work(p, i)
      PROVE  CalmInv'
  BY <1>1, <1>3, ArriveCalm, NoteStatusCalm, NoteSerialCalm, IgnoreCalm DEF Work
<1>4. CASE UNCHANGED vars
  BY <1>4 DEF vars, serverVars, masterVars, CalmInv, PromptInv, Current, Leaving, Timely,
              Refreshed, Listed, Open, Pending, Replied, Challenged
<1>5. ASSUME NEW c \in challenges, ~c.slow, OnToken(c) PROVE CalmInv'
  BY <1>1, <1>5, OnTokenCalm
<1> QED BY <1>1, <1>2, <1>3, <1>4, <1>5, UpdateCalm, TickCalm, CalmSteps

LEMMA CalmAlways == Spec => [](BaseInv /\ CalmInv)
<1>1. Init => BaseInv /\ CalmInv
  <2>1. Init => CalmInv
    BY DEF Init, CalmInv
  <2> QED BY <2>1, BaseInit
<1>2. BaseInv /\ CalmInv /\ [Next]_vars => (BaseInv /\ CalmInv)'
  BY BaseStep, CalmStep
<1> QED BY <1>1, <1>2, PTL DEF Spec

(* One period after the last trouble the server that runs is listed by     *)
(* every protocol it has enabled, with its last info, whatever was lost or *)
(* late before and whatever the master forgot (CRegister::Update, OnToken, *)
(* CheckChallengeStatus, CJob::Run; handle_register).                      *)
THEOREM ListedTheorem == Spec => []ListedSoon
<1>1. BaseInv /\ CalmInv => ListedSoon
  <2> SUFFICES ASSUME BaseInv, CalmInv, up, calm > Period, NEW p \in enabled
               PROVE  Listed(p)
    BY DEF ListedSoon
  <2>1. calm > 0
    BY RegisterAssumption DEF BaseInv, TypeOK
  <2>2. Timely(p)
    BY <2>1 DEF CalmInv
  <2> QED BY <2>2 DEF Timely, Refreshed
<1> QED BY <1>1, CalmAlways, PTL

(* Once it has been calm for longer than the time-out the master lists the *)
(* addresses of the protocols that are enabled, and after a stop none,     *)
(* though no delete may have been sent, or one that a register overtook    *)
(* (SendDeleteIfRegistered, handle_delete, prune_before).                  *)
THEOREM GoneTheorem == Spec => []GoneSoon
<1>1. BaseInv /\ CalmInv => GoneSoon
  <2> SUFFICES ASSUME BaseInv, CalmInv, calm > Timeout
               PROVE  DOMAIN list.addresses = IF up THEN enabled ELSE {}
    BY DEF GoneSoon
  <2>1. calm \in Nat /\ Timeout \in Nat /\ Period \in Nat /\ Period < Timeout
    BY RegisterAssumption, RatioAssumption DEF BaseInv, TypeOK
  <2>2. calm > 0 /\ calm > Period
    BY <2>1
  <2>3. Leaving /\ (up => \A p \in enabled : Timely(p))
    BY <2>2 DEF CalmInv
  <2>4. ASSUME NEW a \in DOMAIN list.addresses
        PROVE  up /\ a \in enabled
    <3>1. list.addresses[a].age \in 0 .. Timeout
      BY DEF BaseInv, ListsInv, Sound
    <3>2. ~ list.addresses[a].age >= calm
      BY <2>1, <3>1
    <3> QED BY <2>3, <3>2 DEF Leaving
  <2>5. ASSUME up, NEW p \in enabled
        PROVE  p \in DOMAIN list.addresses
    BY <2>2, <2>3, <2>5 DEF Timely, Refreshed, Listed
  <2> QED BY <2>4, <2>5
<1> QED BY <1>1, CalmAlways, PTL
=============================================================================

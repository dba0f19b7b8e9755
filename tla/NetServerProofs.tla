-------------------------- MODULE NetServerProofs --------------------------
(***************************************************************************)
(* However many clients, slots and attempts there are: an address has one  *)
(* slot that is online, and the server has a client state for exactly the  *)
(* slots that are not offline.                                             *)
(***************************************************************************)
EXTENDS NetServer, FiniteSetTheorems, TLAPS

(* Min and Max, which the server takes of sets of slots, are in the set.   *)
LEMMA MinInSet ==
  ASSUME NEW S \in SUBSET Nat, S # {}
  PROVE  Min(S) \in S /\ \A y \in S : Min(S) <= y
<1> DEFINE T == {0 .. x : x \in S}
<1>1. T \subseteq FiniteSubsetsOf(Nat) /\ T # {}
  <2>1. \A x \in S : 0 .. x \in SUBSET Nat /\ IsFiniteSet(0 .. x)
    BY FS_Interval
  <2>2. \A x \in S : 0 .. x \in FiniteSubsetsOf(Nat)
    BY <2>1 DEF FiniteSubsetsOf
  <2> QED BY <2>2
<1>2. PICK t \in T : \A u \in T : ~ (<<u, t>> \in StrictSubsetOrdering(Nat))
  BY <1>1, FS_StrictSubsetOrderingWellFounded, WFMin
<1>3. PICK x \in S : t = 0 .. x
  OBVIOUS
<1>4. ASSUME NEW y \in S, ~ x <= y
      PROVE  FALSE
  <2>1. 0 .. y \in T /\ 0 .. y \subseteq 0 .. x
    BY <1>4
  <2>2. 0 .. y # 0 .. x
    <3>1. x \in 0 .. x /\ x \notin 0 .. y
      BY <1>4
    <3> QED BY <3>1
  <2>3. 0 .. y \in SUBSET Nat /\ 0 .. x \in SUBSET Nat
    OBVIOUS
  <2>4. <<0 .. y, t>> \in StrictSubsetOrdering(Nat)
    BY <1>3, <2>1, <2>2, <2>3 DEF StrictSubsetOrdering
  <2> QED BY <1>2, <2>1, <2>4
<1>5. \A y \in S : x <= y
  BY <1>4
<1> QED BY <1>5 DEF Min

LEMMA MaxInSet ==
  ASSUME NEW n \in Nat, NEW S \in SUBSET (0 .. n), S # {}
  PROVE  Max(S) \in S
<1> DEFINE T == {n - x : x \in S}
<1>1. T \in SUBSET Nat /\ T # {}
  <2>1. \A x \in S : n - x \in Nat
    OBVIOUS
  <2> QED BY <2>1
<1>2. Min(T) \in T /\ \A u \in T : Min(T) <= u
  BY <1>1, MinInSet
<1>4. PICK x \in S : Min(T) = n - x
  BY <1>2
<1>5. \A y \in S : x >= y
  <2> TAKE y \in S
  <2>1. n - y \in T
    OBVIOUS
  <2>2. n - x <= n - y
    BY <1>2, <1>4, <2>1
  <2> QED BY <2>2
<1> QED BY <1>5 DEF Max

LEMMA ClientSlot ==
  ASSUME NEW a, SlotsOf(a) # {}
  PROVE  GetClientSlot(a) \in Slots /\ conn[GetClientSlot(a)].state = "online"
                                    /\ conn[GetClientSlot(a)].peer = a
<1>1. MaxClients - 1 \in Nat
  BY NetServerAssumption
<1>2. GetClientSlot(a) \in SlotsOf(a)
  BY <1>1, MaxInSet DEF GetClientSlot, SlotsOf, Slots
<1> QED BY <1>2 DEF SlotsOf

LEMMA FirstFree ==
  ASSUME FreeSlots # {}
  PROVE  Min(FreeSlots) \in Slots /\ conn[Min(FreeSlots)].state = "offline"
BY MinInSet DEF FreeSlots, Slots

LEMMA FirstClaimable ==
  ASSUME NEW i, NEW c, Claimable(i, c) # {}
  PROVE  /\ Min(Claimable(i, c)) \in Slots \ {i}
         /\ game[Min(Claimable(i, c))] = "playing"
         /\ conn[Min(Claimable(i, c))].state = "error"
BY MinInSet DEF Claimable, Slots

----------------------------------------------------------------------------
(* What a packet that is sent does to the network.                         *)
MsgType == [type : Types, addr : Addrs, try : Nat]

LEMMA SendType ==
  ASSUME NEW S, S \subseteq MsgType, net \subseteq MsgType,
         Send(S) \/ (\E m : Answer(m, S))
  PROVE  net' \subseteq MsgType
BY DEF Send, Answer, Put

LEMMA MsgsTyped ==
  ASSUME NetTypeOK
  PROVE  /\ \A a \in Addrs, t \in Types : Msg(t, a) \in MsgType
         /\ \A a \in Addrs : Accept(a) \in MsgType
         /\ "connect" \in Types /\ "connectaccept" \in Types
         /\ "accept" \in Types /\ "close" \in Types /\ "closed" \in Types
BY DEF NetTypeOK, Msg, Accept, MsgType, Types

IndInv == NetTypeOK /\ OneSlot /\ ClientIffConnection

LEMMA OfflineType == Offline \in Conn
BY DEF Offline, Conn

LEMMA OnlineType ==
  ASSUME NEW a \in Addrs, NEW n \in Nat
  PROVE  /\ Online(a, n) \in Conn
         /\ Online(a, n).state = "online"
         /\ Online(a, n).peer = a
BY DEF Online, Offline, Conn

LEMMA Initially == Init => IndInv
<1> SUFFICES ASSUME Init PROVE IndInv
  OBVIOUS
<1> QED
  BY OfflineType DEF Init, IndInv, NetTypeOK, OneSlot, ClientIffConnection,
                     Offline

(* A step that leaves the slots alone. *)
LEMMA SlotsAlone ==
  ASSUME IndInv, UNCHANGED <<conn, game, code>>,
         cst' \in [Addrs -> {"offline", "connect", "online"}],
         try' \in [Addrs -> Nat], talked' \in [Addrs -> BOOLEAN],
         net' \subseteq MsgType
  PROVE  IndInv'
BY DEF IndInv, NetTypeOK, OneSlot, ClientIffConnection, MsgType

LEMMA ClientSteps ==
  ASSUME IndInv, NEW a \in Addrs, ClientStep(a)
  PROVE  IndInv'
<1> USE DEF IndInv
<1>0. net \subseteq MsgType
  BY DEF NetTypeOK, MsgType
<1>1. CASE Connect(a)
  <2>1. net' \subseteq MsgType
    BY <1>0, <1>1, MsgsTyped, SendType DEF Connect
  <2> QED BY <1>1, <2>1, SlotsAlone DEF Connect, NetTypeOK
<1>2. CASE ResendConnect(a)
  <2>1. net' \subseteq MsgType
    BY <1>0, <1>2, MsgsTyped, SendType DEF ResendConnect
  <2> QED BY <1>2, <2>1, SlotsAlone DEF ResendConnect, NetTypeOK
<1>3. CASE OnConnectAccept(a)
  <2>1. net' \subseteq MsgType
    BY <1>0, <1>3, MsgsTyped, SendType DEF OnConnectAccept
  <2> QED BY <1>3, <2>1, SlotsAlone DEF OnConnectAccept, NetTypeOK
<1>4. CASE OnClosed(a)
  BY <1>0, <1>4, SlotsAlone DEF OnClosed, GoOffline, NetTypeOK
<1>5. CASE ClientTimeout(a)
  BY <1>0, <1>5, SlotsAlone DEF ClientTimeout, GoOffline, NetTypeOK
<1>6. CASE Quit(a)
  <2>1. net' \subseteq MsgType
    BY <1>0, <1>6, MsgsTyped, SendType DEF Quit
  <2> QED BY <1>6, <2>1, SlotsAlone DEF Quit, GoOffline, NetTypeOK
<1> QED BY <1>1, <1>2, <1>3, <1>4, <1>5, <1>6 DEF ClientStep

----------------------------------------------------------------------------
LEMMA Accepting ==
  ASSUME IndInv, NEW m \in net, OnAccept(m)
  PROVE  IndInv'
<1> USE DEF IndInv
<1>0. m \in MsgType /\ m.addr \in Addrs /\ Numbers(m) \in Nat
  BY DEF NetTypeOK, MsgType, Numbers
<1>1. CASE Rejoin(m)
  <2> DEFINE k == GetClientSlot(m.addr)
  <2>1. /\ k \in Slots
        /\ conn' = [conn EXCEPT ![k].try = Numbers(m),
                                ![k].remoteClosed = FALSE]
        /\ UNCHANGED <<cst, try, talked, game, code, net>>
    BY <1>1, ClientSlot DEF Rejoin
  <2>2. \A i \in Slots : conn'[i].state = conn[i].state
                         /\ conn'[i].peer = conn[i].peer
    BY <2>1 DEF NetTypeOK, Conn
  <2>3. conn' \in [Slots -> Conn]
    BY <1>0, <2>1 DEF NetTypeOK, Conn
  <2> QED BY <2>1, <2>2, <2>3 DEF NetTypeOK, OneSlot, ClientIffConnection
<1>2. CASE TryAcceptClient(m)
  <2> DEFINE k == Min(FreeSlots)
  <2>1. /\ k \in Slots /\ conn[k].state = "offline"
        /\ conn' = [conn EXCEPT ![k] = Online(m.addr, Numbers(m))]
        /\ game' = [game EXCEPT ![k] = "joining"]
        /\ UNCHANGED <<cst, try, talked, code, net>>
    BY <1>2, FirstFree DEF TryAcceptClient
  <2>2. /\ Online(m.addr, Numbers(m)) \in Conn
        /\ Online(m.addr, Numbers(m)).state = "online"
        /\ Online(m.addr, Numbers(m)).peer = m.addr
    BY <1>0, OnlineType
  <2>3. \A i \in Slots : conn[i].state = "online" => conn[i].peer # m.addr
    BY <1>2 DEF TryAcceptClient, SlotsOf
  <2>4. NetTypeOK'
    BY <1>0, <2>1, <2>2, NetServerAssumption DEF NetTypeOK
  <2>5. OneSlot'
    BY <2>1, <2>2, <2>3 DEF OneSlot, NetTypeOK
  <2>6. ClientIffConnection'
    BY <2>1, <2>2 DEF ClientIffConnection, NetTypeOK
  <2> QED BY <2>4, <2>5, <2>6
<1>3. CASE Refuse(m)
  <2>1. net' \subseteq MsgType
    BY <1>0, <1>3, MsgsTyped, SendType DEF Refuse, NetTypeOK, MsgType
  <2> QED BY <1>3, <2>1, SlotsAlone DEF Refuse, NetTypeOK
<1> QED BY <1>1, <1>2, <1>3 DEF OnAccept

LEMMA Closing ==
  ASSUME IndInv, NEW a \in Addrs, OnClose(a)
  PROVE  IndInv'
<1> USE DEF IndInv
<1> DEFINE k == GetClientSlot(a)
<1>1. /\ k \in Slots /\ conn[k].state = "online"
      /\ conn' = [conn EXCEPT ![k].state = "error", ![k].remoteClosed = TRUE]
      /\ UNCHANGED <<cst, try, talked, game, code, net>>
  BY ClientSlot DEF OnClose
<1> HIDE DEF k
<1>a. conn[k] \in Conn
  BY <1>1 DEF NetTypeOK
<1>b. conn' = [conn EXCEPT ![k] = [conn[k] EXCEPT !.state = "error",
                                                 !.remoteClosed = TRUE]]
  BY <1>1 DEF NetTypeOK
<1>c. [conn[k] EXCEPT !.state = "error", !.remoteClosed = TRUE] \in Conn
  BY <1>a DEF Conn
<1>2. /\ conn' \in [Slots -> Conn]
      /\ conn'[k].state = "error"
      /\ \A i \in Slots : conn'[i].peer = conn[i].peer
      /\ \A i \in Slots \ {k} : conn'[i].state = conn[i].state
  BY <1>1, <1>a, <1>b, <1>c DEF NetTypeOK, Conn
<1> QED BY <1>1, <1>2 DEF NetTypeOK, OneSlot, ClientIffConnection

LEMMA Entering ==
  ASSUME IndInv, NEW i \in Slots, EnterGame(i)
  PROVE  IndInv'
BY DEF IndInv, EnterGame, InStep, NetTypeOK, OneSlot, ClientIffConnection

(* /timeout: the slot that is taken over gets the peer of the slot that is *)
(* given up in the same step.                                              *)
LEMMA TimeoutCommand ==
  ASSUME IndInv, NEW i \in Slots, ConTimeout(i)
  PROVE  IndInv'
<1> USE DEF IndInv
<1>0. /\ conn[i].state = "online" /\ game[i] = "playing"
      /\ conn[i].peer \in Addrs /\ conn[i].try \in Nat
      /\ UNCHANGED <<cst, try, talked, net>>
  BY DEF ConTimeout, InStep, NetTypeOK, Conn
<1>1. PICK c \in {Code[conn[i].peer], NoCode} :
        LET J == Claimable(i, IF c = NoCode THEN code[i] ELSE c)
        IN IF J # {} THEN TakeOver(i, Min(J)) ELSE Protect(i, c)
  BY DEF ConTimeout
<1>2. CASE \E j \in Slots \ {i} :
             conn[j].state = "error" /\ game[j] = "playing" /\ TakeOver(i, j)
  <2>1. PICK j \in Slots \ {i} :
          conn[j].state = "error" /\ game[j] = "playing" /\ TakeOver(i, j)
    BY <1>2
  <2> DEFINE r == [conn[j] EXCEPT !.state = "online", !.peer = conn[i].peer,
                                  !.try = conn[i].try, !.remoteClosed = FALSE]
  <2>a. r \in Conn /\ r.state = "online" /\ r.peer = conn[i].peer
    BY <1>0 DEF NetTypeOK, Conn
  <2>b. conn' = [conn EXCEPT ![j] = r, ![i] = Offline]
    BY <2>1 DEF TakeOver
  <2> HIDE DEF r
  <2>2. /\ conn' \in [Slots -> Conn]
        /\ conn'[i] = Offline
        /\ conn'[j].state = "online" /\ conn'[j].peer = conn[i].peer
        /\ \A k \in Slots \ {i, j} : conn'[k] = conn[k]
    BY <2>a, <2>b, OfflineType DEF NetTypeOK
  <2>3. Offline.state = "offline" /\ Offline.peer = NoAddr
    BY DEF Offline
  <2>4. /\ game' = [game EXCEPT ![i] = "empty"]
        /\ code' = [code EXCEPT ![i] = NoCode]
    BY <2>1 DEF TakeOver
  <2>5. NetTypeOK'
    BY <1>0, <2>1, <2>2, <2>3, <2>4, NetServerAssumption DEF NetTypeOK
  <2>6. OneSlot'
    BY <1>0, <2>1, <2>2, <2>3 DEF OneSlot
  <2>7. ClientIffConnection'
    BY <2>1, <2>2, <2>3, <2>4 DEF ClientIffConnection, NetTypeOK
  <2> QED BY <2>5, <2>6, <2>7
<1>3. CASE Protect(i, c)
  <2>1. /\ conn' \in [Slots -> Conn]
        /\ \A k \in Slots : conn'[k].state = conn[k].state
                            /\ conn'[k].peer = conn[k].peer
    BY <1>3 DEF Protect, NetTypeOK, Conn
  <2>2. code' \in [Slots -> {Code[a] : a \in Addrs} \cup {NoCode}]
    BY <1>0, <1>3 DEF Protect, NetTypeOK
  <2> QED BY <1>0, <1>3, <2>1, <2>2
          DEF Protect, NetTypeOK, OneSlot, ClientIffConnection
<1> QED BY <1>1, <1>2, <1>3, FirstClaimable

----------------------------------------------------------------------------
(* Drop: the slots that are dropped go with their clients, the others keep *)
(* their peers and come no nearer to a session than they were.             *)
LEMMA Dropping ==
  ASSUME IndInv, NEW D \in SUBSET Slots, NEW c \in [Slots -> Conn],
         \A i \in Slots : c[i].peer = conn[i].peer,
         \A i \in Slots : c[i].state = "offline" <=> conn[i].state = "offline",
         \A i \in Slots : c[i].state = "online" => conn[i].state = "online",
         \A i \in D : conn[i].state # "offline",
         Drop(D, c), UNCHANGED clientVars
  PROVE  IndInv'
<1> USE DEF IndInv
<1>1. /\ conn' \in [Slots -> Conn]
      /\ \A i \in D : conn'[i].state = "offline" /\ conn'[i].peer = NoAddr
      /\ \A i \in Slots \ D : conn'[i] = c[i]
  BY OfflineType DEF Drop, Offline
<1>2. /\ game' \in [Slots -> {"empty", "joining", "playing"}]
      /\ \A i \in D : game'[i] = "empty"
      /\ \A i \in Slots \ D : game'[i] = game[i]
  BY DEF Drop, NetTypeOK
<1>3. code' \in [Slots -> {Code[a] : a \in Addrs} \cup {NoCode}]
  BY DEF Drop, NetTypeOK
<1>4. net' \subseteq MsgType
  <2> DEFINE S == {Msg("closed", c[i].peer) :
                     i \in {k \in D : ~c[k].remoteClosed /\ ~c[k].situation}}
  <2>1. \A i \in D : c[i].peer \in Addrs
    BY DEF NetTypeOK, Conn
  <2>2. S \subseteq MsgType
    BY <2>1, MsgsTyped
  <2>3. Send(S)
    BY DEF Drop
  <2> QED BY <2>2, <2>3, SendType DEF NetTypeOK, MsgType
<1>5. NetTypeOK'
  BY <1>1, <1>2, <1>3, <1>4 DEF NetTypeOK, MsgType, clientVars
<1>6. OneSlot'
  BY <1>1 DEF OneSlot
<1>7. ClientIffConnection'
  BY <1>1, <1>2 DEF ClientIffConnection
<1> QED BY <1>5, <1>6, <1>7

LEMMA Kicking ==
  ASSUME IndInv, NEW i \in Slots, Kick(i)
  PROVE  IndInv'
BY Dropping DEF IndInv, Kick, ClientIffConnection, NetTypeOK

(* CNetConnection::Update keeps the peer and never brings a slot online. *)
LEMMA UpdatedConn ==
  ASSUME IndInv, NEW i \in Slots, NEW Due
  PROVE  LET u == Updated(i, i \in Due)
         IN /\ u \in Conn
            /\ u.peer = conn[i].peer
            /\ u.state = "offline" <=> conn[i].state = "offline"
            /\ u.state = "online" => conn[i].state = "online"
<1> DEFINE u == Updated(i, i \in Due)
<1>0. conn[i] \in Conn
  BY DEF IndInv, NetTypeOK
<1>1. CASE conn[i].state = "offline"
  BY <1>0, <1>1 DEF Updated
<1>2. CASE conn[i].state = "error"
  BY <1>0, <1>2 DEF Updated, Conn
<1>3. CASE conn[i].state = "online"
  <2>1. u = [conn[i] EXCEPT !.state = IF i \in Due THEN "error" ELSE @,
                               !.situation = (i \in Due)]
    BY <1>0, <1>3 DEF Updated
  <2>2. CASE i \in Due
    <3>1. u = [conn[i] EXCEPT !.state = "error", !.situation = TRUE]
      BY <2>1, <2>2
    <3> QED BY <1>0, <1>3, <3>1 DEF Conn
  <2>3. CASE i \notin Due
    <3>0. (i \in Due) = FALSE
      BY <2>3
    <3>1. u = [conn[i] EXCEPT !.state = conn[i].state, !.situation = FALSE]
      BY <2>1, <3>0
    <3> QED BY <1>0, <1>3, <3>1 DEF Conn
  <2> QED BY <2>2, <2>3
<1> QED BY <1>0, <1>1, <1>2, <1>3 DEF Conn

LEMMA Updating ==
  ASSUME IndInv, NEW Due \in SUBSET Slots, Update(Due)
  PROVE  IndInv'
<1> DEFINE c == [i \in Slots |-> Updated(i, i \in Due)]
           D == {i \in Slots : MustDrop(c[i])}
<1>1. ASSUME NEW i \in Slots
      PROVE  /\ c[i] \in Conn
             /\ c[i].peer = conn[i].peer
             /\ c[i].state = "offline" <=> conn[i].state = "offline"
             /\ c[i].state = "online" => conn[i].state = "online"
  BY UpdatedConn
<1>2. c \in [Slots -> Conn]
  <2> HIDE DEF c
  <2>1. c = [i \in Slots |-> c[i]]
    BY DEF c
  <2> QED BY <1>1, <2>1
<1>3. ASSUME NEW i \in D
      PROVE  conn[i].state # "offline"
  <2>1. i \in Slots /\ c[i].state = "error"
    BY DEF MustDrop
  <2> HIDE DEF c
  <2> QED BY <1>1, <2>1
<1>4. Drop(D, c) /\ UNCHANGED clientVars
  BY DEF Update
<1> HIDE DEF c, D
<1>5. D \in SUBSET Slots
  BY DEF D
<1>6. \A i \in Slots : /\ c[i].peer = conn[i].peer
                       /\ c[i].state = "offline" <=> conn[i].state = "offline"
                       /\ c[i].state = "online" => conn[i].state = "online"
  BY <1>1
<1> QED BY <1>2, <1>3, <1>4, <1>5, <1>6, Dropping

LEMMA Reloading ==
  ASSUME IndInv, MapReload
  PROVE  IndInv'
BY DEF IndInv, MapReload, NetTypeOK, OneSlot, ClientIffConnection

----------------------------------------------------------------------------
LEMMA Inductive == IndInv /\ [Next]_vars => IndInv'
<1> SUFFICES ASSUME IndInv, [Next]_vars PROVE IndInv'
  OBVIOUS
<1>0. net \subseteq MsgType
  BY DEF IndInv, NetTypeOK, MsgType
<1>1. ASSUME NEW a \in Addrs, ClientStep(a) PROVE IndInv'
  BY <1>1, ClientSteps
<1>2. CASE ServerStep
  <2>1. ASSUME NEW a \in Addrs, OnConnect(a) PROVE IndInv'
    <3>1. net' \subseteq MsgType
      BY <1>0, <2>1, MsgsTyped, SendType DEF OnConnect, IndInv
    <3> QED BY <2>1, <3>1, SlotsAlone DEF OnConnect, IndInv, NetTypeOK
  <2>2. ASSUME NEW a \in Addrs, OnClose(a) PROVE IndInv'
    BY <2>2, Closing
  <2>3. ASSUME NEW m \in net, OnAccept(m) PROVE IndInv'
    BY <2>3, Accepting
  <2>4. ASSUME NEW i \in Slots, Talk(i) PROVE IndInv'
    BY <1>0, <2>4, SlotsAlone DEF Talk, IndInv, NetTypeOK
  <2>5. ASSUME NEW i \in Slots, EnterGame(i) PROVE IndInv'
    BY <2>5, Entering
  <2>6. ASSUME NEW i \in Slots, ConTimeout(i) PROVE IndInv'
    BY <2>6, TimeoutCommand
  <2>7. ASSUME NEW i \in Slots, Kick(i) PROVE IndInv'
    BY <2>7, Kicking
  <2>8. ASSUME NEW Due \in SUBSET Timed, Update(Due) PROVE IndInv'
    BY <2>8, Updating DEF Timed
  <2>9. CASE MapReload
    BY <2>9, Reloading
  <2> QED BY <1>2, <2>1, <2>2, <2>3, <2>4, <2>5, <2>6, <2>7, <2>8, <2>9
          DEF ServerStep
<1>3. ASSUME NEW m \in net, Lose(m) PROVE IndInv'
  BY <1>0, <1>3, SlotsAlone DEF Lose, IndInv, NetTypeOK
<1>4. CASE UNCHANGED vars
  BY <1>0, <1>4, SlotsAlone DEF vars, IndInv, NetTypeOK
<1> QED BY <1>1, <1>2, <1>3, <1>4 DEF Next

----------------------------------------------------------------------------
(* The limit of slots per host.                                            *)
HeldBy(h) == {i \in Slots : Held(i) /\ Host[conn[i].peer] = h}

LEMMA HeldFinite ==
  ASSUME NEW h
  PROVE  /\ IsFiniteSet(HeldBy(h)) /\ Cardinality(HeldBy(h)) \in Nat
         /\ IsFiniteSet(HeldBy(h)') /\ Cardinality(HeldBy(h)') \in Nat
<1>1. IsFiniteSet(Slots)
  BY FS_Interval, NetServerAssumption DEF Slots
<1>2. HeldBy(h) \subseteq Slots /\ HeldBy(h)' \subseteq Slots
  BY DEF HeldBy
<1> QED BY <1>1, <1>2, FS_Subset, FS_CardinalityType

LEMMA AddOne ==
  ASSUME NEW S, IsFiniteSet(S), NEW x
  PROVE  /\ IsFiniteSet(S \cup {x}) /\ Cardinality(S \cup {x}) \in Nat
         /\ Cardinality(S \cup {x}) <= Cardinality(S) + 1
<1>1. IsFiniteSet(S \cup {x}) /\ Cardinality(S) \in Nat
  BY FS_AddElement, FS_CardinalityType
<1>2. CASE x \in S
  <2>1. S \cup {x} = S
    BY <1>2
  <2> QED BY <1>1, <2>1
<1>3. CASE x \notin S
  <2>1. Cardinality(S \cup {x}) = Cardinality(S) + 1
    BY <1>3, FS_AddElement
  <2> QED BY <1>1, <2>1
<1> QED BY <1>2, <1>3

(* What is counted is what is held. *)
LEMMA CountedIsHeld ==
  ASSUME IndInv, NEW h
  PROVE  NumClientsWithAddr(h) = Cardinality(HeldBy(h))
<1>1. \A i \in Slots : conn[i].state = "online" \/ Waiting(i) <=> Held(i)
  BY DEF IndInv, NetTypeOK, Conn, Waiting, Held, MustDrop
<1> QED BY <1>1 DEF NumClientsWithAddr, HeldBy

LEMMA Limit ==
  /\ PerHostLimit <=> \A a \in Addrs : Cardinality(HeldBy(Host[a])) <= MaxPerIP
  /\ PerHostLimit' <=>
       \A a \in Addrs : Cardinality(HeldBy(Host[a])') <= MaxPerIP
BY DEF PerHostLimit, HeldBy

(* A step after which nobody holds a slot more. *)
LEMMA NoneMore ==
  ASSUME PerHostLimit,
         \A i \in Slots : Held(i)' => Held(i) /\ conn'[i].peer = conn[i].peer
  PROVE  PerHostLimit'
<1> SUFFICES ASSUME NEW a \in Addrs
             PROVE  Cardinality(HeldBy(Host[a])') <= MaxPerIP
  BY Limit
<1>1. HeldBy(Host[a])' \subseteq HeldBy(Host[a])
  BY DEF HeldBy
<1>2. Cardinality(HeldBy(Host[a])') <= Cardinality(HeldBy(Host[a]))
  BY <1>1, HeldFinite, FS_Subset
<1> QED BY <1>2, HeldFinite, Limit, NetServerAssumption

LEMMA LimitAccepting ==
  ASSUME IndInv, PerHostLimit, NEW m \in net, TryAcceptClient(m)
  PROVE  PerHostLimit'
<1> SUFFICES ASSUME NEW a \in Addrs
             PROVE  Cardinality(HeldBy(Host[a])') <= MaxPerIP
  BY Limit
<1> DEFINE k == Min(FreeSlots)
<1>1. m.addr \in Addrs /\ Numbers(m) \in Nat
  BY DEF IndInv, NetTypeOK, Numbers
<1>2. k \in Slots /\ conn[k].state = "offline"
  BY FirstFree DEF TryAcceptClient
<1> HIDE DEF k
<1>3. conn' = [conn EXCEPT ![k] = Online(m.addr, Numbers(m))]
  BY DEF TryAcceptClient, k
<1>4. /\ conn'[k].peer = m.addr
      /\ \A i \in Slots \ {k} : conn'[i] = conn[i]
  BY <1>1, <1>2, <1>3, OnlineType DEF IndInv, NetTypeOK
<1>5. HeldBy(Host[a])' \subseteq HeldBy(Host[a]) \cup {k}
  BY <1>4 DEF HeldBy, Held, MustDrop
<1>6. CASE Host[a] = Host[m.addr]
  <2>1. Cardinality(HeldBy(Host[a])) + 1 <= MaxPerIP
    BY <1>6, CountedIsHeld DEF TryAcceptClient
  <2>2. /\ IsFiniteSet(HeldBy(Host[a]) \cup {k})
        /\ Cardinality(HeldBy(Host[a]) \cup {k})
             <= Cardinality(HeldBy(Host[a])) + 1
    BY HeldFinite, AddOne
  <2>3. Cardinality(HeldBy(Host[a])')
          <= Cardinality(HeldBy(Host[a]) \cup {k})
    BY <1>5, <2>2, FS_Subset
  <2>4. Cardinality(HeldBy(Host[a]) \cup {k}) \in Nat
    BY <2>2, FS_CardinalityType
  <2> QED BY <2>1, <2>2, <2>3, <2>4, HeldFinite, NetServerAssumption
<1>7. CASE Host[a] # Host[m.addr]
  <2>1. HeldBy(Host[a])' \subseteq HeldBy(Host[a])
    BY <1>4, <1>5, <1>7 DEF HeldBy
  <2>2. Cardinality(HeldBy(Host[a])') <= Cardinality(HeldBy(Host[a]))
    BY <2>1, HeldFinite, FS_Subset
  <2> QED BY <2>2, HeldFinite, Limit, NetServerAssumption
<1> QED BY <1>6, <1>7

(* A hand-over moves what a host holds from one slot to another.           *)
LEMMA LimitTakingOver ==
  ASSUME IndInv, PerHostLimit, NEW i \in Slots, NEW j \in Slots \ {i},
         conn[i].state = "online", TakeOver(i, j)
  PROVE  PerHostLimit'
<1> SUFFICES ASSUME NEW a \in Addrs
             PROVE  Cardinality(HeldBy(Host[a])') <= MaxPerIP
  BY Limit
<1> DEFINE H == HeldBy(Host[a])
           r == [conn[j] EXCEPT !.state = "online", !.peer = conn[i].peer,
                                !.try = conn[i].try, !.remoteClosed = FALSE]
<1>1. conn' = [conn EXCEPT ![j] = r, ![i] = Offline]
  BY DEF TakeOver
<1>2. r.peer = conn[i].peer
  BY DEF IndInv, NetTypeOK, Conn
<1> HIDE DEF r
<1>3. /\ conn'[i] = Offline /\ conn'[j].peer = conn[i].peer
      /\ \A k \in Slots \ {i, j} : conn'[k] = conn[k]
  BY <1>1, <1>2 DEF IndInv, NetTypeOK
<1>4. i \notin H'
  BY <1>3 DEF HeldBy, Held, Offline
<1>5. CASE i \in H
  <2>1. H' \subseteq (H \ {i}) \cup {j}
    BY <1>3, <1>4 DEF HeldBy, Held, MustDrop
  <2> HIDE DEF H
  <2>2. IsFiniteSet(H) /\ Cardinality(H) \in Nat
    BY HeldFinite DEF H
  <2>3. IsFiniteSet(H \ {i}) /\ Cardinality(H \ {i}) = Cardinality(H) - 1
    BY <1>5, <2>2, FS_RemoveElement
  <2>4. /\ IsFiniteSet((H \ {i}) \cup {j})
        /\ Cardinality((H \ {i}) \cup {j}) <= Cardinality(H \ {i}) + 1
    BY <2>3, AddOne
  <2>5. Cardinality((H \ {i}) \cup {j}) \in Nat
    BY <2>4, FS_CardinalityType
  <2>6. Cardinality(H') <= Cardinality((H \ {i}) \cup {j})
    BY <2>1, <2>4, FS_Subset
  <2>7. Cardinality(H) <= MaxPerIP /\ Cardinality(H') \in Nat
    BY Limit, HeldFinite DEF H
  <2>8. Cardinality(H') <= MaxPerIP
    BY <2>2, <2>3, <2>4, <2>5, <2>6, <2>7, NetServerAssumption
  <2> QED BY <2>8 DEF H
<1>6. CASE i \notin H
  <2>1. Host[conn[i].peer] # Host[a]
    BY <1>6 DEF HeldBy, Held, MustDrop
  <2>2. H' \subseteq H
    BY <1>3, <1>4, <2>1 DEF HeldBy, Held, MustDrop
  <2>3. Cardinality(H') <= Cardinality(H)
    BY <2>2, HeldFinite, FS_Subset
  <2> QED BY <2>3, HeldFinite, Limit, NetServerAssumption
<1> QED BY <1>5, <1>6

LEMMA LimitDropping ==
  ASSUME IndInv, PerHostLimit, NEW D \in SUBSET Slots, NEW c \in [Slots -> Conn],
         \A i \in Slots \ D : c[i].peer = conn[i].peer,
         \A i \in Slots \ D : c[i].state # "offline" /\ ~MustDrop(c[i]) => Held(i),
         Drop(D, c)
  PROVE  PerHostLimit'
<1>1. /\ \A i \in D : conn'[i].state = "offline"
      /\ \A i \in Slots \ D : conn'[i] = c[i]
  BY DEF Drop, Offline
<1>2. ASSUME NEW i \in Slots, Held(i)'
      PROVE  Held(i) /\ conn'[i].peer = conn[i].peer
  <2>1. conn'[i].state # "offline" /\ ~MustDrop(conn'[i])
    BY <1>2 DEF Held, MustDrop
  <2> QED BY <1>1, <2>1
<1> QED BY <1>2, NoneMore

LEMMA LimitUpdating ==
  ASSUME IndInv, PerHostLimit, NEW Due \in SUBSET Slots, Update(Due)
  PROVE  PerHostLimit'
<1> DEFINE c == [i \in Slots |-> Updated(i, i \in Due)]
           D == {i \in Slots : MustDrop(c[i])}
<1>1. ASSUME NEW i \in Slots
      PROVE  /\ c[i] \in Conn /\ c[i].peer = conn[i].peer
             /\ c[i].state # "offline" /\ ~MustDrop(c[i]) => Held(i)
  <2>0. conn[i] \in Conn /\ c[i] = Updated(i, i \in Due)
    BY DEF IndInv, NetTypeOK
  <2> HIDE DEF c
  <2>1. CASE conn[i].state = "offline"
    BY <2>0, <2>1 DEF Updated
  <2>2. CASE conn[i].state = "error"
    <3>1. c[i] = [conn[i] EXCEPT !.situation = @ /\ ~ (i \in Due)]
      BY <2>0, <2>2 DEF Updated
    <3>2. CASE i \in Due
      <4>1. c[i] = [conn[i] EXCEPT !.situation = FALSE]
        BY <3>1, <3>2
      <4> QED BY <2>0, <2>2, <4>1 DEF Conn, Held, MustDrop
    <3>3. CASE i \notin Due
      <4>1. c[i] = [conn[i] EXCEPT !.situation = conn[i].situation]
        BY <2>0, <3>1, <3>3 DEF Conn
      <4> QED BY <2>0, <2>2, <4>1 DEF Conn, Held, MustDrop
    <3> QED BY <3>2, <3>3
  <2>3. CASE conn[i].state = "online"
    <3>1. Held(i)
      BY <2>3 DEF Held, MustDrop
    <3>2. c[i] \in Conn /\ c[i].peer = conn[i].peer
      BY UpdatedConn DEF c
    <3> QED BY <3>1, <3>2
  <2> QED BY <2>0, <2>1, <2>2, <2>3 DEF Conn
<1>2. Drop(D, c)
  BY DEF Update
<1> HIDE DEF c
<1>3. c \in [Slots -> Conn]
  <2>1. c = [i \in Slots |-> c[i]]
    BY DEF c
  <2> QED BY <1>1, <2>1
<1> QED BY <1>1, <1>2, <1>3, LimitDropping

LEMMA LimitInductive == IndInv /\ PerHostLimit /\ [Next]_vars => PerHostLimit'
<1> SUFFICES ASSUME IndInv, PerHostLimit, [Next]_vars PROVE PerHostLimit'
  OBVIOUS
<1>0. ASSUME UNCHANGED conn PROVE PerHostLimit'
  BY <1>0, NoneMore DEF Held, MustDrop
<1>1. ASSUME NEW a \in Addrs, ClientStep(a) PROVE PerHostLimit'
  BY <1>0, <1>1 DEF ClientStep, Connect, ResendConnect, OnConnectAccept,
                    OnClosed, ClientTimeout, Quit, GoOffline
<1>2. CASE ServerStep
  <2>1. ASSUME NEW a \in Addrs, OnConnect(a) PROVE PerHostLimit'
    BY <1>0, <2>1 DEF OnConnect
  <2>2. ASSUME NEW a \in Addrs, OnClose(a) PROVE PerHostLimit'
    <3> DEFINE k == GetClientSlot(a)
    <3>1. /\ k \in Slots /\ conn[k].state = "online"
          /\ conn' = [conn EXCEPT ![k].state = "error", ![k].remoteClosed = TRUE]
      BY <2>2, ClientSlot DEF OnClose
    <3> HIDE DEF k
    <3>2. Held(k) /\ conn'[k].peer = conn[k].peer
      BY <3>1 DEF Held, MustDrop, IndInv, NetTypeOK, Conn
    <3>3. \A i \in Slots \ {k} : conn'[i] = conn[i]
      BY <3>1 DEF IndInv, NetTypeOK
    <3> QED BY <3>2, <3>3, NoneMore DEF Held, MustDrop
  <2>3. ASSUME NEW m \in net, OnAccept(m) PROVE PerHostLimit'
    <3>1. CASE Rejoin(m)
      <4> DEFINE k == GetClientSlot(m.addr)
      <4>1. /\ k \in Slots
            /\ conn' = [conn EXCEPT ![k].try = Numbers(m),
                                    ![k].remoteClosed = FALSE]
        BY <3>1, ClientSlot DEF Rejoin
      <4> HIDE DEF k
      <4>2. \A i \in Slots : /\ conn'[i].state = conn[i].state
                             /\ conn'[i].peer = conn[i].peer
                             /\ conn'[i].protected = conn[i].protected
                             /\ conn'[i].situation = conn[i].situation
        BY <4>1 DEF IndInv, NetTypeOK, Conn
      <4> QED BY <4>2, NoneMore DEF Held, MustDrop
    <3>2. CASE TryAcceptClient(m)
      BY <3>2, LimitAccepting
    <3>3. CASE Refuse(m)
      BY <1>0, <3>3 DEF Refuse
    <3> QED BY <2>3, <3>1, <3>2, <3>3 DEF OnAccept
  <2>4. ASSUME NEW i \in Slots, Talk(i) \/ EnterGame(i) PROVE PerHostLimit'
    BY <1>0, <2>4 DEF Talk, EnterGame
  <2>5. ASSUME NEW i \in Slots, ConTimeout(i) PROVE PerHostLimit'
    <3>1. conn[i].state = "online"
      BY <2>5 DEF ConTimeout, InStep
    <3>2. PICK c : LET J == Claimable(i, IF c = NoCode THEN code[i] ELSE c)
                   IN IF J # {} THEN TakeOver(i, Min(J)) ELSE Protect(i, c)
      BY <2>5 DEF ConTimeout
    <3>3. ASSUME NEW j \in Slots \ {i}, TakeOver(i, j) PROVE PerHostLimit'
      BY <3>1, <3>3, LimitTakingOver
    <3>4. CASE Protect(i, c)
      <4>1. /\ conn'[i].peer = conn[i].peer /\ Held(i)
            /\ \A k \in Slots \ {i} : conn'[k] = conn[k]
        BY <3>1, <3>4 DEF Protect, Held, MustDrop, IndInv, NetTypeOK, Conn
      <4> QED BY <4>1, NoneMore DEF Held, MustDrop
    <3> QED BY <3>2, <3>3, <3>4, FirstClaimable
  <2>6. ASSUME NEW i \in Slots, Kick(i) PROVE PerHostLimit'
    <3>1. Drop({i}, conn) /\ conn \in [Slots -> Conn]
      BY <2>6 DEF Kick, IndInv, NetTypeOK
    <3> QED BY <3>1, LimitDropping DEF Held
  <2>7. ASSUME NEW Due \in SUBSET Timed, Update(Due) PROVE PerHostLimit'
    BY <2>7, LimitUpdating DEF Timed
  <2>8. CASE MapReload
    BY <1>0, <2>8 DEF MapReload
  <2> QED BY <1>2, <2>1, <2>2, <2>3, <2>4, <2>5, <2>6, <2>7, <2>8
          DEF ServerStep
<1>3. ASSUME NEW m \in net, Lose(m) PROVE PerHostLimit'
  BY <1>0, <1>3 DEF Lose
<1>4. CASE UNCHANGED vars
  BY <1>0, <1>4 DEF vars
<1> QED BY <1>1, <1>2, <1>3, <1>4 DEF Next

LEMMA LimitInitially == Init => PerHostLimit
<1> SUFFICES ASSUME Init, NEW a \in Addrs
             PROVE  Cardinality(HeldBy(Host[a])) <= MaxPerIP
  BY Limit
<1>1. HeldBy(Host[a]) = {}
  BY DEF Init, HeldBy, Held, Offline
<1> QED BY <1>1, FS_EmptySet, NetServerAssumption

(* The inductive invariant of CNetServer and the states of its clients:    *)
(* types, one slot for each address, a client for each connection.         *)
THEOREM Invariance == Spec => []IndInv
BY Initially, Inductive, PTL DEF Spec

(* Every variable keeps its type: each slot is a connection whose peer is  *)
(* known unless it is offline.                                             *)
THEOREM NetTypeCorrect == Spec => []NetTypeOK
BY Invariance, PTL DEF IndInv

(* An address never has two slots that are online: not by a handshake that *)
(* comes late or twice, not by a hand-over.                                *)
THEOREM OneSlotPerAddress == Spec => []OneSlot
BY Invariance, PTL DEF IndInv

(* CServer has a client for exactly the connections that are not offline,  *)
(* however they are dropped, handed over or made.                          *)
THEOREM ClientsFollowConnections == Spec => []ClientIffConnection
BY Invariance, PTL DEF IndInv

(* No host ever holds more slots than sv_max_clients_per_ip.               *)
THEOREM LimitPerHost == Spec => []PerHostLimit
BY Initially, Inductive, LimitInitially, LimitInductive, PTL DEF Spec
=============================================================================

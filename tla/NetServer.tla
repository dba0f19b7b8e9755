----------------------------- MODULE NetServer -----------------------------
(***************************************************************************)
(* The slots of CNetServer and the players behind them: the handshake by   *)
(* which a client gets a slot, the ways it loses it, and the time-out      *)
(* protection by which a player who lost the connection takes the slot and *)
(* the tee over from a new connection (engine/shared/network_server.cpp,   *)
(* network_conn.cpp, engine/server/server.cpp, game/server/ddracechat.cpp).*)
(*                                                                         *)
(* The network loses, repeats and delays packets.  The chunks of a session *)
(* are not packets here: they arrive in order as NetConn shows, as long as *)
(* both ends number them from the same handshake.  A client's handshakes   *)
(* are counted by try; a slot keeps the try its numbering began with, or 0 *)
(* once it was reset under a client that had already sent chunks.          *)
(* Tokens are left out: GetToken gives an address the same token each try. *)
(***************************************************************************)
EXTENDS Integers, FiniteSets, FiniteSetsExt

CONSTANTS
  Addrs,         \* addresses clients connect from
  NoAddr,
  Host,          \* Host[a]: the address without its port
  Code,          \* Code[a]: time-out code of the player who uses a
  NoCode,        \* the empty code
  MaxClients,    \* sv_max_clients
  MaxPerIP,      \* sv_max_clients_per_ip
  MaxTries,      \* bound: connection attempts of each address
  MaxNet         \* bound: packets in the network at a time

ASSUME NetServerAssumption ==
  /\ NoAddr \notin Addrs
  /\ \A a \in Addrs : Code[a] # NoCode
  /\ MaxClients \in Nat \ {0}
  /\ MaxPerIP \in Nat \ {0}
  /\ MaxTries \in [Addrs -> Nat]
  /\ MaxNet \in Nat

VARIABLES
  cst,           \* m_State of the client's connection
  try,           \* number of the client's last attempt
  talked,        \* whether the server took a chunk of that attempt
  conn,          \* m_aSlots[i].m_Connection
  game,          \* m_aClients[i].m_State
  code,          \* m_apPlayers[i]->m_aTimeoutCode
  net            \* control packets in the network

vars == <<cst, try, talked, conn, game, code, net>>
clientVars == <<cst, try, talked>>

Slots == 0 .. (MaxClients - 1)

Conn == [state : {"offline", "online", "error"}, peer : Addrs \cup {NoAddr},
         try : Nat, remoteClosed : BOOLEAN, protected : BOOLEAN,
         situation : BOOLEAN]
Offline == [state |-> "offline", peer |-> NoAddr, try |-> 0,
            remoteClosed |-> FALSE, protected |-> FALSE, situation |-> FALSE]
Online(a, n) == [Offline EXCEPT !.state = "online", !.peer = a, !.try = n]

Types == {"connect", "connectaccept", "accept", "close", "closed"}
Msg(type, a) == [type |-> type, addr |-> a, try |-> 0]
Accept(a) == [type |-> "accept", addr |-> a, try |-> try[a]]

(* The values the variables take; an offline slot has no peer.             *)
NetTypeOK ==
  /\ cst \in [Addrs -> {"offline", "connect", "online"}]
  /\ try \in [Addrs -> Nat]
  /\ talked \in [Addrs -> BOOLEAN]
  /\ conn \in [Slots -> Conn]
  /\ \A i \in Slots : conn[i].state = "offline" <=> conn[i].peer = NoAddr
  /\ game \in [Slots -> {"empty", "joining", "playing"}]
  /\ code \in [Slots -> {Code[a] : a \in Addrs} \cup {NoCode}]
  /\ net \subseteq [type : Types, addr : Addrs, try : Nat]

Init ==
  /\ cst = [a \in Addrs |-> "offline"]
  /\ try = [a \in Addrs |-> 0]
  /\ talked = [a \in Addrs |-> FALSE]
  /\ conn = [i \in Slots |-> Offline]
  /\ game = [i \in Slots |-> "empty"]
  /\ code = [i \in Slots |-> NoCode]
  /\ net = {}

(* Sending puts packets into the network, or loses them on the way in.  A  *)
(* packet that is received stays until it is lost, so that it may come     *)
(* again; one that is answered may also leave for its answer.              *)
Put(base, S) ==
  \E T \in SUBSET S : /\ Cardinality(base \cup T) <= MaxNet
                      /\ net' = base \cup T

Send(S) == Put(net, S)
Answer(m, S) == Put(net, S) \/ Put(net \ {m}, S)

Lose(m) ==
  /\ m \in net
  /\ net' = net \ {m}
  /\ UNCHANGED <<cst, try, talked, conn, game, code>>

----------------------------------------------------------------------------
(* The client's end.  CNetClient::Update() turns an error into offline     *)
(* before the client does anything else.                                   *)

Connect(a) ==
  /\ cst[a] = "offline"
  /\ try[a] < MaxTries[a]
  /\ cst' = [cst EXCEPT ![a] = "connect"]
  /\ try' = [try EXCEPT ![a] = @ + 1]
  /\ talked' = [talked EXCEPT ![a] = FALSE]
  /\ Send({Msg("connect", a)})
  /\ UNCHANGED <<conn, game, code>>

ResendConnect(a) ==
  /\ cst[a] = "connect"
  /\ Send({Msg("connect", a)})
  /\ UNCHANGED <<cst, try, talked, conn, game, code>>

(* ACCEPT is sent once, and the client is online whether it arrives or not. *)
OnConnectAccept(a) ==
  /\ Msg("connectaccept", a) \in net
  /\ cst[a] = "connect"
  /\ cst' = [cst EXCEPT ![a] = "online"]
  /\ Answer(Msg("connectaccept", a), {Accept(a)})
  /\ UNCHANGED <<try, talked, conn, game, code>>

GoOffline(a) ==
  /\ cst' = [cst EXCEPT ![a] = "offline"]
  /\ UNCHANGED <<try, talked, conn, game, code>>

OnClosed(a) ==
  /\ Msg("closed", a) \in net
  /\ cst[a] # "offline"
  /\ GoOffline(a)
  /\ UNCHANGED net

(* A connection that timed out is given up without a word.  A client that  *)
(* crashes looks the same from the server.                                 *)
ClientTimeout(a) ==
  /\ cst[a] = "online"
  /\ GoOffline(a)
  /\ UNCHANGED net

(* In the middle of a handshake the peer's address is not known yet.       *)
Quit(a) ==
  /\ cst[a] # "offline"
  /\ GoOffline(a)
  /\ Send(IF cst[a] = "online" THEN {Msg("close", a)} ELSE {})

----------------------------------------------------------------------------
(* CNetServer::Recv: control packets.                                      *)

SlotsOf(a) == {i \in Slots : conn[i].state = "online" /\ conn[i].peer = a}
GetClientSlot(a) == Max(SlotsOf(a))

(* A slot is waiting while its player may still take it over.              *)
Waiting(i) ==
  conn[i].state = "error" /\ conn[i].protected /\ conn[i].situation

(* A slip: slots without a connection are not counted. *)
NumClientsWithAddr_Connected(h) ==
  Cardinality({i \in Slots : /\ conn[i].state = "online"
                             /\ Host[conn[i].peer] = h})

(* The slots sv_max_clients_per_ip is about. *)
NumClientsWithAddr(h) ==
  Cardinality({i \in Slots : /\ conn[i].state = "online" \/ Waiting(i)
                             /\ Host[conn[i].peer] = h})

OnConnect(a) ==
  /\ Msg("connect", a) \in net
  /\ Answer(Msg("connect", a), {Msg("connectaccept", a)})
  /\ UNCHANGED <<cst, try, talked, conn, game, code>>

(* The try that numbers begin with on ACCEPT: none the client still counts *)
(* by once the server has taken chunks of it.                              *)
Numbers(m) == IF m.try = try[m.addr] /\ talked[m.addr] THEN 0 ELSE m.try

(* ACCEPT from an address in a session: the connection's numbers start     *)
(* again, the player stays as it is.                                       *)
Rejoin(m) ==
  /\ SlotsOf(m.addr) # {}
  /\ conn' = [conn EXCEPT ![GetClientSlot(m.addr)].try = Numbers(m),
                          ![GetClientSlot(m.addr)].remoteClosed = FALSE]
  /\ UNCHANGED <<cst, try, talked, game, code, net>>

FreeSlots == {i \in Slots : conn[i].state = "offline"}

TryAcceptClient(m) ==
  /\ SlotsOf(m.addr) = {}
  /\ NumClientsWithAddr(Host[m.addr]) + 1 <= MaxPerIP
  /\ FreeSlots # {}
  /\ conn' = [conn EXCEPT ![Min(FreeSlots)] = Online(m.addr, Numbers(m))]
  /\ game' = [game EXCEPT ![Min(FreeSlots)] = "joining"]
  /\ UNCHANGED <<cst, try, talked, code, net>>

(* Connlimit() may refuse any client that comes back too soon.             *)
Refuse(m) ==
  /\ SlotsOf(m.addr) = {}
  /\ Answer(m, {Msg("closed", m.addr)})
  /\ UNCHANGED <<cst, try, talked, conn, game, code>>

OnAccept(m) ==
  /\ m \in net /\ m.type = "accept"
  /\ Rejoin(m) \/ TryAcceptClient(m) \/ Refuse(m)

OnClose(a) ==
  /\ Msg("close", a) \in net
  /\ SlotsOf(a) # {}
  /\ conn' = [conn EXCEPT ![GetClientSlot(a)].state = "error",
                          ![GetClientSlot(a)].remoteClosed = TRUE]
  /\ UNCHANGED <<cst, try, talked, game, code, net>>

----------------------------------------------------------------------------
(* Chunks of a session.                                                    *)

InStep(i) ==
  LET a == conn[i].peer
  IN /\ conn[i].state = "online"
     /\ cst[a] = "online"
     /\ conn[i].try = try[a]

Talk(i) ==
  /\ InStep(i) /\ ~talked[conn[i].peer]
  /\ talked' = [talked EXCEPT ![conn[i].peer] = TRUE]
  /\ UNCHANGED <<cst, try, conn, game, code, net>>

(* READY: CGameContext::OnClientConnected makes the player.                *)
EnterGame(i) ==
  /\ InStep(i) /\ talked[conn[i].peer]
  /\ game[i] = "joining"
  /\ game' = [game EXCEPT ![i] = "playing"]
  /\ code' = [code EXCEPT ![i] = NoCode]
  /\ UNCHANGED <<cst, try, talked, conn, net>>

(* Slots whose player set code c and whose connection is in error.         *)
Claimable(i, c) ==
  {j \in Slots \ {i} : /\ game[j] = "playing"
                       /\ code[j] = c
                       /\ conn[j].state = "error"}

(* Two slips: the first slot is not reset, and its client is not deleted.  *)
TakeOver_NoReset(i, j) ==
  /\ conn' = [conn EXCEPT
       ![j] = [@ EXCEPT !.state = "online", !.peer = conn[i].peer,
                        !.try = conn[i].try, !.remoteClosed = FALSE]]
  /\ game' = [game EXCEPT ![i] = "empty"]
  /\ code' = [code EXCEPT ![i] = NoCode]

TakeOver_NoDelClient(i, j) ==
  /\ conn' = [conn EXCEPT
       ![j] = [@ EXCEPT !.state = "online", !.peer = conn[i].peer,
                        !.try = conn[i].try, !.remoteClosed = FALSE],
       ![i] = Offline]
  /\ UNCHANGED <<game, code>>

(* SetTimedOut: slot j goes on with the peer and the numbers of slot i.    *)
TakeOver(i, j) ==
  /\ conn' = [conn EXCEPT
       ![j] = [@ EXCEPT !.state = "online", !.peer = conn[i].peer,
                        !.try = conn[i].try, !.remoteClosed = FALSE],
       ![i] = Offline]
  /\ game' = [game EXCEPT ![i] = "empty"]
  /\ code' = [code EXCEPT ![i] = NoCode]

Protect(i, c) ==
  /\ conn' = [conn EXCEPT ![i].protected = TRUE]
  /\ code' = [code EXCEPT ![i] = c]
  /\ UNCHANGED game

(* /timeout [c]: without c the player's own code is looked for, and the    *)
(* empty argument is what gets stored.                                     *)
ConTimeout(i) ==
  /\ InStep(i) /\ game[i] = "playing"
  /\ \E c \in {Code[conn[i].peer], NoCode} :
       LET J == Claimable(i, IF c = NoCode THEN code[i] ELSE c)
       IN IF J # {} THEN TakeOver(i, Min(J)) ELSE Protect(i, c)
  /\ UNCHANGED <<cst, try, talked, net>>

----------------------------------------------------------------------------
(* The server's own steps.                                                 *)

(* Drop() of the slots D as c gives them: the player goes, then the        *)
(* connection; CLOSE is sent unless the peer closed or timed out.          *)
Drop(D, c) ==
  /\ conn' = [i \in Slots |-> IF i \in D THEN Offline ELSE c[i]]
  /\ game' = [i \in Slots |-> IF i \in D THEN "empty" ELSE game[i]]
  /\ code' = [i \in Slots |-> IF i \in D THEN NoCode ELSE code[i]]
  /\ Send({Msg("closed", c[i].peer) :
             i \in {k \in D : ~c[k].remoteClosed /\ ~c[k].situation}})

Kick(i) ==
  /\ game[i] # "empty"
  /\ Drop({i}, conn)
  /\ UNCHANGED clientVars

(* CNetConnection::Update of slot i, with its time-out or the end of its   *)
(* protection due or not; Timed are the slots that have either.            *)
Updated(i, due) ==
  LET c == conn[i]
  IN CASE c.state = "offline" -> c
       [] c.state = "error" -> [c EXCEPT !.situation = @ /\ ~due]
       [] c.state = "online" ->
            [c EXCEPT !.state = IF due THEN "error" ELSE @, !.situation = due]

Timed == {i \in Slots : conn[i].state = "online" \/ conn[i].situation}

(* A slip: a protected slot is kept when its time is over, too. *)
MustDrop_Unprotected(c) == c.state = "error" /\ ~c.protected

MustDrop(c) == c.state = "error" /\ (~c.protected \/ ~c.situation)

Update(Due) ==
  /\ LET c == [i \in Slots |-> Updated(i, i \in Due)]
     IN Drop({i \in Slots : MustDrop(c[i])}, c)
  /\ UNCHANGED clientVars

(* A new map: OnShutdown deletes the players, the clients load again.      *)
MapReload ==
  /\ game' = [i \in Slots |-> IF game[i] = "empty" THEN "empty" ELSE "joining"]
  /\ code' = [i \in Slots |-> NoCode]
  /\ UNCHANGED <<cst, try, talked, conn, net>>

----------------------------------------------------------------------------
ClientStep(a) ==
  \/ Connect(a) \/ ResendConnect(a) \/ OnConnectAccept(a)
  \/ OnClosed(a) \/ ClientTimeout(a) \/ Quit(a)

ServerStep ==
  \/ \E a \in Addrs : OnConnect(a) \/ OnClose(a)
  \/ \E m \in net : OnAccept(m)
  \/ \E i \in Slots : Talk(i) \/ EnterGame(i) \/ ConTimeout(i) \/ Kick(i)
  \/ \E Due \in SUBSET Timed : Update(Due)
  \/ MapReload

Next ==
  \/ \E a \in Addrs : ClientStep(a)
  \/ ServerStep
  \/ \E m \in net : Lose(m)

Spec == Init /\ [][Next]_vars

(* The main loop calls Update() again and again, and the time a silent     *)
(* peer or a protected slot is given runs out: what the peer sent before   *)
(* comes to an end.                                                        *)
Silent(i) == conn[i].state = "online" /\ cst[conn[i].peer] = "offline"

Expire(i) == (Silent(i) \/ conn[i].state = "error") /\ Update({i})

FairSpec == Spec /\ \A i \in Slots : WF_vars(Expire(i))

----------------------------------------------------------------------------
(* An address is served by one slot: GetClientSlot never has to choose.    *)
(* The hand-over of a session to the slot of a lost one must leave the     *)
(* first slot empty (SetTimedOut).                                         *)
OneSlot ==
  \A i, j \in Slots :
    conn[i].state = "online" /\ conn[j].state = "online" /\ i # j
      => conn[i].peer # conn[j].peer

(* There is a client state for each connection that is not offline and for *)
(* no other, whichever of the two is torn down first (Drop, SetTimedOut,   *)
(* DelClientCallback, TryAcceptClient).                                    *)
ClientIffConnection ==
  \A i \in Slots : game[i] = "empty" <=> conn[i].state = "offline"

(* sv_max_clients_per_ip: no host holds more slots than allowed, however   *)
(* its sessions were lost, closed or taken over.  A slot is held unless it *)
(* is free or the next Update() frees it (TryAcceptClient).                *)
Held(i) == conn[i].state # "offline" /\ ~MustDrop(conn[i])

PerHostLimit ==
  \A a \in Addrs :
    Cardinality({i \in Slots : Held(i) /\ Host[conn[i].peer] = Host[a]})
      <= MaxPerIP

(* A slot whose client has gone without coming back is freed, protected or *)
(* not, and whether or not the CLOSE arrived.                              *)
Abandoned(i, a) ==
  conn[i].state # "offline" /\ conn[i].peer = a /\ cst[a] = "offline"

SlotsAreFreed ==
  \A i \in Slots, a \in Addrs : Abandoned(i, a) ~> ~Abandoned(i, a)
=============================================================================

------------------------------ MODULE SnapSync ------------------------------
(***************************************************************************)
(* How the game state gets to a client: CServer::DoSnapshot sends it as a  *)
(* delta against the last snapshot the client has acknowledged, the client *)
(* (CClient::ProcessServerPacket) puts the parts together, applies them to *)
(* its own copy and acknowledges in its inputs.  Snapshots and inputs are  *)
(* plain datagrams: lost, repeated and in any order.  The client gets into *)
(* the game, and through changes of map, as in Join, with all maps on disk.*)
(***************************************************************************)
EXTENDS Join, Integers, FiniteSets, FiniteSetsExt

CONSTANTS
  Worlds,        \* game states; only being the same or not matters
  Empty,         \* the empty snapshot
  TickSpeed,     \* ticks a second
  KeepSeconds,   \* how long the server keeps snapshots
  InitEvery,     \* ticks between snapshots at the initial rate
  SnapEvery,     \* ticks between snapshots: 1 with sv_high_bandwidth, else 2
  MaxCrcErrors,  \* checksum errors before the client asks for a full snapshot
  MAX_TICK,      \* bound of the tick; the server loads a map when it is there
  MaxParts,      \* bound: datagrams a snapshot is split into
  CatchUp,       \* bound: ticks the server does in one go
  MaxSnaps,      \* bound: snapshot datagrams in the network
  MaxInputs,     \* bound: inputs in the network
  CalmDown,      \* whether the network may become reliable for good
  StormTicks,    \* bound: ticks of a round while it is not
  RecoveryTicks  \* how soon after that the client is claimed to be up to date

None == -1
Garbled == <<Empty>>     \* what a delta yields on the wrong base

(* A tick that every rate sends a snapshot at. *)
Common(t) == \A every \in {TickSpeed, InitEvery, SnapEvery} : t % every = 0

ASSUME SnapAssumption ==
  /\ Worlds \cap {Empty, Garbled} = {}
  /\ Garbled # Empty
  /\ {TickSpeed, KeepSeconds, InitEvery, SnapEvery, MAX_TICK, MaxParts, CatchUp}
        \subseteq Nat \ {0}
  /\ {MaxCrcErrors, MaxSnaps, MaxInputs, StormTicks, RecoveryTicks} \subseteq Nat
  /\ StormTicks <= MAX_TICK
  /\ CalmDown \in BOOLEAN

(* The time to recover: that the server keeps a snapshot from the storm,   *)
(* and three of the ticks above, which bring the client online and to      *)
(* sending inputs.  Inputs take some ticks, so the server must keep more.  *)
ASSUME RecoveryAssumption ==
  CalmDown =>
    /\ MaxInputs > 0
    /\ SnapEvery \in {1, 2}
    /\ KeepSeconds * TickSpeed >= 3
    /\ \E a, b, c \in 1 .. RecoveryTicks - 1 :
         /\ StormTicks + KeepSeconds * TickSpeed < a /\ a < b /\ b < c
         /\ Common(a) /\ Common(b) /\ Common(c)

VARIABLES
  tick,          \* m_CurrentGameTick
  rate,          \* m_SnapRate
  lastAcked,     \* m_LastAckedSnapshot
  backlog,       \* m_Snapshots of the server: a function from ticks
  storage,       \* m_aSnapshotStorage of the client, oldest first
  recvTick,      \* m_aCurrentRecvTick
  parts,         \* m_aSnapshotParts and the data received for it
  ack,           \* m_aAckGameTick
  received,      \* m_aReceivedSnapshots, not counted beyond 3
  shown,         \* m_aapSnapshots: the ticks of SNAP_PREV and SNAP_CURRENT
  predicting,    \* m_aPredTick > 0
  crcErrors,     \* m_SnapCrcErrors
  rounds,        \* history: the rounds of the snapshots the client has taken
                 \* since it has entered the game
  snaps,         \* snapshot datagrams in the network
  inputs,        \* inputs in the network: what they acknowledge
  calm,          \* the tick since which the network is reliable
  polled         \* in the calm: an input was sent since the last tick

serverSnapVars == <<tick, rate, lastAcked, backlog>>
clientSnapVars == <<storage, recvTick, parts, ack, received, shown, predicting,
                    crcErrors, rounds>>
calmVars == <<calm, polled>>
snapVars == <<serverSnapVars, clientSnapVars, snaps, inputs, calmVars>>
vars == <<joinVars, snapVars>>

Ticks == 0 .. MAX_TICK
Acks == Ticks \cup {None}

(* NETMSG_SNAP, NETMSG_SNAPSINGLE and, where empty, NETMSG_SNAPEMPTY.  What *)
(* the delta was made of stands for its data, the world for the checksum.  *)
Datagram == [tick : Ticks, delta : Acks, numParts : 1 .. MaxParts, part : Nat,
             base : Worlds \cup {Empty}, world : Worlds, empty : BOOLEAN, round : Nat]

Holder == [tick : Ticks, data : Worlds \cup {Empty}, world : Worlds]

NotShown == [prev |-> None, cur |-> None]

SnapTypeOK ==
  /\ tick \in Ticks
  /\ rate \in {"INIT", "FULL", "RECOVER"}
  /\ lastAcked \in Acks
  /\ DOMAIN backlog \in SUBSET Ticks
  /\ \A t \in DOMAIN backlog : backlog[t] \in Worlds
  /\ storage \in Seq(Holder)
  /\ recvTick \in Ticks
  /\ DOMAIN parts \in SUBSET (0 .. MaxParts - 1)
  /\ \A p \in DOMAIN parts : parts[p] \in Datagram
  /\ ack \in Acks
  /\ received \in 0 .. 3
  /\ shown \in [prev : Acks, cur : Acks]
  /\ predicting \in BOOLEAN
  /\ crcErrors \in 0 .. MaxCrcErrors
  /\ snaps \in SUBSET Datagram
  /\ rounds \in SUBSET (1 .. MaxRounds)
  /\ inputs \in SUBSET Acks
  /\ calm \in Acks
  /\ polled \in BOOLEAN

NoParts == << >>

SnapInit ==
  /\ JoinInit
  /\ tick = 0 /\ rate = "INIT" /\ lastAcked = None /\ backlog = << >>
  /\ storage = << >> /\ recvTick = 0 /\ parts = NoParts /\ ack = None
  /\ received = 0 /\ shown = NotShown /\ predicting = FALSE /\ crcErrors = 0
  /\ rounds = {}
  /\ snaps = {} /\ inputs = {}
  /\ calm = None /\ polled = FALSE

IsCalm == calm # None

-----------------------------------------------------------------------------
(* The server. *)

Due_NotIngame(t) ==
  /\ sstate \in {"READY", "INGAME"}
  /\ rate = "RECOVER" => t % TickSpeed = 0
  /\ rate = "INIT" => t % InitEvery = 0

(* Whether the client is sent a snapshot at tick t. *)
Due(t) ==
  /\ sstate = "INGAME"
  /\ rate = "RECOVER" => t % TickSpeed = 0
  /\ rate = "INIT" => t % InitEvery = 0

(* m_Snapshots.PurgeUntil and Add. *)
Backlog(t, world) ==
  LET kept == {s \in DOMAIN backlog : s >= t - KeepSeconds * TickSpeed}
  IN  [s \in kept \cup {t} |-> IF s = t THEN world ELSE backlog[s]]

DeltaTick(log) == IF lastAcked \in DOMAIN log THEN lastAcked ELSE None

RateAfter(delta) ==
  IF delta = None /\ rate = "FULL" THEN "RECOVER" ELSE rate

(* DoSnapshot at tick t. *)
DoSnapshot(t) ==
  \E world \in Worlds, n \in 1 .. MaxParts :
    LET log == Backlog(t, world)
        delta == DeltaTick(log)
        base == IF delta = None THEN Empty ELSE log[delta]
        new == {[tick |-> t, delta |-> delta, numParts |-> n, part |-> p,
                 base |-> base, world |-> world, empty |-> base = world,
                 round |-> round] : p \in 0 .. n - 1}
    IN  /\ base = world => n = 1
        /\ backlog' = log
        /\ rate' = RateAfter(delta)
        /\ Cardinality(snaps) + n <= MaxSnaps
        /\ snaps' = snaps \cup new

(* CServer::Run: one or more ticks are done, and if the last one is for    *)
(* it, snapshots are sent.  In the calm a tick waits for what is under way.*)
Tick ==
  /\ IsCalm => snaps = {} /\ inputs = {} /\ (polled \/ cstate # "ONLINE" \/ received < 3)
  /\ \E n \in 1 .. (IF IsCalm THEN 1 ELSE CatchUp) :
       /\ tick + n <= (IF IsCalm THEN MAX_TICK ELSE StormTicks)
       /\ tick' = tick + n
       /\ IF tick' % SnapEvery = 0 /\ Due(tick')
            THEN DoSnapshot(tick')
            ELSE UNCHANGED <<backlog, rate, snaps>>
  /\ polled' = FALSE
  /\ UNCHANGED <<joinVars, lastAcked, clientSnapVars, inputs, calm>>

RateAfterInput_Init(a) == IF a > 0 /\ rate = "INIT" THEN "FULL" ELSE rate

RateAfterInput(a) == IF a > 0 THEN "FULL" ELSE rate

(* NETMSG_INPUT, in whatever state the client is. *)
OnInput ==
  /\ \E input \in inputs :
       /\ inputs' \in {inputs \ {input}, IF IsCalm THEN inputs \ {input} ELSE inputs}
       /\ lastAcked' = input
       /\ rate' = RateAfterInput(input)
  /\ UNCHANGED <<joinVars, tick, backlog, clientSnapVars, snaps, calmVars>>

(* The tick starts again, and CServer::CClient::Reset.  Nothing but the    *)
(* tick being there forces a change of map.                                *)
SnapMapChange ==
  /\ ~IsCalm
  /\ MapChange
  /\ tick' = 0
  /\ IF StartsOver
       THEN rate' = "INIT" /\ lastAcked' = None /\ backlog' = << >>
       ELSE UNCHANGED <<rate, lastAcked, backlog>>
  /\ UNCHANGED <<clientSnapVars, snaps, inputs, calmVars>>

-----------------------------------------------------------------------------
(* The client. *)

AddInput(input, net) == IF Cardinality(net \cup {input}) <= MaxInputs THEN net \cup {input} ELSE net

(* SendInput does nothing before the first prediction, and the controls    *)
(* may have nothing to send.                                               *)
MaybeSendInput(a) ==
  inputs' \in {inputs} \cup
    (IF predicting THEN {AddInput(a, inputs)} ELSE {})

(* "Check m_aAckGameTick to see if we already got a snapshot for that tick" *)
Wanted(m) == m.tick >= recvTick /\ m.tick > ack

PartsWith(m) ==
  LET old == IF m.tick = recvTick THEN DOMAIN parts ELSE {}
  IN  [p \in old \cup {m.part} |-> IF p = m.part THEN m ELSE parts[p]]

Complete(m) == DOMAIN PartsWith(m) = 0 .. m.numParts - 1

(* The parts are of one snapshot. *)
Coherent(m) ==
  \A p \in DOMAIN PartsWith(m) : PartsWith(m)[p] = [m EXCEPT !.part = p]

HasBase_Assumed(m) == TRUE

HoldersAt(t) == {i \in DOMAIN storage : storage[i].tick = t}
HasBase(m) == m.delta = None \/ HoldersAt(m.delta) # {}

BaseData(m) ==
  IF m.delta = None \/ HoldersAt(m.delta) = {} THEN Empty
    ELSE storage[Min(HoldersAt(m.delta))].data

Unpacked(m) ==
  CASE m.empty -> BaseData(m)
    [] ~m.empty /\ Coherent(m) /\ BaseData(m) = m.base -> m.world
    [] OTHER -> Garbled

(* CSnapshotStorage::PurgeUntil *)
PurgeUntil(t) ==
  LET kept == {i \in DOMAIN storage : storage[i].tick >= t}
  IN  IF kept = {} THEN << >> ELSE SubSeq(storage, Min(kept), Len(storage))

PurgeTick_Delta(m) == m.delta

PurgeTick(m) == Min({m.delta} \cup ({shown.prev, shown.cur} \ {None}))

Deliver(m) ==
  /\ m \in snaps
  /\ snaps' \in {snaps \ {m}, IF IsCalm THEN snaps \ {m} ELSE snaps}

OnSnapIgnored ==
  /\ \E m \in snaps : Deliver(m) /\ ~Wanted(m)
  /\ UNCHANGED <<joinVars, serverSnapVars, clientSnapVars, inputs, calmVars>>

OnSnapPart ==
  /\ \E m \in snaps :
       /\ Deliver(m) /\ Wanted(m) /\ ~Complete(m)
       /\ recvTick' = m.tick
       /\ parts' = PartsWith(m)
  /\ UNCHANGED <<joinVars, serverSnapVars, storage, ack, received, shown,
                 predicting, crcErrors, rounds, inputs, calmVars>>

(* The snapshot is complete. *)
Assembled(m) ==
  /\ Deliver(m) /\ Wanted(m) /\ Complete(m)
  /\ recvTick' = m.tick
  /\ parts' = NoParts
  /\ UNCHANGED <<serverSnapVars, predicting, calmVars>>

(* "couldn't find the delta snapshots that the server used to compress     *)
(* this snapshot. force the server to resync"                              *)
OnSnapNoBase ==
  /\ \E m \in snaps : Assembled(m) /\ ~HasBase(m)
  /\ ack' = None
  /\ MaybeSendInput(None)
  /\ UNCHANGED <<joinVars, storage, received, shown, crcErrors, rounds>>

(* The delta does not fit: it fails to unpack, or the checksum is wrong,   *)
(* which is a reason to resync when it happens too often.                  *)
OnSnapGarbled ==
  /\ \E m \in snaps : Assembled(m) /\ HasBase(m) /\ Unpacked(m) = Garbled
  /\ \/ UNCHANGED <<ack, crcErrors, inputs>>
     \/ /\ crcErrors < MaxCrcErrors
        /\ crcErrors' = crcErrors + 1
        /\ UNCHANGED <<ack, inputs>>
     \/ /\ crcErrors = MaxCrcErrors
        /\ crcErrors' = 0
        /\ ack' = None
        /\ MaybeSendInput(None)
  /\ UNCHANGED <<joinVars, storage, received, shown, rounds>>

CrcErrorsLess == IF crcErrors > 0 THEN crcErrors - 1 ELSE 0

(* The snapshot is stored; the second one of a round brings the client     *)
(* online.                                                                 *)
OnSnapTaken ==
  /\ \E m \in snaps :
       /\ Assembled(m) /\ HasBase(m) /\ Unpacked(m) # Garbled
       /\ storage' = Append(PurgeUntil(PurgeTick(m)),
                            [tick |-> m.tick, data |-> Unpacked(m), world |-> m.world])
       /\ ack' = m.tick
       /\ rounds' = rounds \cup {m.round}
  /\ crcErrors' = CrcErrorsLess
  /\ received' = IF received < 3 THEN received + 1 ELSE 3
  /\ IF received' = 2 /\ received = 1
       THEN /\ shown' = [prev |-> storage'[1].tick, cur |-> storage'[Len(storage')].tick]
            /\ cstate' = "ONLINE"
       ELSE UNCHANGED <<shown, cstate>>
  /\ UNCHANGED <<serverVars, cmap, disk, task, told, entered, replaced, leftover,
                 toClient, toServer, inputs>>

(* CClient::Update: the game time moves on to a later snapshot, or not,    *)
(* and an input may be due.  In the calm one is sent every tick.           *)
Update ==
  /\ cstate = "ONLINE"
  /\ received = 3
  /\ IsCalm => ~polled
  /\ \E i \in DOMAIN storage, j \in DOMAIN storage :
       /\ storage[i].tick = shown.cur
       /\ i <= j
       /\ shown' = IF i = j THEN shown
                     ELSE [prev |-> storage[j - 1].tick, cur |-> storage[j].tick]
  /\ predicting' = TRUE
  /\ LET sent == AddInput(ack, inputs)
     IN  inputs' \in (IF IsCalm THEN {sent} ELSE {inputs, sent})
  /\ polled' = IsCalm
  /\ UNCHANGED <<joinVars, serverSnapVars, storage, recvTick, parts, ack, received,
                 crcErrors, rounds, snaps, calm>>

(* LoadMap *)
SnapLoad ==
  /\ OnMapChangeLoad
  /\ received' = 0
  /\ UNCHANGED <<serverSnapVars, storage, recvTick, parts, ack, shown, predicting,
                 crcErrors, rounds, snaps, inputs, calmVars>>

AckAfterEnter_Kept == ack

AckAfterEnter == None

(* OnEnterGame *)
SnapEnter ==
  /\ OnReadyToEnter
  /\ storage' = << >> /\ recvTick' = 0 /\ parts' = NoParts /\ ack' = AckAfterEnter
  /\ received' = 0 /\ shown' = NotShown /\ predicting' = FALSE
  /\ rounds' = {}
  /\ UNCHANGED <<serverSnapVars, crcErrors, snaps, inputs, calmVars>>

-----------------------------------------------------------------------------
(* The messages of Join that leave snapshots alone. *)
JoinStep ==
  /\ OnClientVer \/ OnInfo \/ OnReady \/ OnStartInfo \/ OnEnterGame \/ OnConReady
  /\ UNCHANGED snapVars

Lose ==
  /\ ~IsCalm
  /\ \/ \E m \in snaps : snaps' = snaps \ {m} /\ UNCHANGED inputs
     \/ \E m \in inputs : inputs' = inputs \ {m} /\ UNCHANGED snaps
  /\ UNCHANGED <<joinVars, serverSnapVars, clientSnapVars, calmVars>>

(* What is under way is lost, and from now on everything arrives at once.  *)
BecomeCalm ==
  /\ CalmDown /\ ~IsCalm
  /\ sstate = "INGAME" /\ toClient = << >> /\ toServer = << >>
  /\ calm' = tick
  /\ snaps' = {} /\ inputs' = {}
  /\ UNCHANGED <<joinVars, serverSnapVars, clientSnapVars, polled>>

SnapNext ==
  \/ JoinStep \/ SnapMapChange \/ SnapLoad \/ SnapEnter
  \/ Tick \/ OnInput \/ Update
  \/ OnSnapIgnored \/ OnSnapPart \/ OnSnapNoBase \/ OnSnapGarbled \/ OnSnapTaken
  \/ Lose \/ BecomeCalm

SnapSpec == SnapInit /\ [][SnapNext]_vars

-----------------------------------------------------------------------------
(* The world a client has under a tick is the world the server had then:   *)
(* whichever snapshot a delta is applied to, however old the               *)
(* acknowledgement it answers.  Only taking snapshots of two rounds for    *)
(* those of one, because ticks start again, can spoil it.                  *)
Faithful ==
  Cardinality(rounds) <= 1
    => \A i \in DOMAIN storage : storage[i].data = storage[i].world

(* The pointers to the snapshots being shown are never left dangling by a  *)
(* purge: both are in the storage, PREV before CURRENT (the client divides *)
(* by their distance), and they are set once Update may look at them.      *)
ShownIsHeld ==
  /\ \A t \in {shown.prev, shown.cur} \ {None} : HoldersAt(t) # {}
  /\ shown # NotShown => shown.prev < shown.cur
  /\ cstate = "ONLINE" /\ received = 3 => shown # NotShown

(* Snapshots of two rounds have not been taken for those of one, or there  *)
(* is nothing to be told apart.                                            *)
Unspoiled == Cardinality(rounds) <= 1 \/ \A v, w \in Worlds : v = w

(* However much was lost, repeated and reordered: once the network behaves *)
(* a client in the game is up to date, at the full rate, after this time.  *)
Recovers ==
  Unspoiled /\ IsCalm /\ tick >= calm + RecoveryTicks /\ snaps = {} /\ inputs = {} =>
    /\ cstate = "ONLINE"
    /\ rate = "FULL"
    /\ ack = Max(DOMAIN backlog)
=============================================================================

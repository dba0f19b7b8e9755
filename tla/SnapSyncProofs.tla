--------------------------- MODULE SnapSyncProofs ---------------------------
(***************************************************************************)
(* Getting into the game and the snapshots that follow, for any maps,      *)
(* number of rounds, rates and bounds of the network.                      *)
(*                                                                         *)
(* Of Join: JoinInv says what the queue to the client still holds of the   *)
(* server's state, and what the client has taken if it holds nothing.      *)
(* Of SnapSync: it implements Join.  FaithInv relates the ticks and worlds *)
(* of the server, the network and the client's storage, ShownInv the       *)
(* storage to the two snapshots being shown.  What has a bound in time     *)
(* rests on SoundInv, that the client holds what it has acknowledged and   *)
(* can rebuild what it is sent, and on TimelyInv, which says what has      *)
(* happened by each of three ticks after the storm.                        *)
(***************************************************************************)
EXTENDS SnapSync, TLAPS, FiniteSetTheorems, WellFoundedInduction

Message == [type : ToClientTypes, map : Maps \cup {NoMap}]

Is(i, type) == toClient[i].type = type

(* No change of map is on its way behind message i. *)
LastMap(i) == \A j \in 1 .. Len(toClient) : j > i => ~Is(j, "MAP_CHANGE")

MapsInQueue ==
  \A i \in 1 .. Len(toClient) :
    Is(i, "MAP_CHANGE") \/ Is(i, "MAP_DATA") => toClient[i].map \in Maps

(* The last thing a client is told is the map the server runs. *)
ToldLast ==
  StartsOver =>
    /\ \A i \in 1 .. Len(toClient) :
         Is(i, "MAP_CHANGE") /\ LastMap(i) => toClient[i].map = smap
    /\ LastMap(0) => told = smap

(* The client has what it was told, or is downloading it. *)
Follows == told # NoMap /\ task.map # told => cmap = told \/ replaced

(* A player that is ready has been told so in this round. *)
ReadyToEnter ==
  isReady =>
    /\ HasPlayer
    /\ \/ \E i \in 1 .. Len(toClient) : Is(i, "READYTOENTER") /\ LastMap(i)
       \/ entered /\ LastMap(0)

JoinInv ==
  /\ JoinTypeOK
  /\ MapsInQueue
  /\ ToldLast
  /\ Follows
  /\ ReadyToEnter
  /\ sstate = "INGAME" => isReady
-----------------------------------------------------------------------------
(* What becomes of the queue to the client when a message is put into it, *)
(* or the first one taken.                                                 *)
Sent(msg) == toClient' = Append(toClient, msg)

LEMMA SentFacts ==
  ASSUME toClient \in Seq(Message), NEW msg \in Message, Sent(msg)
  PROVE  /\ toClient' \in Seq(Message)
         /\ Len(toClient) \in Nat /\ Len(toClient') = Len(toClient) + 1
         /\ toClient'[Len(toClient) + 1] = msg
         /\ \A i \in 1 .. Len(toClient) : toClient'[i] = toClient[i]
         /\ \A i \in 0 .. Len(toClient) :
              LastMap(i)' <=> LastMap(i) /\ msg.type # "MAP_CHANGE"
         /\ \A i \in Nat : i = Len(toClient) + 1 => LastMap(i)'
<1>1. /\ toClient' \in Seq(Message)
      /\ Len(toClient) \in Nat /\ Len(toClient') = Len(toClient) + 1
      /\ toClient'[Len(toClient) + 1] = msg
      /\ \A i \in 1 .. Len(toClient) : toClient'[i] = toClient[i]
  BY DEF Sent
<1> QED BY <1>1 DEF LastMap, Is

LEMMA GotFacts ==
  ASSUME toClient \in Seq(Message), NEW type, Got(type)
  PROVE  /\ toClient' \in Seq(Message)
         /\ Len(toClient) \in Nat \ {0} /\ Len(toClient') = Len(toClient) - 1
         /\ Head(toClient) = toClient[1] /\ toClient[1] \in Message
         /\ Is(1, type)
         /\ \A i \in 1 .. Len(toClient') : toClient'[i] = toClient[i + 1]
         /\ \A i \in 0 .. Len(toClient') : LastMap(i)' <=> LastMap(i + 1)
<1>1. /\ toClient' \in Seq(Message)
      /\ Len(toClient) \in Nat \ {0} /\ Len(toClient') = Len(toClient) - 1
      /\ Head(toClient) = toClient[1] /\ toClient[1] \in Message
      /\ Is(1, type)
      /\ \A i \in 1 .. Len(toClient') : toClient'[i] = toClient[i + 1]
  BY DEF Got, Is
<1>2. ASSUME NEW i \in 0 .. Len(toClient') PROVE LastMap(i)' <=> LastMap(i + 1)
  <2>1. ASSUME LastMap(i + 1), NEW j \in 1 .. Len(toClient'), j > i
        PROVE  ~Is(j, "MAP_CHANGE")'
    <3>1. j + 1 \in 1 .. Len(toClient) /\ j + 1 > i + 1
      BY <1>1, <2>1
    <3> QED BY <1>1, <2>1, <3>1 DEF LastMap, Is
  <2>2. ASSUME LastMap(i)', NEW j \in 1 .. Len(toClient), j > i + 1
        PROVE  ~Is(j, "MAP_CHANGE")
    <3>1. j - 1 \in 1 .. Len(toClient') /\ j - 1 > i
      BY <1>1, <2>2
    <3>2. toClient'[j - 1] = toClient[j]
      BY <1>1, <3>1
    <3> QED BY <2>2, <3>1, <3>2 DEF LastMap, Is
  <2> QED BY <2>1, <2>2 DEF LastMap
<1> QED BY <1>1, <1>2

(* The same for the queue to the server. *)
LEMMA ServerQueue ==
  ASSUME toServer \in Seq(ToServerTypes)
  PROVE  /\ \A type \in ToServerTypes : Append(toServer, type) \in Seq(ToServerTypes)
         /\ \A type : Take(type) => toServer' \in Seq(ToServerTypes)
BY DEF Take

(* A message that is no change of map leaves what was said of the queue    *)
(* as it was; the server's state must not move either.                     *)
LEMMA SentOther ==
  ASSUME JoinInv, NEW msg \in Message, Sent(msg), msg.type # "MAP_CHANGE",
         msg.type = "MAP_DATA" => msg.map \in Maps,
         UNCHANGED <<smap, told, entered>>, StartsOver' = StartsOver
  PROVE  /\ toClient' \in Seq(Message)
         /\ MapsInQueue' /\ ToldLast'
         /\ isReady /\ isReady' /\ HasPlayer' => ReadyToEnter'
<1>0. toClient \in Seq(Message)
  BY DEF JoinInv, JoinTypeOK, Message
<1> USE SentFacts, <1>0
<1>1. MapsInQueue'
  BY DEF JoinInv, MapsInQueue, Is
<1>2. ToldLast'
  <2> SUFFICES ASSUME StartsOver PROVE ToldLast'
    BY DEF ToldLast
  <2>1. ASSUME NEW i \in 1 .. Len(toClient'), Is(i, "MAP_CHANGE")', LastMap(i)'
        PROVE  toClient'[i].map = smap
    <3>1. i \in 1 .. Len(toClient)
      BY <2>1 DEF Is
    <3> QED BY <2>1, <3>1 DEF Is, JoinInv, ToldLast
  <2>2. LastMap(0)' => told = smap
    BY DEF JoinInv, ToldLast
  <2> QED BY <2>1, <2>2 DEF ToldLast
<1>3. isReady /\ isReady' /\ HasPlayer' => ReadyToEnter'
  <2> SUFFICES ASSUME isReady, isReady', HasPlayer' PROVE ReadyToEnter'
    OBVIOUS
  <2>1. CASE \E i \in 1 .. Len(toClient) : Is(i, "READYTOENTER") /\ LastMap(i)
    <3>1. PICK i \in 1 .. Len(toClient) : Is(i, "READYTOENTER") /\ LastMap(i)
      BY <2>1
    <3>2. i \in 1 .. Len(toClient') /\ Is(i, "READYTOENTER")' /\ LastMap(i)'
      BY <3>1 DEF Is
    <3> QED BY <3>2 DEF ReadyToEnter
  <2>2. CASE entered /\ LastMap(0)
    <3>1. entered' /\ LastMap(0)'
      BY <2>2
    <3> QED BY <3>1 DEF ReadyToEnter
  <2> QED BY <2>1, <2>2 DEF JoinInv, ReadyToEnter
<1> QED BY <1>1, <1>2, <1>3

(* A change of map becomes the last thing the client is told. *)
LEMMA SentMapChange ==
  ASSUME JoinInv, Sent([type |-> "MAP_CHANGE", map |-> smap']), smap' \in Maps
  PROVE  /\ toClient' \in Seq(Message)
         /\ MapsInQueue' /\ ToldLast'
<1> DEFINE msg == [type |-> "MAP_CHANGE", map |-> smap']
<1>0. toClient \in Seq(Message) /\ msg \in Message /\ Sent(msg)
  BY DEF JoinInv, JoinTypeOK, Message, ToClientTypes
<1>1. msg.type = "MAP_CHANGE" /\ msg.map = smap' /\ msg.map \in Maps
  OBVIOUS
<1> HIDE DEF msg
<1> USE SentFacts, <1>0, <1>1
<1>2. MapsInQueue'
  BY DEF JoinInv, MapsInQueue, Is
<1>3. ToldLast'
  <2>1. ASSUME NEW i \in 1 .. Len(toClient'), LastMap(i)' PROVE toClient'[i].map = smap'
    <3>1. i = Len(toClient) + 1
      BY <2>1
    <3> QED BY <3>1
  <2>2. ~LastMap(0)'
    OBVIOUS
  <2> QED BY <2>1, <2>2 DEF ToldLast
<1> QED BY <1>2, <1>3

(* The client takes a message, and believes a change of map. *)
LEMMA GotMessage ==
  ASSUME JoinInv, NEW type, Got(type), UNCHANGED <<smap, sstate, isReady>>,
         IF type = "MAP_CHANGE" THEN told' = Head(toClient).map ELSE told' = told,
         type \in {"MAP_CHANGE", "READYTOENTER"}
           \/ entered' = entered,
         type = "READYTOENTER" => entered'
  PROVE  /\ toClient' \in Seq(Message)
         /\ Head(toClient) \in Message
         /\ type \in {"MAP_CHANGE", "MAP_DATA"} => Head(toClient).map \in Maps
         /\ MapsInQueue' /\ ToldLast' /\ ReadyToEnter'
         /\ sstate' = "INGAME" => isReady'
<1>0. toClient \in Seq(Message)
  BY DEF JoinInv, JoinTypeOK, Message
<1> USE GotFacts, <1>0
<1>1. type \in {"MAP_CHANGE", "MAP_DATA"} => Head(toClient).map \in Maps
  BY DEF JoinInv, MapsInQueue, Is
<1>2. MapsInQueue'
  <2>1. \A i \in 1 .. Len(toClient') : i + 1 \in 1 .. Len(toClient)
    OBVIOUS
  <2> QED BY <2>1 DEF JoinInv, MapsInQueue, Is
<1>3. ToldLast'
  <2> SUFFICES ASSUME StartsOver PROVE ToldLast'
    BY DEF ToldLast, StartsOver
  <2>1. ASSUME NEW i \in 1 .. Len(toClient'), Is(i, "MAP_CHANGE")', LastMap(i)'
        PROVE  toClient'[i].map = smap
    <3>1. i + 1 \in 1 .. Len(toClient) /\ Is(i + 1, "MAP_CHANGE") /\ LastMap(i + 1)
      BY <2>1 DEF Is
    <3> QED BY <3>1 DEF JoinInv, ToldLast
  <2>2. LastMap(0)' => told' = smap
    <3> SUFFICES ASSUME LastMap(1) PROVE told' = smap
      OBVIOUS
    <3>1. CASE type = "MAP_CHANGE"
      BY <3>1 DEF JoinInv, ToldLast
    <3>2. CASE type # "MAP_CHANGE"
      <4>1. LastMap(0)
        BY <3>2 DEF LastMap, Is
      <4> QED BY <3>2, <4>1 DEF JoinInv, ToldLast
    <3> QED BY <3>1, <3>2
  <2> QED BY <2>1, <2>2 DEF ToldLast
<1>4. ReadyToEnter'
  <2> SUFFICES ASSUME isReady PROVE ReadyToEnter'
    BY DEF ReadyToEnter
  <2>0. HasPlayer'
    BY DEF JoinInv, ReadyToEnter, HasPlayer
  <2>1. CASE \E i \in 1 .. Len(toClient) : Is(i, "READYTOENTER") /\ LastMap(i)
    <3>1. PICK i \in 1 .. Len(toClient) : Is(i, "READYTOENTER") /\ LastMap(i)
      BY <2>1
    <3>2. CASE i = 1
      <4>1. type = "READYTOENTER"
        BY <3>1, <3>2 DEF Is
      <4> QED BY <2>0, <3>1, <3>2, <4>1 DEF ReadyToEnter
    <3>3. CASE i # 1
      <4>1. i - 1 \in 1 .. Len(toClient') /\ (i - 1) + 1 = i
        BY <3>3
      <4>2. Is(i - 1, "READYTOENTER")' /\ LastMap(i - 1)'
        BY <3>1, <4>1 DEF Is
      <4> QED BY <2>0, <4>1, <4>2 DEF ReadyToEnter
    <3> QED BY <3>2, <3>3
  <2>2. CASE entered /\ LastMap(0)
    <3>1. type # "MAP_CHANGE" /\ LastMap(1)
      BY <2>2 DEF LastMap, Is
    <3>2. LastMap(0)'
      BY <3>1
    <3>3. entered'
      BY <2>2, <3>1, Zenon
    <3> QED BY <2>0, <3>2, <3>3 DEF ReadyToEnter
  <2> QED BY <2>1, <2>2 DEF JoinInv, ReadyToEnter
<1>5. sstate' = "INGAME" => isReady'
  BY DEF JoinInv
<1> QED BY <1>1, <1>2, <1>3, <1>4, <1>5
-----------------------------------------------------------------------------
LEMMA JoinInitInv == JoinInit => JoinInv
<1> SUFFICES ASSUME JoinInit PROVE JoinInv
  OBVIOUS
<1>1. toClient = << >> /\ toServer = <<"CLIENTVER", "INFO">> /\ sstate = "PREAUTH"
      /\ isReady = FALSE /\ told = NoMap
  BY DEF JoinInit
<1>2. toServer \in Seq(ToServerTypes)
  BY <1>1 DEF ToServerTypes
<1>3. JoinTypeOK
  <2>1. round \in 1 .. MaxRounds /\ OnDisk \in SUBSET Maps
    BY JoinAssumption DEF JoinInit
  <2>2. toClient \in Seq([type : ToClientTypes, map : Maps \cup {NoMap}])
    BY <1>1
  <2> QED BY <1>1, <1>2, <2>1, <2>2 DEF JoinInit, JoinTypeOK
<1>4. MapsInQueue /\ ToldLast /\ Follows /\ ReadyToEnter
  BY <1>1 DEF MapsInQueue, ToldLast, StartsOver, Follows, ReadyToEnter
<1> QED BY <1>1, <1>3, <1>4 DEF JoinInv

(* When the queue to the client, the map, what the client was told and the *)
(* player stay, so does what is said of them.                              *)
LEMMA SameQueue ==
  ASSUME JoinInv, UNCHANGED <<toClient, smap, told, entered, isReady>>,
         StartsOver' = StartsOver, isReady => HasPlayer'
  PROVE  MapsInQueue' /\ ToldLast' /\ ReadyToEnter'
BY DEF JoinInv, MapsInQueue, ToldLast, ReadyToEnter, LastMap, Is

LEMMA ServerStepInv == JoinInv /\ ServerStep => JoinInv'
<1> SUFFICES ASSUME JoinInv, ServerStep PROVE JoinInv'
  OBVIOUS
<1> USE DEF serverVars, clientVars
<1>1. /\ UNCHANGED <<smap, round, leftover>>
      /\ UNCHANGED <<cstate, cmap, disk, task, told, entered, replaced>>
      /\ toServer' \in Seq(ToServerTypes)
  <2>1. toServer \in Seq(ToServerTypes)
    BY DEF JoinInv, JoinTypeOK
  <2> QED BY <2>1, ServerQueue DEF ServerStep, OnClientVer, OnInfo, OnRequestMapData,
             OnReady, OnStartInfo, OnEnterGame
<1>2. Follows'
  BY <1>1 DEF JoinInv, Follows
<1>3. ASSUME toClient' \in Seq(Message), isReady' \in BOOLEAN,
             sstate' \in {"PREAUTH", "AUTH", "CONNECTING", "READY", "INGAME"}
      PROVE  JoinTypeOK'
  BY <1>1, <1>3 DEF JoinInv, JoinTypeOK, Message
<1>4. /\ toClient \in Seq(Message) /\ isReady \in BOOLEAN /\ smap \in Maps
      /\ sstate \in {"PREAUTH", "AUTH", "CONNECTING", "READY", "INGAME"}
      /\ isReady => HasPlayer
      /\ sstate = "INGAME" => isReady
  BY DEF JoinInv, JoinTypeOK, Message, ReadyToEnter
<1>5. CASE OnClientVer
  <2>1. /\ UNCHANGED <<toClient, isReady>>
        /\ sstate' = IF sstate = "PREAUTH" THEN "AUTH" ELSE sstate
    BY <1>5 DEF OnClientVer
  <2>2. /\ sstate' \in {"PREAUTH", "AUTH", "CONNECTING", "READY", "INGAME"}
        /\ StartsOver' = StartsOver /\ HasPlayer' = HasPlayer
        /\ sstate' = "INGAME" => sstate = "INGAME"
    BY <1>4, <2>1 DEF StartsOver, HasPlayer
  <2>3. MapsInQueue' /\ ToldLast' /\ ReadyToEnter'
    BY <1>1, <1>4, <2>1, <2>2, SameQueue
  <2> QED BY <1>2, <1>3, <1>4, <2>1, <2>2, <2>3 DEF JoinInv
<1>6. CASE OnInfo /\ sstate \in {"PREAUTH", "AUTH"}
  <2>1. /\ sstate' = "CONNECTING" /\ isReady' = isReady /\ ~isReady
        /\ Sent([type |-> "MAP_CHANGE", map |-> smap'])
    BY <1>1, <1>4, <1>6 DEF OnInfo, Send, Sent, HasPlayer
  <2>2. toClient' \in Seq(Message) /\ MapsInQueue' /\ ToldLast'
    BY <1>1, <1>4, <2>1, SentMapChange
  <2>3. ReadyToEnter'
    BY <2>1 DEF ReadyToEnter
  <2> QED BY <1>2, <1>3, <1>4, <2>1, <2>2, <2>3 DEF JoinInv
<1>7. CASE OnInfo /\ sstate \notin {"PREAUTH", "AUTH"}
  <2>1. UNCHANGED <<toClient, isReady, sstate>>
    BY <1>7 DEF OnInfo
  <2>2. MapsInQueue' /\ ToldLast' /\ ReadyToEnter'
    BY <1>1, <1>4, <2>1, SameQueue DEF StartsOver, HasPlayer
  <2> QED BY <1>2, <1>3, <1>4, <2>1, <2>2 DEF JoinInv
<1>8. CASE OnRequestMapData
  <2>1. UNCHANGED <<isReady, sstate>>
    BY <1>8 DEF OnRequestMapData
  <2>2. StartsOver' = StartsOver /\ HasPlayer' = HasPlayer
    BY <2>1 DEF StartsOver, HasPlayer
  <2>3. CASE toClient' = toClient
    <3>1. MapsInQueue' /\ ToldLast' /\ ReadyToEnter'
      BY <1>1, <1>4, <2>1, <2>2, <2>3, SameQueue
    <3> QED BY <1>2, <1>3, <1>4, <2>1, <2>3, <3>1 DEF JoinInv
  <2>4. CASE toClient' # toClient
    <3> DEFINE msg == [type |-> "MAP_DATA", map |-> smap]
    <3>1. Sent(msg)
      BY <1>8, <2>4 DEF OnRequestMapData, Send, Sent
    <3>2. msg \in Message /\ msg.type = "MAP_DATA" /\ msg.map \in Maps
      BY <1>4 DEF Message, ToClientTypes
    <3> HIDE DEF msg
    <3>3. toClient' \in Seq(Message) /\ MapsInQueue' /\ ToldLast'
          /\ (isReady /\ isReady' /\ HasPlayer' => ReadyToEnter')
      BY <1>1, <2>2, <3>1, <3>2, SentOther
    <3>4. ReadyToEnter'
      BY <1>4, <2>1, <2>2, <3>3 DEF ReadyToEnter
    <3> QED BY <1>2, <1>3, <1>4, <2>1, <3>3, <3>4 DEF JoinInv
  <2> QED BY <2>3, <2>4
<1>9. CASE OnReady
  <2> DEFINE msg == [type |-> "CON_READY", map |-> NoMap]
  <2>1. Sent(msg)
    BY <1>9 DEF OnReady, Send, Sent
  <2>2. msg \in Message /\ msg.type = "CON_READY"
    BY DEF Message, ToClientTypes
  <2> HIDE DEF msg
  <2>3. \/ sstate = "CONNECTING" /\ sstate' = "READY" /\ isReady' = FALSE
        \/ UNCHANGED <<sstate, isReady>>
    BY <1>9 DEF OnReady
  <2>4. StartsOver' = StartsOver
    BY <2>3 DEF StartsOver
  <2>5. toClient' \in Seq(Message) /\ MapsInQueue' /\ ToldLast'
        /\ (isReady /\ isReady' /\ HasPlayer' => ReadyToEnter')
    BY <1>1, <2>1, <2>2, <2>4, SentOther
  <2>6. ReadyToEnter'
    BY <1>4, <2>3, <2>5 DEF ReadyToEnter, HasPlayer
  <2>7. sstate' = "INGAME" => isReady'
    BY <1>4, <2>3
  <2>8. isReady' \in BOOLEAN
        /\ sstate' \in {"PREAUTH", "AUTH", "CONNECTING", "READY", "INGAME"}
    BY <1>4, <2>3
  <2> QED BY <1>2, <1>3, <2>5, <2>6, <2>7, <2>8 DEF JoinInv
<1>10. CASE OnStartInfo /\ HasPlayer /\ ~isReady
  <2> DEFINE msg == [type |-> "READYTOENTER", map |-> NoMap]
  <2>1. Sent(msg) /\ isReady' = TRUE /\ sstate' = sstate
    BY <1>10 DEF OnStartInfo, Send, Sent
  <2>2. msg \in Message /\ msg.type = "READYTOENTER"
    BY DEF Message, ToClientTypes
  <2> HIDE DEF msg
  <2>3. StartsOver' = StartsOver /\ HasPlayer'
    BY <1>10, <2>1 DEF StartsOver, HasPlayer
  <2>4. toClient' \in Seq(Message) /\ MapsInQueue' /\ ToldLast'
    BY <1>1, <2>1, <2>2, <2>3, SentOther
  <2>5. ReadyToEnter'
    <3>0. PICK i \in Nat : i = Len(toClient) + 1
      BY <1>4
    <3>1. i \in 1 .. Len(toClient') /\ toClient'[i] = msg /\ LastMap(i)'
      BY <1>4, <2>1, <2>2, <3>0, SentFacts
    <3>2. Is(i, "READYTOENTER")'
      BY <2>2, <3>1 DEF Is
    <3> QED BY <2>3, <3>1, <3>2 DEF ReadyToEnter
  <2> QED BY <1>2, <1>3, <1>4, <2>1, <2>4, <2>5 DEF JoinInv
<1>11. CASE OnStartInfo /\ ~(HasPlayer /\ ~isReady)
  <2>1. UNCHANGED <<toClient, isReady, sstate>>
    BY <1>11 DEF OnStartInfo
  <2>2. MapsInQueue' /\ ToldLast' /\ ReadyToEnter'
    BY <1>1, <1>4, <2>1, SameQueue DEF StartsOver, HasPlayer
  <2> QED BY <1>2, <1>3, <1>4, <2>1, <2>2 DEF JoinInv
<1>12. CASE OnEnterGame
  <2>1. /\ UNCHANGED <<toClient, isReady>>
        /\ sstate' = IF MayEnter THEN "INGAME" ELSE sstate
    BY <1>12 DEF OnEnterGame
  <2>2. /\ sstate' \in {"PREAUTH", "AUTH", "CONNECTING", "READY", "INGAME"}
        /\ StartsOver' = StartsOver /\ HasPlayer' = HasPlayer
        /\ sstate' = "INGAME" => isReady
    BY <1>4, <2>1 DEF MayEnter, StartsOver, HasPlayer
  <2>3. MapsInQueue' /\ ToldLast' /\ ReadyToEnter'
    BY <1>1, <1>4, <2>1, <2>2, SameQueue
  <2> QED BY <1>2, <1>3, <1>4, <2>1, <2>2, <2>3 DEF JoinInv
<1> QED BY <1>5, <1>6, <1>7, <1>8, <1>9, <1>10, <1>11, <1>12 DEF ServerStep

(* The client follows the last thing it was told. *)
LEMMA ClientStepInv == JoinInv /\ ClientStep => JoinInv'
<1> SUFFICES ASSUME JoinInv, ClientStep PROVE JoinInv'
  OBVIOUS
<1> USE DEF serverVars, clientVars
<1>1. /\ UNCHANGED <<smap, round, sstate, isReady, leftover>>
  BY DEF ClientStep, OnMapChangeLoad, OnMapChangeFetch, OnMapData, OnConReady,
         OnReadyToEnter, Told
<1>2. /\ JoinTypeOK /\ toServer \in Seq(ToServerTypes)
      /\ \A type \in ToServerTypes : Append(toServer, type) \in Seq(ToServerTypes)
  BY ServerQueue DEF JoinInv, JoinTypeOK
<1>3. CASE OnMapChangeLoad
  <2>1. /\ Got("MAP_CHANGE") /\ told' = Head(toClient).map
        /\ entered' = FALSE /\ replaced' = FALSE /\ cstate' = "LOADING"
        /\ cmap' = Head(toClient).map /\ toServer' = Append(toServer, "READY")
        /\ UNCHANGED <<disk, task>>
    BY <1>3 DEF OnMapChangeLoad, Told, Load
  <2>2. /\ toClient' \in Seq(Message) /\ Head(toClient).map \in Maps
        /\ MapsInQueue' /\ ToldLast' /\ ReadyToEnter'
        /\ sstate' = "INGAME" => isReady'
    BY <1>1, <2>1, GotMessage
  <2>3. JoinTypeOK'
    BY <1>1, <1>2, <2>1, <2>2 DEF JoinTypeOK, Message, ToServerTypes
  <2>4. Follows'
    BY <2>1 DEF Follows
  <2> QED BY <2>2, <2>3, <2>4 DEF JoinInv
<1>4. CASE OnMapChangeFetch
  <2>1. /\ Got("MAP_CHANGE") /\ told' = Head(toClient).map
        /\ entered' = FALSE /\ replaced' = FALSE /\ cstate' = "LOADING"
        /\ task' = [map |-> Head(toClient).map, http |-> Http]
        /\ toServer' \in {toServer, Append(toServer, "REQUEST_MAP_DATA")}
        /\ UNCHANGED <<disk, cmap>>
    BY <1>4 DEF OnMapChangeFetch, Told
  <2>2. /\ toClient' \in Seq(Message) /\ Head(toClient).map \in Maps
        /\ MapsInQueue' /\ ToldLast' /\ ReadyToEnter'
        /\ sstate' = "INGAME" => isReady'
    BY <1>1, <2>1, GotMessage
  <2>3. task' \in [map : Maps, http : BOOLEAN] /\ task'.map = told'
    BY <2>1, <2>2, JoinAssumption
  <2>4. toServer' \in Seq(ToServerTypes)
    BY <1>2, <2>1 DEF ToServerTypes
  <2>5. JoinTypeOK'
    BY <1>1, <1>2, <2>1, <2>2, <2>3, <2>4 DEF JoinTypeOK, Message
  <2>6. Follows'
    BY <2>3 DEF Follows
  <2> QED BY <2>2, <2>5, <2>6 DEF JoinInv
<1>5. CASE OnMapData
  <2>1. Got("MAP_DATA") /\ UNCHANGED <<told, entered>>
    BY <1>5 DEF OnMapData
  <2>2. /\ toClient' \in Seq(Message) /\ Head(toClient).map \in Maps
        /\ MapsInQueue' /\ ToldLast' /\ ReadyToEnter'
        /\ sstate' = "INGAME" => isReady'
    BY <1>1, <2>1, GotMessage
  <2>3. CASE WantedData
    <3>1. task.map \in Maps
      BY <2>2, <2>3 DEF WantedData
    <3>2. /\ replaced' = (replaced \/ task.map # told)
          /\ disk' = disk \cup {task.map} /\ cstate' = "LOADING" /\ cmap' = task.map
          /\ toServer' = Append(toServer, "READY") /\ task' = NoTask
      BY <1>5, <2>3 DEF OnMapData, Finish, Load
    <3>3. replaced' \in BOOLEAN
      BY <3>2, Zenon
    <3>4. JoinTypeOK'
      BY <1>1, <1>2, <2>1, <2>2, <3>1, <3>2, <3>3 DEF JoinTypeOK, Message, ToServerTypes
    <3>5. Follows'
      BY <2>1, <3>2 DEF Follows
    <3> QED BY <2>2, <3>4, <3>5 DEF JoinInv
  <2>4. CASE ~WantedData
    <3>1. UNCHANGED <<cstate, cmap, disk, task, replaced, toServer>>
      BY <1>5, <2>4 DEF OnMapData
    <3>2. JoinTypeOK' /\ Follows'
      BY <1>1, <1>2, <2>1, <2>2, <3>1 DEF JoinTypeOK, Message, Follows, JoinInv
    <3> QED BY <2>2, <3>2 DEF JoinInv
  <2> QED BY <2>3, <2>4
<1>6. CASE OnConReady \/ OnReadyToEnter
  <2> DEFINE type == IF OnConReady THEN "CON_READY" ELSE "READYTOENTER"
  <2>1. /\ Got(type) /\ UNCHANGED <<cstate, cmap, disk, task, told, replaced>>
        /\ type = "READYTOENTER" => entered' = TRUE
        /\ type # "READYTOENTER" => entered' = entered
        /\ toServer' \in {Append(toServer, "STARTINFO"), Append(toServer, "ENTERGAME")}
        /\ type \in {"CON_READY", "READYTOENTER"}
    BY <1>6 DEF OnConReady, OnReadyToEnter
  <2> HIDE DEF type
  <2>2. /\ toClient' \in Seq(Message)
        /\ MapsInQueue' /\ ToldLast' /\ ReadyToEnter'
        /\ sstate' = "INGAME" => isReady'
    BY <1>1, <2>1, GotMessage
  <2>3. toServer' \in Seq(ToServerTypes) /\ entered' \in BOOLEAN
    BY <1>2, <2>1 DEF ToServerTypes, JoinTypeOK
  <2>4. JoinTypeOK' /\ Follows'
    BY <1>1, <1>2, <2>1, <2>2, <2>3 DEF JoinTypeOK, Message, Follows, JoinInv
  <2> QED BY <2>2, <2>4 DEF JoinInv
<1> QED BY <1>3, <1>4, <1>5, <1>6 DEF ClientStep

LEMMA MapChangeInv == JoinInv /\ MapChange => JoinInv'
<1> SUFFICES ASSUME JoinInv, MapChange PROVE JoinInv'
  OBVIOUS
<1> USE DEF clientVars
<1>1. /\ smap' \in Maps /\ round' = round + 1 /\ round < MaxRounds /\ isReady' = FALSE
      /\ UNCHANGED <<cstate, cmap, disk, task, told, entered, replaced, toServer>>
  BY DEF MapChange
<1>2. JoinTypeOK /\ toClient \in Seq(Message)
  BY DEF JoinInv, JoinTypeOK, Message
<1>3. leftover' \in BOOLEAN /\ round' \in 1 .. MaxRounds
  <2>1. leftover' \in BOOLEAN
    BY Zenon DEF MapChange
  <2> QED BY <1>1, <1>2, <2>1, JoinAssumption DEF JoinTypeOK
<1>4. Follows' /\ ReadyToEnter'
  BY <1>1 DEF JoinInv, Follows, ReadyToEnter
<1>5. CASE StartsOver
  <2>1. sstate' = "CONNECTING" /\ Sent([type |-> "MAP_CHANGE", map |-> smap'])
    BY <1>5 DEF MapChange, Sent
  <2>2. toClient' \in Seq(Message) /\ MapsInQueue' /\ ToldLast'
    BY <1>1, <2>1, SentMapChange
  <2>3. JoinTypeOK'
    BY <1>1, <1>2, <1>3, <2>1, <2>2 DEF JoinTypeOK, Message
  <2> QED BY <1>4, <2>1, <2>2, <2>3 DEF JoinInv
<1>6. CASE ~StartsOver
  <2>1. UNCHANGED <<sstate, toClient>>
    BY <1>6 DEF MapChange
  <2>2. MapsInQueue' /\ ToldLast'
    BY <1>6, <2>1 DEF JoinInv, MapsInQueue, Is, ToldLast, StartsOver
  <2>3. JoinTypeOK'
    BY <1>1, <1>2, <1>3, <2>1 DEF JoinTypeOK
  <2>4. sstate' # "INGAME"
    BY <1>6, <2>1 DEF StartsOver
  <2> QED BY <1>4, <2>2, <2>3, <2>4 DEF JoinInv
<1> QED BY <1>5, <1>6

(* What happens to the client's maps and its state between messages. *)
LEMMA DownloadInv == JoinInv /\ (HttpDone \/ HttpFailed \/ Online) => JoinInv'
<1> SUFFICES ASSUME JoinInv, HttpDone \/ HttpFailed \/ Online PROVE JoinInv'
  OBVIOUS
<1> USE DEF serverVars, clientVars
<1>1. UNCHANGED <<smap, round, sstate, isReady, told, entered, leftover, toClient>>
  BY DEF HttpDone, HttpFailed, Online
<1>2. MapsInQueue' /\ ToldLast' /\ ReadyToEnter' /\ (sstate' = "INGAME" => isReady')
  <2>1. StartsOver' = StartsOver /\ (isReady => HasPlayer')
    BY <1>1 DEF StartsOver, HasPlayer, JoinInv, ReadyToEnter
  <2> QED BY <1>1, <2>1, SameQueue DEF JoinInv
<1>3. /\ JoinTypeOK
      /\ \A type \in ToServerTypes : Append(toServer, type) \in Seq(ToServerTypes)
      /\ task.http => task.map \in Maps /\ task \in [map : Maps, http : BOOLEAN]
  BY ServerQueue DEF JoinInv, JoinTypeOK, NoTask
<1>4. CASE HttpDone
  <2>1. /\ replaced' = (replaced \/ task.map # told)
        /\ disk' = disk \cup {task.map} /\ cstate' = "LOADING" /\ cmap' = task.map
        /\ toServer' = Append(toServer, "READY") /\ task' = NoTask /\ task.http
    BY <1>4 DEF HttpDone, Finish, Load
  <2>2. replaced' \in BOOLEAN
    BY <2>1, Zenon
  <2>3. JoinTypeOK'
    BY <1>1, <1>3, <2>1, <2>2 DEF JoinTypeOK, ToServerTypes
  <2>4. Follows'
    BY <1>1, <2>1 DEF Follows
  <2> QED BY <1>2, <2>3, <2>4 DEF JoinInv
<1>5. CASE HttpFailed
  <2>1. /\ task' = [task EXCEPT !.http = FALSE] /\ task.http
        /\ toServer' = Append(toServer, "REQUEST_MAP_DATA")
        /\ UNCHANGED <<cstate, cmap, disk, replaced>>
    BY <1>5 DEF HttpFailed
  <2>2. task' \in [map : Maps, http : BOOLEAN] /\ task'.map = task.map
    BY <1>3, <2>1
  <2>3. JoinTypeOK'
    BY <1>1, <1>3, <2>1, <2>2 DEF JoinTypeOK, ToServerTypes
  <2>4. Follows'
    BY <1>1, <2>1, <2>2 DEF JoinInv, Follows
  <2> QED BY <1>2, <2>3, <2>4 DEF JoinInv
<1>6. CASE Online
  <2>1. cstate' = "ONLINE" /\ UNCHANGED <<cmap, disk, task, replaced, toServer>>
    BY <1>6 DEF Online
  <2>2. JoinTypeOK' /\ Follows'
    BY <1>1, <1>3, <2>1 DEF JoinTypeOK, JoinInv, Follows
  <2> QED BY <1>2, <2>2 DEF JoinInv
<1> QED BY <1>4, <1>5, <1>6

LEMMA JoinNextInv == JoinInv /\ [JoinNext]_joinVars => JoinInv'
<1> SUFFICES ASSUME JoinInv, [JoinNext]_joinVars PROVE JoinInv'
  OBVIOUS
<1>1. CASE UNCHANGED joinVars
  <2>1. UNCHANGED <<smap, round, sstate, isReady, cstate, cmap, disk, task, told, entered,
                    replaced, leftover, toClient, toServer>>
    BY <1>1 DEF joinVars, serverVars, clientVars
  <2>2. JoinTypeOK' /\ Follows'
    BY <2>1 DEF JoinInv, JoinTypeOK, Follows
  <2>3. MapsInQueue' /\ ToldLast' /\ ReadyToEnter'
    <3>1. StartsOver' = StartsOver /\ (isReady => HasPlayer')
      BY <2>1 DEF StartsOver, HasPlayer, JoinInv, ReadyToEnter
    <3> QED BY <2>1, <3>1, SameQueue
  <2> QED BY <2>1, <2>2, <2>3 DEF JoinInv
<1> QED BY <1>1, ServerStepInv, ClientStepInv, MapChangeInv, DownloadInv DEF JoinNext

LEMMA JoinInvariant == JoinSpec => []JoinInv
BY JoinInitInv, JoinNextInv, PTL DEF JoinSpec

(* The types of the variables (JoinTypeOK). *)
THEOREM JoinTypeCorrect == JoinSpec => []JoinTypeOK
<1>1. JoinInv => JoinTypeOK
  BY DEF JoinInv
<1> QED BY <1>1, JoinInvariant, PTL

LEMMA PendingFacts ==
  ASSUME toClient \in Seq(Message)
  PROVE  \A type : type \in Pending <=> \E i \in 1 .. Len(toClient) : Is(i, type)
BY DEF Pending, Is

(* However many changes of map overtake each other and whatever way the    *)
(* client gets its maps: when it has taken all it was told and is not      *)
(* downloading the server's map it has loaded it, unless a download for an *)
(* earlier one has ended since (ReplacedOnlyByDownload:                    *)
(* CClient::ProcessServerPacket, CClient::FinishMapDownload).              *)
THEOREM ReplacedTheorem == JoinSpec => []ReplacedOnlyByDownload
<1>1. JoinInv => ReplacedOnlyByDownload
  <2> SUFFICES ASSUME JoinInv, StartsOver, "MAP_CHANGE" \notin Pending, task.map # smap
               PROVE  cmap = smap \/ replaced
    BY DEF ReplacedOnlyByDownload, HasServersMap, StartsOver
  <2>1. LastMap(0)
    BY PendingFacts DEF JoinInv, JoinTypeOK, Message, LastMap
  <2>2. told = smap /\ smap # NoMap
    BY <2>1, JoinAssumption DEF JoinInv, ToldLast, JoinTypeOK
  <2> QED BY <2>2 DEF JoinInv, Follows
<1> QED BY <1>1, JoinInvariant, PTL

(* A client that the server has in the game, and that has taken what the   *)
(* server told it, has entered since the last change of map                *)
(* (ResetEachRound: CServer::ProcessClientPacket, CClient::OnEnterGame).   *)
THEOREM ResetTheorem == JoinSpec => []ResetEachRound
<1>1. JoinInv => ResetEachRound
  <2> SUFFICES ASSUME JoinInv, sstate = "INGAME",
                      Pending \cap {"MAP_CHANGE", "READYTOENTER"} = {}
               PROVE  entered
    BY DEF ResetEachRound
  <2>1. \A i \in 1 .. Len(toClient) : ~Is(i, "READYTOENTER")
    BY PendingFacts DEF JoinInv, JoinTypeOK, Message
  <2> QED BY <2>1 DEF JoinInv, ReadyToEnter
<1> QED BY <1>1, JoinInvariant, PTL

-----------------------------------------------------------------------------
(* SnapSync implements Join: what it calls being online is Online of Join, *)
(* since snapshots are sent to a client in the game.                       *)
Sendable == sstate = "INGAME" \/ leftover

InRound == snaps # {} => Sendable

SnapJoinInv == JoinInv /\ InRound

LEMMA SnapRefinesJoin == SnapJoinInv /\ [SnapNext]_vars => [JoinNext]_joinVars
<1> SUFFICES ASSUME SnapJoinInv, [SnapNext]_vars PROVE [JoinNext]_joinVars
  OBVIOUS
<1>1. CASE JoinStep
  BY <1>1 DEF JoinStep, JoinNext, ServerStep, ClientStep
<1>2. CASE SnapMapChange \/ SnapLoad \/ SnapEnter
  BY <1>2 DEF SnapMapChange, SnapLoad, SnapEnter, JoinNext, ClientStep
<1>3. CASE OnSnapTaken
  <2>1. Sendable
    BY <1>3 DEF OnSnapTaken, Assembled, Deliver, SnapJoinInv, InRound
  <2>2. /\ cstate' = "ONLINE" \/ cstate' = cstate
        /\ UNCHANGED <<serverVars, cmap, disk, task, told, entered, replaced, leftover,
                       toClient, toServer>>
    BY <1>3 DEF OnSnapTaken
  <2>3. CASE cstate' = cstate
    BY <2>2, <2>3 DEF joinVars, clientVars
  <2>4. CASE cstate' # cstate
    <3>1. cstate = "LOADING"
      BY <2>2, <2>4 DEF SnapJoinInv, JoinInv, JoinTypeOK
    <3> QED BY <2>1, <2>2, <2>4, <3>1 DEF Sendable, Online, JoinNext
  <2> QED BY <2>3, <2>4
<1>4. CASE UNCHANGED joinVars
  BY <1>4
<1> QED BY <1>1, <1>2, <1>3, <1>4 DEF SnapNext, Tick, OnInput, Update, OnSnapIgnored,
           OnSnapPart, OnSnapNoBase, OnSnapGarbled, Lose, BecomeCalm, vars

(* Leaving the game, a client may still be sent what is on its way. *)
LEMMA StaysSendable == Sendable /\ [JoinNext]_joinVars => Sendable'
<1> SUFFICES ASSUME Sendable, [JoinNext]_joinVars PROVE Sendable'
  OBVIOUS
<1> USE DEF Sendable, joinVars, serverVars, clientVars
<1>1. CASE MapChange
  BY <1>1, Zenon DEF MapChange
<1>2. CASE ServerStep
  BY <1>2 DEF ServerStep, OnClientVer, OnInfo, OnRequestMapData, OnReady, OnStartInfo,
              OnEnterGame
<1>3. CASE ClientStep
  BY <1>3 DEF ClientStep, OnMapChangeLoad, OnMapChangeFetch, OnMapData, OnConReady,
              OnReadyToEnter, Told
<1>4. CASE HttpDone \/ HttpFailed \/ Online
  BY <1>4 DEF HttpDone, HttpFailed, Online
<1>5. CASE UNCHANGED joinVars
  BY <1>5
<1> QED BY <1>1, <1>2, <1>3, <1>4, <1>5 DEF JoinNext

(* Snapshots are put into the network by a tick of the server only. *)
LEMMA WhoSendsSnaps ==
  ASSUME [SnapNext]_vars
  PROVE  snaps' \subseteq snaps \/ (Tick /\ Due(tick'))
BY DEF SnapNext, vars, snapVars, JoinStep, SnapMapChange, SnapLoad, SnapEnter, Tick,
       OnInput, Update, OnSnapIgnored, OnSnapPart, OnSnapNoBase, OnSnapGarbled,
       OnSnapTaken, Assembled, Deliver, Lose, BecomeCalm

LEMMA SnapJoinStep == SnapJoinInv /\ [SnapNext]_vars => SnapJoinInv'
<1> SUFFICES ASSUME SnapJoinInv, [SnapNext]_vars PROVE SnapJoinInv'
  OBVIOUS
<1>1. [JoinNext]_joinVars
  BY SnapRefinesJoin
<1>2. JoinInv'
  BY <1>1, JoinNextInv DEF SnapJoinInv
<1>3. InRound'
  <2>1. CASE snaps' \subseteq snaps
    BY <1>1, <2>1, StaysSendable DEF SnapJoinInv, InRound
  <2>2. CASE Tick /\ Due(tick')
    <3>1. Sendable
      BY <2>2 DEF Due, Sendable
    <3> QED BY <1>1, <3>1, StaysSendable DEF InRound
  <2> QED BY <2>1, <2>2, WhoSendsSnaps
<1> QED BY <1>2, <1>3 DEF SnapJoinInv

LEMMA SnapJoinInvariant == SnapSpec => []SnapJoinInv
<1>1. SnapInit => SnapJoinInv
  BY JoinInitInv DEF SnapInit, SnapJoinInv, InRound
<1> QED BY <1>1, SnapJoinStep, PTL DEF SnapSpec

(* With all that happens to snapshots, a client gets into the game and     *)
(* through changes of map only as Join says it does (JoinSpec:             *)
(* CServer::DoSnapshot, CClient::ProcessServerPacket).                     *)
THEOREM JoinTheorem == SnapSpec => JoinSpec
<1>1. SnapInit => JoinInit
  BY DEF SnapInit
<1> QED BY <1>1, SnapJoinInvariant, SnapRefinesJoin, PTL DEF SnapSpec, JoinSpec

-----------------------------------------------------------------------------
(* The operators of SnapSync. *)

(* The least of some numbers. *)
LEMMA MinOf ==
  ASSUME NEW S \in SUBSET Int, S # {}, \A x \in S : x >= -1
  PROVE  Min(S) \in S /\ \A x \in S : Min(S) <= x
<1> DEFINE T == {x + 1 : x \in S}
           R == OpToRel(<, Nat)
<1>1. \A x \in S : x \in Int /\ x + 1 \in Nat
  OBVIOUS
<1>2. T \subseteq Nat /\ T # {}
  BY <1>1
<1>3. IsWellFoundedOn(R, Nat)
  BY NatLessThanWellFounded
<1>4. \A x \in Nat, y \in Nat : y < x => <<y, x>> \in R
  BY DEF OpToRel
<1> HIDE DEF R
<1>5. PICK n \in T : \A k \in T : ~ (<<k, n>> \in R)
  <2> HIDE DEF T
  <2> QED BY <1>2, <1>3, WFMin, Zenon
<1>6. PICK u \in S : n = u + 1
  BY <1>5
<1>7. ASSUME NEW x \in S PROVE u <= x
  <2>1. x + 1 \in T /\ x + 1 \in Nat /\ u + 1 \in Nat
    BY <1>1
  <2>2. ~ (x + 1 < u + 1)
    BY <1>4, <1>5, <1>6, <2>1
  <2> QED BY <1>1, <2>2
<1>8. \E x \in S : \A y \in S : x =< y
  BY <1>7
<1> QED BY <1>8 DEF Min

(* A purge leaves the end of the storage, with all that is recent enough.  *)
LEMMA PurgeFacts ==
  ASSUME storage \in Seq(Holder), NEW t \in Acks
  PROVE  /\ PurgeUntil(t) \in Seq(Holder)
         /\ \E d \in 0 .. Len(storage) :
              /\ Len(PurgeUntil(t)) = Len(storage) - d
              /\ \A i \in 1 .. Len(PurgeUntil(t)) : PurgeUntil(t)[i] = storage[i + d]
              /\ \A i \in 1 .. Len(storage) : storage[i].tick >= t => i > d
<1> DEFINE kept == {i \in DOMAIN storage : storage[i].tick >= t}
           n == Len(storage)
<1>0. n \in Nat /\ DOMAIN storage = 1 .. n
  OBVIOUS
<1>1. CASE kept = {}
  <2>1. PurgeUntil(t) = << >>
    BY <1>1 DEF PurgeUntil
  <2>2. \A i \in 1 .. n : ~ (storage[i].tick >= t)
    BY <1>0, <1>1
  <2>3. n \in 0 .. n /\ Len(PurgeUntil(t)) = n - n /\ PurgeUntil(t) \in Seq(Holder)
    BY <1>0, <2>1
  <2>4. \A i \in 1 .. Len(PurgeUntil(t)) : PurgeUntil(t)[i] = storage[i + n]
    BY <1>0, <2>1
  <2>5. \A i \in 1 .. n : storage[i].tick >= t => i > n
    BY <2>2, Zenon
  <2> QED BY <2>3, <2>4, <2>5
<1>2. CASE kept # {}
  <2> DEFINE k == Min(kept)
  <2>1. k \in kept /\ \A i \in kept : k <= i
    <3>1. kept \in SUBSET Int /\ \A i \in kept : i >= -1
      BY <1>0
    <3> HIDE DEF kept
    <3> QED BY <1>2, <3>1, MinOf
  <2>3. PurgeUntil(t) = SubSeq(storage, k, n)
    BY <1>2 DEF PurgeUntil
  <2> HIDE DEF k
  <2>4. k \in 1 .. n
    BY <1>0, <2>1
  <2>5. /\ SubSeq(storage, k, n) \in Seq(Holder)
        /\ Len(SubSeq(storage, k, n)) = n - (k - 1)
        /\ \A i \in 1 .. n - (k - 1) : SubSeq(storage, k, n)[i] = storage[i + (k - 1)]
    BY <1>0, <2>4
  <2>6. \A i \in 1 .. n : storage[i].tick >= t => i > k - 1
    BY <1>0, <2>1, <2>4
  <2>7. k - 1 \in 0 .. n
    BY <1>0, <2>4
  <2> QED BY <2>3, <2>5, <2>6, <2>7
<1> QED BY <1>1, <1>2

(* The data a delta is applied to. *)
LEMMA BaseFacts ==
  ASSUME storage \in Seq(Holder), NEW m, HasBase(m)
  PROVE  /\ m.delta = None => BaseData(m) = Empty
         /\ m.delta # None =>
              \E i \in 1 .. Len(storage) :
                storage[i].tick = m.delta /\ BaseData(m) = storage[i].data
<1>1. CASE m.delta = None
  BY <1>1 DEF BaseData
<1>2. CASE m.delta # None
  <2> DEFINE H == HoldersAt(m.delta)
  <2>1. H # {} /\ BaseData(m) = storage[Min(H)].data
    BY <1>2 DEF HasBase, BaseData
  <2>2. H \subseteq 1 .. Len(storage) /\ \A i \in H : storage[i].tick = m.delta
    BY DEF HoldersAt
  <2>3. Min(H) \in H
    <3>1. H \in SUBSET Int /\ \A i \in H : i >= -1
      BY <2>2
    <3> HIDE DEF H
    <3> QED BY <2>1, <3>1, MinOf
  <2> QED BY <1>2, <2>1, <2>2, <2>3
<1> QED BY <1>1, <1>2

(* What a datagram says of itself. *)
WellFormed(m) ==
  /\ m.part < m.numParts
  /\ m.round \in 1 .. MaxRounds
  /\ m.delta = None => m.base = Empty
  /\ m.delta # None => m.base \in Worlds
  /\ m.empty <=> m.base = m.world

Rates == {"INIT", "FULL", "RECOVER"}

ServerTypes ==
  /\ tick \in Ticks
  /\ rate \in Rates
  /\ lastAcked \in Acks
  /\ DOMAIN backlog \in SUBSET Ticks
  /\ \A t \in DOMAIN backlog : backlog[t] \in Worlds

NetTypes ==
  /\ snaps \in SUBSET Datagram
  /\ \A m \in snaps : WellFormed(m)
  /\ inputs \in SUBSET Acks
  /\ calm \in Acks
  /\ polled \in BOOLEAN

PartsOK(f) ==
  /\ DOMAIN f \in SUBSET (0 .. MaxParts - 1)
  /\ \A p \in DOMAIN f : f[p] \in Datagram

ClientTypes ==
  /\ storage \in Seq(Holder)
  /\ recvTick \in Ticks
  /\ PartsOK(parts)
  /\ ack \in Acks
  /\ received \in 0 .. 3
  /\ shown \in [prev : Acks, cur : Acks]
  /\ predicting \in BOOLEAN
  /\ crcErrors \in 0 .. MaxCrcErrors
  /\ rounds \in SUBSET (1 .. MaxRounds)

SnapTypes == ServerTypes /\ NetTypes /\ ClientTypes

LEMMA BacklogFacts ==
  ASSUME ServerTypes, NEW t \in Ticks, NEW world \in Worlds
  PROVE  /\ DOMAIN Backlog(t, world) \in SUBSET Ticks
         /\ t \in DOMAIN Backlog(t, world)
         /\ Backlog(t, world)[t] = world
         /\ \A s \in DOMAIN Backlog(t, world) :
              /\ Backlog(t, world)[s] \in Worlds
              /\ s # t => s \in DOMAIN backlog /\ Backlog(t, world)[s] = backlog[s]
<1> DEFINE kept == {s \in DOMAIN backlog : s >= t - KeepSeconds * TickSpeed}
<1>1. kept \subseteq DOMAIN backlog
  OBVIOUS
<1> HIDE DEF kept
<1>2. Backlog(t, world) = [s \in kept \cup {t} |-> IF s = t THEN world ELSE backlog[s]]
  BY DEF Backlog, kept
<1> QED BY <1>1, <1>2 DEF ServerTypes

(* What DoSnapshot puts into the network. *)
LEMMA DoSnapshotFacts ==
  ASSUME ServerTypes, round \in 1 .. MaxRounds, NEW t \in Ticks, DoSnapshot(t)
  PROVE  /\ rate' \in Rates
         /\ \E world \in Worlds :
              /\ backlog' = Backlog(t, world)
              /\ \A m \in snaps' \ snaps :
                   /\ m \in Datagram /\ WellFormed(m)
                   /\ m.tick = t /\ m.world = world /\ m.round = round
                   /\ m.delta # None =>
                        m.delta \in DOMAIN backlog' /\ m.base = backlog'[m.delta]
<1>1. PICK world \in Worlds, n \in 1 .. MaxParts :
        LET log == Backlog(t, world)
            delta == DeltaTick(log)
            base == IF delta = None THEN Empty ELSE log[delta]
            new == {[tick |-> t, delta |-> delta, numParts |-> n, part |-> p,
                     base |-> base, world |-> world, empty |-> base = world,
                     round |-> round] : p \in 0 .. n - 1}
        IN  /\ backlog' = log
            /\ rate' = RateAfter(delta)
            /\ snaps' = snaps \cup new
  BY DEF DoSnapshot
<1> DEFINE log == Backlog(t, world)
           delta == DeltaTick(log)
           base == IF delta = None THEN Empty ELSE log[delta]
           new == {[tick |-> t, delta |-> delta, numParts |-> n, part |-> p,
                     base |-> base, world |-> world, empty |-> base = world,
                     round |-> round] : p \in 0 .. n - 1}
<1>2. backlog' = log /\ rate' = RateAfter(delta) /\ snaps' = snaps \cup new
  BY <1>1
<1>3. rate' \in Rates
  BY <1>2 DEF RateAfter, ServerTypes, Rates
<1>4. DOMAIN log \in SUBSET Ticks /\ \A s \in DOMAIN log : log[s] \in Worlds
  BY BacklogFacts
<1>5. /\ delta \in Acks
      /\ delta # None => delta \in DOMAIN log
  <2> HIDE DEF log
  <2> QED BY <1>4 DEF DeltaTick, Acks
<1>6. /\ delta = None => base = Empty
      /\ delta # None => base \in Worlds /\ base = log[delta]
      /\ base \in Worlds \cup {Empty}
  <2> HIDE DEF log, delta
  <2> QED BY <1>4, <1>5
<1>7. (base = world) \in BOOLEAN /\ n \in 1 .. MaxParts /\ MaxParts \in Nat
  BY SnapAssumption
<1> HIDE DEF log, delta, base
<1>8. ASSUME NEW m \in new
      PROVE  /\ m \in Datagram /\ WellFormed(m)
             /\ m.tick = t /\ m.world = world /\ m.round = round
             /\ m.delta # None => m.delta \in DOMAIN log /\ m.base = log[m.delta]
  <2>1. PICK p \in 0 .. n - 1 :
          m = [tick |-> t, delta |-> delta, numParts |-> n, part |-> p,
               base |-> base, world |-> world, empty |-> base = world, round |-> round]
    OBVIOUS
  <2>2. p \in Nat /\ p < n /\ round \in Nat
    BY <1>7
  <2>3. m \in Datagram
    <3>1. m \in [tick : Ticks, delta : Acks, numParts : 1 .. MaxParts, part : Nat,
                 base : Worlds \cup {Empty}, world : Worlds, empty : BOOLEAN, round : Nat]
      BY <1>5, <1>6, <1>7, <2>1, <2>2
    <3> QED BY <3>1 DEF Datagram
  <2>4. WellFormed(m)
    <3>1. m.part < m.numParts /\ m.round \in 1 .. MaxRounds
      BY <2>1, <2>2
    <3>2. m.delta = delta /\ m.base = base /\ m.world = world /\ m.empty = (base = world)
      BY <2>1
    <3>3. m.empty <=> m.base = m.world
      BY <3>2, Zenon
    <3> QED BY <1>6, <3>1, <3>2, <3>3 DEF WellFormed
  <2> QED BY <1>5, <1>6, <2>1, <2>3, <2>4
<1>9. backlog' = Backlog(t, world) /\ backlog' = log /\ \A m \in snaps' \ snaps : m \in new
  BY <1>2 DEF log
<1> HIDE DEF new
<1> QED BY <1>3, <1>8, <1>9

(* The types of the server's part. *)
LEMMA ServerTypesStep ==
  ASSUME ServerTypes, inputs \in SUBSET Acks, round \in 1 .. MaxRounds, [SnapNext]_vars
  PROVE  ServerTypes'
<1> USE DEF serverSnapVars, clientSnapVars, calmVars, snapVars, vars
<1>1. CASE UNCHANGED serverSnapVars
  BY <1>1 DEF ServerTypes
<1>2. CASE Tick
  <2>1. PICK n \in 1 .. (IF IsCalm THEN 1 ELSE CatchUp) :
          /\ tick + n <= (IF IsCalm THEN MAX_TICK ELSE StormTicks)
          /\ tick' = tick + n
          /\ IF tick' % SnapEvery = 0 /\ Due(tick')
               THEN DoSnapshot(tick')
               ELSE UNCHANGED <<backlog, rate, snaps>>
    BY <1>2 DEF Tick
  <2>2. tick' \in Ticks
    BY <2>1, SnapAssumption DEF ServerTypes, Ticks
  <2>3. UNCHANGED lastAcked
    BY <1>2 DEF Tick
  <2>4. CASE UNCHANGED <<backlog, rate>>
    BY <2>2, <2>3, <2>4 DEF ServerTypes
  <2>5. CASE DoSnapshot(tick')
    <3>1. PICK t \in Ticks : t = tick'
      BY <2>2
    <3>2. DoSnapshot(t)
      BY <2>5, <3>1
    <3>3. rate' \in Rates /\ \E world \in Worlds : backlog' = Backlog(t, world)
      BY <3>2, DoSnapshotFacts
    <3>4. DOMAIN backlog' \in SUBSET Ticks /\ \A s \in DOMAIN backlog' : backlog'[s] \in Worlds
      BY <3>3, BacklogFacts
    <3> QED BY <2>2, <2>3, <3>3, <3>4 DEF ServerTypes
  <2> QED BY <2>1, <2>4, <2>5
<1>3. CASE OnInput
  <2>1. lastAcked' \in Acks /\ rate' \in Rates /\ UNCHANGED <<tick, backlog>>
    BY <1>3 DEF OnInput, RateAfterInput, ServerTypes, Rates
  <2> QED BY <2>1 DEF ServerTypes
<1>4. CASE SnapMapChange
  <2>1. /\ tick' = 0
        /\ \/ rate' = "INIT" /\ lastAcked' = None /\ backlog' = << >>
           \/ UNCHANGED <<rate, lastAcked, backlog>>
    BY <1>4 DEF SnapMapChange
  <2>2. 0 \in Ticks
    BY SnapAssumption DEF Ticks
  <2> QED BY <2>1, <2>2 DEF ServerTypes, Rates, Acks
<1> QED BY <1>1, <1>2, <1>3, <1>4 DEF SnapNext, JoinStep, SnapLoad, SnapEnter, Update,
           OnSnapIgnored, OnSnapPart, OnSnapNoBase, OnSnapGarbled, OnSnapTaken, Assembled,
           Lose, BecomeCalm

(* The types of the network. *)
LEMMA AddInputType ==
  ASSUME inputs \in SUBSET Acks, NEW a \in Acks
  PROVE  AddInput(a, inputs) \in SUBSET Acks
BY DEF AddInput

LEMMA NetTypesStep ==
  ASSUME SnapTypes, round \in 1 .. MaxRounds, [SnapNext]_vars
  PROVE  NetTypes'
<1> USE DEF serverSnapVars, clientSnapVars, calmVars, snapVars, vars
<1>1. /\ snaps \in SUBSET Datagram /\ \A m \in snaps : WellFormed(m)
      /\ inputs \in SUBSET Acks /\ calm \in Acks /\ polled \in BOOLEAN
      /\ ack \in Acks /\ None \in Acks /\ tick \in Acks
  BY DEF SnapTypes, NetTypes, ClientTypes, ServerTypes, Acks
<1>2. snaps' \in SUBSET Datagram /\ \A m \in snaps' : WellFormed(m)
  <2>1. CASE snaps' \subseteq snaps
    BY <1>1, <2>1
  <2>2. CASE Tick /\ ~ (snaps' \subseteq snaps)
    <3>1. DoSnapshot(tick')
      BY <2>2 DEF Tick
    <3>2. PICK t \in Ticks : t = tick'
      BY ServerTypesStep, <1>1 DEF SnapTypes, ServerTypes
    <3>3. \A m \in snaps' \ snaps : m \in Datagram /\ WellFormed(m)
      <4>1. DoSnapshot(t)
        BY <3>1, <3>2
      <4> QED BY <4>1, DoSnapshotFacts DEF SnapTypes
    <3> QED BY <1>1, <3>3
  <2> QED BY <2>1, <2>2, WhoSendsSnaps
<1>3. inputs' \in SUBSET Acks
  BY <1>1, AddInputType DEF SnapNext, JoinStep, SnapMapChange, SnapLoad, SnapEnter, Tick,
       OnInput, Update, OnSnapIgnored, OnSnapPart, OnSnapNoBase, OnSnapGarbled,
       OnSnapTaken, Assembled, Lose, BecomeCalm, MaybeSendInput
<1>4. calm' \in Acks
  BY <1>1 DEF SnapNext, JoinStep, SnapMapChange, SnapLoad, SnapEnter, Tick,
       OnInput, Update, OnSnapIgnored, OnSnapPart, OnSnapNoBase, OnSnapGarbled,
       OnSnapTaken, Assembled, Lose, BecomeCalm
<1>5. polled' \in BOOLEAN
  <2>1. CASE Update
    BY <2>1, Zenon DEF Update, IsCalm
  <2> QED BY <1>1, <2>1 DEF SnapNext, JoinStep, SnapMapChange, SnapLoad, SnapEnter, Tick,
       OnInput, OnSnapIgnored, OnSnapPart, OnSnapNoBase, OnSnapGarbled,
       OnSnapTaken, Assembled, Lose, BecomeCalm
<1> QED BY <1>2, <1>3, <1>4, <1>5 DEF NetTypes

(* A purge spares what is shown and what the delta was made against. *)
LEMMA PurgeTickFacts ==
  ASSUME ClientTypes, NEW m \in Datagram
  PROVE  /\ PurgeTick(m) \in Acks /\ PurgeTick(m) <= m.delta
         /\ \A t \in {shown.prev, shown.cur} \ {None} : PurgeTick(m) <= t
<1> DEFINE S == {m.delta} \cup ({shown.prev, shown.cur} \ {None})
<1>1. S \in SUBSET Acks /\ m.delta \in S
  BY DEF ClientTypes, Datagram
<1>2. S \in SUBSET Int /\ \A x \in S : x >= -1
  BY <1>1, SnapAssumption DEF Acks, Ticks, None
<1>3. Min(S) \in S /\ \A x \in S : Min(S) <= x
  <2> HIDE DEF S
  <2> QED BY <1>1, <1>2, MinOf
<1> QED BY <1>1, <1>3 DEF PurgeTick

(* The snapshot m is taken: the storage loses its oldest d snapshots and   *)
(* gets one more.                                                          *)
Taken(m, d) ==
  /\ m \in snaps /\ m \in Datagram /\ WellFormed(m)
  /\ Wanted(m) /\ HasBase(m)
  /\ recvTick' = m.tick /\ ack' = m.tick
  /\ rounds' = rounds \cup {m.round}
  /\ storage' \in Seq(Holder)
  /\ d \in 0 .. Len(storage)
  /\ Len(storage') = (Len(storage) - d) + 1
  /\ \A i \in 1 .. Len(storage) - d : storage'[i] = storage[i + d]
  /\ \A i \in 1 .. Len(storage) : storage[i].tick >= PurgeTick(m) => i > d
  /\ storage'[Len(storage')].tick = m.tick
  /\ storage'[Len(storage')].world = m.world
  /\ storage'[Len(storage')].data = IF m.empty THEN BaseData(m) ELSE m.world

LEMMA TakenFacts ==
  ASSUME SnapTypes, OnSnapTaken
  PROVE  \E m \in snaps : \E d \in Nat : Taken(m, d)
<1>1. PICK m \in snaps :
        /\ Assembled(m) /\ HasBase(m) /\ Unpacked(m) # Garbled
        /\ storage' = Append(PurgeUntil(PurgeTick(m)),
                             [tick |-> m.tick, data |-> Unpacked(m), world |-> m.world])
        /\ ack' = m.tick
        /\ rounds' = rounds \cup {m.round}
  BY DEF OnSnapTaken
<1>2. m \in Datagram /\ WellFormed(m) /\ storage \in Seq(Holder)
  BY DEF SnapTypes, NetTypes, ClientTypes
<1>3. Wanted(m) /\ recvTick' = m.tick
  BY <1>1 DEF Assembled
<1> DEFINE h == [tick |-> m.tick, data |-> Unpacked(m), world |-> m.world]
           p == PurgeUntil(PurgeTick(m))
<1>4. Unpacked(m) = IF m.empty THEN BaseData(m) ELSE m.world
  BY <1>1 DEF Unpacked
<1>5. BaseData(m) \in Worlds \cup {Empty}
  <2>1. CASE m.delta = None
    BY <1>1, <1>2, <2>1, BaseFacts
  <2>2. CASE m.delta # None
    <3>1. PICK i \in 1 .. Len(storage) : BaseData(m) = storage[i].data
      BY <1>1, <1>2, <2>2, BaseFacts
    <3>2. storage[i] \in Holder
      BY <1>2
    <3> QED BY <3>1, <3>2 DEF Holder
  <2> QED BY <2>1, <2>2
<1>6. h \in Holder
  <2>1. m.tick \in Ticks /\ m.world \in Worlds
    BY <1>2 DEF Datagram
  <2>2. Unpacked(m) \in Worlds \cup {Empty}
    BY <1>4, <1>5, <2>1
  <2> QED BY <2>1, <2>2 DEF Holder
<1>7. PurgeTick(m) \in Acks
  BY <1>2, PurgeTickFacts DEF SnapTypes
<1>8. /\ p \in Seq(Holder)
      /\ \E d \in 0 .. Len(storage) :
           /\ Len(p) = Len(storage) - d
           /\ \A i \in 1 .. Len(p) : p[i] = storage[i + d]
           /\ \A i \in 1 .. Len(storage) : storage[i].tick >= PurgeTick(m) => i > d
  BY <1>2, <1>7, PurgeFacts
<1>9. storage' = Append(p, h)
  BY <1>1
<1>10. h.tick = m.tick /\ h.world = m.world /\ h.data = Unpacked(m)
  OBVIOUS
<1> HIDE DEF p, h
<1>11. PICK d \in 0 .. Len(storage) :
           /\ Len(p) = Len(storage) - d
           /\ \A i \in 1 .. Len(p) : p[i] = storage[i + d]
           /\ \A i \in 1 .. Len(storage) : storage[i].tick >= PurgeTick(m) => i > d
  BY <1>8
<1>12. /\ storage' \in Seq(Holder) /\ Len(storage') = Len(p) + 1
       /\ storage'[Len(storage')] = h
       /\ \A i \in 1 .. Len(p) : storage'[i] = p[i]
  <2>1. /\ Append(p, h) \in Seq(Holder) /\ Len(Append(p, h)) = Len(p) + 1
        /\ Append(p, h)[Len(p) + 1] = h
        /\ \A i \in 1 .. Len(p) : Append(p, h)[i] = p[i]
    BY <1>6, <1>8
  <2> QED BY <1>9, <2>1
<1>13. d \in Nat
  BY <1>2
<1>14. Taken(m, d)
  BY <1>1, <1>2, <1>3, <1>4, <1>10, <1>11, <1>12 DEF Taken
<1> QED BY <1>13, <1>14

(* The parts that have been received. *)
LEMMA PartsFacts ==
  ASSUME ClientTypes, NEW m \in Datagram, WellFormed(m)
  PROVE  PartsOK(PartsWith(m))
<1>1. m.part \in 0 .. MaxParts - 1
  BY SnapAssumption DEF Datagram, WellFormed
<1> DEFINE old == IF m.tick = recvTick THEN DOMAIN parts ELSE {}
<1>2. old \subseteq DOMAIN parts
  OBVIOUS
<1> HIDE DEF old
<1>3. PartsWith(m) = [p \in old \cup {m.part} |-> IF p = m.part THEN m ELSE parts[p]]
  BY DEF PartsWith, old
<1> QED BY <1>1, <1>2, <1>3 DEF ClientTypes, PartsOK

LEMMA HolderTicks ==
  ASSUME NEW s \in Seq(Holder)
  PROVE  \A i \in 1 .. Len(s) : s[i].tick \in Ticks /\ s[i].tick \in Acks
<1>1. \A i \in 1 .. Len(s) : s[i] \in Holder
  OBVIOUS
<1> QED BY <1>1 DEF Holder, Acks

LEMMA ClientTypesStep ==
  ASSUME SnapTypes, [SnapNext]_vars
  PROVE  ClientTypes'
<1> USE DEF serverSnapVars, clientSnapVars, calmVars, snapVars, vars
<1>0. /\ ClientTypes /\ snaps \in SUBSET Datagram /\ \A m \in snaps : WellFormed(m)
      /\ None \in Acks /\ Ticks \subseteq Acks
      /\ \A i \in 1 .. Len(storage) : storage[i].tick \in Acks
      /\ PartsOK(NoParts)
  <2>1. PartsOK(NoParts)
    BY DEF NoParts, PartsOK
  <2> QED BY <2>1, HolderTicks DEF SnapTypes, NetTypes, Acks, ClientTypes
<1>1. CASE UNCHANGED clientSnapVars
  BY <1>0, <1>1 DEF ClientTypes, PartsOK
<1>2. CASE SnapLoad
  BY <1>0, <1>2 DEF SnapLoad, ClientTypes, PartsOK
<1>3. CASE SnapEnter
  <2>1. 0 \in Ticks /\ NotShown \in [prev : Acks, cur : Acks]
    BY <1>0, SnapAssumption DEF Ticks, NotShown
  <2>2. /\ storage' = << >> /\ recvTick' = 0 /\ parts' = NoParts /\ ack' = None
        /\ received' = 0 /\ shown' = NotShown /\ predicting' = FALSE /\ rounds' = {}
        /\ crcErrors' = crcErrors
    BY <1>3 DEF SnapEnter, AckAfterEnter
  <2>3. PartsOK(parts)'
    BY <1>0, <2>2 DEF PartsOK
  <2>4. storage' \in Seq(Holder) /\ shown' \in [prev : Acks, cur : Acks]
        /\ rounds' \in SUBSET (1 .. MaxRounds)
    BY <2>1, <2>2
  <2>5. recvTick' \in Ticks /\ ack' \in Acks /\ received' \in 0 .. 3
    BY <1>0, <2>1, <2>2
  <2>6. predicting' \in BOOLEAN
    BY <2>2
  <2>7. crcErrors' \in 0 .. MaxCrcErrors
    BY <1>0, <2>2 DEF ClientTypes
  <2> QED BY <2>3, <2>4, <2>5, <2>6, <2>7 DEF ClientTypes
<1>4. CASE Update
  <2>1. /\ predicting' = TRUE
        /\ UNCHANGED <<storage, recvTick, parts, ack, received, crcErrors, rounds>>
    BY <1>4 DEF Update
  <2>2. shown' \in [prev : Acks, cur : Acks]
    <3>1. PICK i \in DOMAIN storage, j \in DOMAIN storage :
            /\ i <= j
            /\ shown' = IF i = j THEN shown
                          ELSE [prev |-> storage[j - 1].tick, cur |-> storage[j].tick]
      BY <1>4 DEF Update
    <3>2. storage \in Seq(Holder) /\ shown \in [prev : Acks, cur : Acks]
      BY <1>0 DEF ClientTypes
    <3>3. i # j => j - 1 \in 1 .. Len(storage) /\ j \in 1 .. Len(storage)
      BY <3>1, <3>2
    <3> QED BY <1>0, <3>1, <3>2, <3>3
  <2>3. PartsOK(parts)'
    BY <1>0, <2>1 DEF ClientTypes, PartsOK
  <2>4. /\ storage' \in Seq(Holder) /\ recvTick' \in Ticks /\ ack' \in Acks
        /\ received' \in 0 .. 3 /\ predicting' \in BOOLEAN
        /\ crcErrors' \in 0 .. MaxCrcErrors /\ rounds' \in SUBSET (1 .. MaxRounds)
    BY <1>0, <2>1 DEF ClientTypes
  <2> QED BY <2>2, <2>3, <2>4 DEF ClientTypes
<1>5. CASE OnSnapPart
  <2>1. PICK m \in snaps : recvTick' = m.tick /\ parts' = PartsWith(m)
    BY <1>5 DEF OnSnapPart
  <2>2. m \in Datagram /\ PartsOK(PartsWith(m)) /\ m.tick \in Ticks
    BY <1>0, <2>1, PartsFacts DEF Datagram
  <2>3. PartsOK(parts)'
    BY <2>1, <2>2 DEF PartsOK
  <2>4. UNCHANGED <<storage, ack, received, shown, predicting, crcErrors, rounds>>
    BY <1>5 DEF OnSnapPart
  <2> QED BY <1>0, <2>1, <2>2, <2>3, <2>4 DEF ClientTypes
<1>6. CASE OnSnapNoBase \/ OnSnapGarbled
  <2>1. PICK m \in snaps : Assembled(m)
    BY <1>6 DEF OnSnapNoBase, OnSnapGarbled
  <2>2. recvTick' \in Ticks /\ parts' = NoParts /\ UNCHANGED predicting
    BY <1>0, <2>1 DEF Assembled, Datagram
  <2>3. PartsOK(parts)'
    BY <1>0, <2>2 DEF PartsOK
  <2>4. ack' \in Acks /\ crcErrors' \in 0 .. MaxCrcErrors
        /\ UNCHANGED <<storage, received, shown, rounds>>
    BY <1>0, <1>6, SnapAssumption DEF OnSnapNoBase, OnSnapGarbled, ClientTypes
  <2> QED BY <1>0, <2>2, <2>3, <2>4 DEF ClientTypes
<1>7. CASE OnSnapTaken
  <2>1. PICK m \in snaps, d \in Nat : Taken(m, d)
    BY <1>7, TakenFacts
  <2>2. /\ storage' \in Seq(Holder) /\ recvTick' \in Ticks /\ ack' \in Acks
        /\ rounds' \in SUBSET (1 .. MaxRounds)
    BY <1>0, <2>1 DEF Taken, Datagram, WellFormed, ClientTypes
  <2>3. parts' = NoParts /\ UNCHANGED predicting
    BY <1>7 DEF OnSnapTaken, Assembled
  <2>4. PartsOK(parts)'
    BY <1>0, <2>3 DEF PartsOK
  <2>5. crcErrors' \in 0 .. MaxCrcErrors /\ received' \in 0 .. 3
    BY <1>0, <1>7, SnapAssumption DEF OnSnapTaken, CrcErrorsLess, ClientTypes
  <2>6. shown' \in [prev : Acks, cur : Acks]
    <3>1. \/ shown' = shown
          \/ shown' = [prev |-> storage'[1].tick, cur |-> storage'[Len(storage')].tick]
      BY <1>7 DEF OnSnapTaken
    <3>2. 1 \in 1 .. Len(storage') /\ Len(storage') \in 1 .. Len(storage')
      BY <1>0, <2>1 DEF Taken, ClientTypes
    <3>3. \A i \in 1 .. Len(storage') : storage'[i].tick \in Acks
      BY <2>2, HolderTicks
    <3> QED BY <1>0, <3>1, <3>2, <3>3 DEF ClientTypes
  <2> QED BY <1>0, <2>2, <2>3, <2>4, <2>5, <2>6 DEF ClientTypes
<1> QED BY <1>1, <1>2, <1>3, <1>4, <1>5, <1>6, <1>7 DEF SnapNext, JoinStep, Tick, OnInput,
           SnapMapChange, OnSnapIgnored, Lose, BecomeCalm

SnapInv == SnapJoinInv /\ SnapTypes

LEMMA SnapInvStep == SnapInv /\ [SnapNext]_vars => SnapInv'
<1> SUFFICES ASSUME SnapInv, [SnapNext]_vars PROVE SnapInv'
  OBVIOUS
<1>1. round \in 1 .. MaxRounds /\ inputs \in SUBSET Acks
  BY DEF SnapInv, SnapJoinInv, JoinInv, JoinTypeOK, SnapTypes, NetTypes
<1>2. ServerTypes' /\ NetTypes' /\ ClientTypes'
  BY <1>1, ServerTypesStep, NetTypesStep, ClientTypesStep DEF SnapInv, SnapTypes
<1> QED BY <1>2, SnapJoinStep DEF SnapInv, SnapTypes

LEMMA SnapInvariant == SnapSpec => []SnapInv
<1>1. ASSUME SnapInit PROVE SnapTypes
  <2>1. 0 \in Ticks /\ None \in Acks /\ MaxCrcErrors \in Nat
    BY SnapAssumption DEF Ticks, Acks
  <2>2. ServerTypes
    BY <1>1, <2>1 DEF SnapInit, ServerTypes, Rates
  <2>3. NetTypes
    BY <1>1, <2>1 DEF SnapInit, NetTypes
  <2>4. PartsOK(parts)
    BY <1>1 DEF SnapInit, NoParts, PartsOK
  <2>5. shown \in [prev : Acks, cur : Acks]
    BY <1>1, <2>1 DEF SnapInit, NotShown
  <2>6. storage \in Seq(Holder) /\ rounds \in SUBSET (1 .. MaxRounds)
    BY <1>1 DEF SnapInit
  <2>7. recvTick \in Ticks /\ ack \in Acks /\ received \in 0 .. 3
    BY <1>1, <2>1 DEF SnapInit
  <2>8. predicting \in BOOLEAN
    BY <1>1 DEF SnapInit
  <2>9. crcErrors \in 0 .. MaxCrcErrors
    BY <1>1, <2>1 DEF SnapInit
  <2>10. ClientTypes
    BY <2>4, <2>5, <2>6, <2>7, <2>8, <2>9 DEF ClientTypes
  <2> QED BY <2>2, <2>3, <2>10 DEF SnapTypes
<1>2. SnapInit => SnapJoinInv
  BY JoinInitInv DEF SnapInit, SnapJoinInv, InRound
<1> QED BY <1>1, <1>2, SnapInvStep, PTL DEF SnapSpec, SnapInv

(* The types of the variables (SnapTypeOK). *)
THEOREM SnapTypeCorrect == SnapSpec => []SnapTypeOK
<1>1. SnapInv => SnapTypeOK
  BY DEF SnapInv, SnapTypes, ServerTypes, NetTypes, ClientTypes, PartsOK, Rates, SnapTypeOK
<1> QED BY <1>1, SnapInvariant, PTL

-----------------------------------------------------------------------------
(* What is said, anywhere, of the world at tick t of round r.  It is said  *)
(* by the datagrams, by the server's backlog and, if it has taken no other *)
(* round's snapshots, by the client's storage.                             *)
Said(r, t, w) ==
  \/ \E m \in snaps : m.round = r /\ m.tick = t /\ m.world = w
  \/ \E m \in snaps : m.round = r /\ m.delta = t /\ m.delta # None /\ m.base = w
  \/ r = round /\ t \in DOMAIN backlog /\ w = backlog[t]
  \/ rounds = {r} /\ \E i \in 1 .. Len(storage) : storage[i].tick = t /\ storage[i].world = w

(* The same is said everywhere. *)
SaidOnce ==
  \A r \in 1 .. MaxRounds, t \in Ticks, v, w \in Worlds :
    Said(r, t, v) /\ Said(r, t, w) => v = w

(* Nothing is said of a tick to come. *)
SaidBefore ==
  \A r \in 1 .. MaxRounds, t \in Ticks, w \in Worlds :
    Said(r, t, w) => r <= round /\ (r = round => t <= tick)

FaithInv ==
  /\ SaidOnce
  /\ SaidBefore
  /\ DOMAIN backlog # {} => StartsOver
  /\ rounds = {} => storage = << >>
  /\ Faithful

LEMMA FewRounds ==
  ASSUME NEW S \in SUBSET (1 .. MaxRounds)
  PROVE  Cardinality(S) <= 1 <=> S = {} \/ \E r \in 1 .. MaxRounds : S = {r}
<1>1. IsFiniteSet(S)
  <2>1. 1 \in Int /\ MaxRounds \in Int
    BY JoinAssumption
  <2>2. IsFiniteSet(1 .. MaxRounds)
    BY <2>1, FS_Interval
  <2> QED BY <2>2, FS_Subset
<1>2. Cardinality(S) \in Nat
  BY <1>1, FS_CardinalityType
<1>3. Cardinality(S) <= 1 <=> Cardinality(S) = 0 \/ Cardinality(S) = 1
  BY <1>2
<1> QED BY <1>1, <1>3, FS_EmptySet, FS_Singleton

(* Nothing new is said, and time goes on. *)
LEMMA NothingNew ==
  ASSUME FaithInv, SnapInv,
         \A r, t, w : Said(r, t, w)' => Said(r, t, w),
         round' \in Nat, tick' \in Nat,
         round' > round \/ (round' = round /\ tick' >= tick)
  PROVE  SaidOnce' /\ SaidBefore'
<1>1. round \in Nat /\ tick \in Nat
  BY DEF SnapInv, SnapJoinInv, JoinInv, JoinTypeOK, SnapTypes, ServerTypes, Ticks
<1>2. SaidOnce'
  BY DEF FaithInv, SaidOnce
<1>3. SaidBefore'
  <2> SUFFICES ASSUME NEW r \in 1 .. MaxRounds, NEW t \in Ticks, NEW w \in Worlds,
                      Said(r, t, w)'
               PROVE  r <= round' /\ (r = round' => t <= tick')
    BY DEF SaidBefore
  <2>1. r <= round /\ (r = round => t <= tick)
    BY DEF FaithInv, SaidBefore
  <2>2. t \in Nat /\ r \in Nat
    BY DEF Ticks
  <2> QED BY <1>1, <2>1, <2>2
<1> QED BY <1>2, <1>3

(* A tick says something of itself only. *)
LEMMA SnapshotSays ==
  ASSUME SnapInv, NEW t \in Ticks, DoSnapshot(t), UNCHANGED <<round, storage, rounds>>
  PROVE  \E world \in Worlds :
           \A r, s, w : Said(r, s, w)' => Said(r, s, w) \/ (r = round /\ s = t /\ w = world)
<1>1. ServerTypes /\ round \in 1 .. MaxRounds
  BY DEF SnapInv, SnapTypes, SnapJoinInv, JoinInv, JoinTypeOK
<1>2. PICK world \in Worlds :
        /\ backlog' = Backlog(t, world)
        /\ \A m \in snaps' \ snaps :
             /\ m.tick = t /\ m.world = world /\ m.round = round
             /\ m.delta # None => m.delta \in DOMAIN backlog' /\ m.base = backlog'[m.delta]
  BY <1>1, DoSnapshotFacts
<1>3. \A s \in DOMAIN backlog' :
        IF s = t THEN backlog'[s] = world
          ELSE s \in DOMAIN backlog /\ backlog'[s] = backlog[s]
  BY <1>1, <1>2, BacklogFacts
<1>4. ASSUME NEW r, NEW s, NEW w, Said(r, s, w)'
      PROVE  Said(r, s, w) \/ (r = round /\ s = t /\ w = world)
  <2>1. CASE r = round /\ s \in DOMAIN backlog' /\ w = backlog'[s]
    BY <1>3, <2>1 DEF Said
  <2>2. CASE \E m \in snaps' : m.round = r /\ m.tick = s /\ m.world = w
    BY <1>2, <2>2 DEF Said
  <2>3. CASE \E m \in snaps' : m.round = r /\ m.delta = s /\ m.delta # None /\ m.base = w
    <3>1. PICK m \in snaps' : m.round = r /\ m.delta = s /\ m.delta # None /\ m.base = w
      BY <2>3
    <3>2. CASE m \in snaps
      BY <3>1, <3>2 DEF Said
    <3>3. CASE m \notin snaps
      BY <1>2, <2>1, <3>1, <3>3
    <3> QED BY <3>2, <3>3
  <2>4. CASE rounds = {r} /\ \E i \in 1 .. Len(storage) :
                               storage[i].tick = s /\ storage[i].world = w
    BY <2>4 DEF Said
  <2> QED BY <1>4, <2>1, <2>2, <2>3, <2>4 DEF Said
<1> QED BY <1>4

(* Every step but three leaves backlog and storage alone. *)
LEMMA FaithStepOther ==
  ASSUME FaithInv, SnapInv, [SnapNext]_vars,
         UNCHANGED <<round, backlog, storage, rounds>>, snaps' \subseteq snaps,
         tick' \in Nat, tick' >= tick, StartsOver => StartsOver'
  PROVE  FaithInv'
<1>1. \A r, t, w : Said(r, t, w)' => Said(r, t, w)
  BY DEF Said
<1>2. round \in Nat
  BY DEF SnapInv, SnapJoinInv, JoinInv, JoinTypeOK
<1>3. SaidOnce' /\ SaidBefore'
  BY <1>1, <1>2, NothingNew
<1>4. Faithful'
  BY DEF FaithInv, Faithful
<1> QED BY <1>3, <1>4 DEF FaithInv

(* Once told a map, a client stays told. *)
LEMMA StaysTold == StartsOver /\ [JoinNext]_joinVars => StartsOver'
<1> SUFFICES ASSUME StartsOver, [JoinNext]_joinVars PROVE StartsOver'
  OBVIOUS
<1> USE DEF StartsOver, joinVars, serverVars, clientVars
<1>1. CASE MapChange
  BY <1>1 DEF MapChange
<1>2. CASE ServerStep
  BY <1>2 DEF ServerStep, OnClientVer, OnInfo, OnRequestMapData, OnReady, OnStartInfo,
              OnEnterGame
<1>3. CASE ClientStep
  BY <1>3 DEF ClientStep, OnMapChangeLoad, OnMapChangeFetch, OnMapData, OnConReady,
              OnReadyToEnter, Told
<1>4. CASE HttpDone \/ HttpFailed \/ Online
  BY <1>4 DEF HttpDone, HttpFailed, Online
<1>5. CASE UNCHANGED joinVars
  BY <1>5
<1> QED BY <1>1, <1>2, <1>3, <1>4, <1>5 DEF JoinNext

(* The server has sent a snapshot. *)
LEMMA FaithTick ==
  ASSUME FaithInv, SnapInv, Tick, DoSnapshot(tick'), Due(tick'), tick' \in Ticks, tick' > tick
  PROVE  FaithInv'
<1>1. UNCHANGED <<round, storage, rounds, sstate>>
  BY DEF Tick, joinVars, serverVars, clientSnapVars
<1>2. PICK t \in Ticks : t = tick'
  OBVIOUS
<1>3. PICK world \in Worlds :
        \A r, s, w : Said(r, s, w)' => Said(r, s, w) \/ (r = round /\ s = t /\ w = world)
  BY <1>1, <1>2, SnapshotSays
<1>4. /\ round \in Nat /\ tick \in Nat /\ Ticks \subseteq Nat
      /\ SaidOnce /\ SaidBefore
  BY DEF SnapInv, SnapJoinInv, JoinInv, JoinTypeOK, SnapTypes, ServerTypes, Ticks, FaithInv
<1>5. ASSUME NEW r \in 1 .. MaxRounds, NEW s \in Ticks, NEW w \in Worlds
      PROVE  Said(r, s, w) => r <= round /\ (r = round => s <= tick /\ s # t)
  BY <1>2, <1>4 DEF SaidBefore
<1>6. SaidBefore'
  <2> SUFFICES ASSUME NEW r \in 1 .. MaxRounds, NEW s \in Ticks, NEW w \in Worlds,
                      Said(r, s, w)'
               PROVE  r <= round /\ (r = round => s <= t)
    BY <1>1, <1>2 DEF SaidBefore
  <2>1. CASE Said(r, s, w)
    <3>1. s \in Nat /\ t \in Nat
      BY <1>4
    <3> QED BY <1>2, <1>4, <1>5, <2>1, <3>1
  <2>2. CASE r = round /\ s = t /\ w = world
    BY <1>4, <2>2
  <2> QED BY <1>3, <2>1, <2>2
<1>7. SaidOnce'
  <2> SUFFICES ASSUME NEW r \in 1 .. MaxRounds, NEW s \in Ticks, NEW v \in Worlds,
                      NEW w \in Worlds, Said(r, s, v)', Said(r, s, w)'
               PROVE  v = w
    BY DEF SaidOnce
  <2>1. CASE r = round /\ s = t
    BY <1>3, <1>5, <2>1
  <2>2. CASE ~ (r = round /\ s = t)
    BY <1>3, <1>4, <2>2 DEF SaidOnce
  <2> QED BY <2>1, <2>2
<1>8. StartsOver'
  BY <1>1 DEF Due, StartsOver
<1>9. Faithful'
  BY <1>1 DEF FaithInv, Faithful
<1> QED BY <1>1, <1>6, <1>7, <1>8, <1>9 DEF FaithInv

(* A new round: nothing has been said of it. *)
LEMMA FaithMapChange ==
  ASSUME FaithInv, SnapInv, SnapMapChange, StartsOver => StartsOver'
  PROVE  FaithInv'
<1>1. /\ round' = round + 1 /\ tick' = 0
      /\ \/ backlog' = << >>
         \/ UNCHANGED backlog /\ ~StartsOver
      /\ UNCHANGED <<storage, rounds, snaps>>
  BY DEF SnapMapChange, MapChange, clientSnapVars
<1>2. round \in Nat /\ round' \in Nat /\ round' > round /\ tick' \in Nat
  <2>1. round \in Nat
    BY DEF SnapInv, SnapJoinInv, JoinInv, JoinTypeOK
  <2> QED BY <1>1, <2>1
<1>3. DOMAIN backlog' = {}
  <2>1. CASE backlog' = << >>
    BY <2>1
  <2>2. CASE UNCHANGED backlog /\ ~StartsOver
    BY <2>2 DEF FaithInv
  <2> QED BY <1>1, <2>1, <2>2
<1>4. \A r, t, w : Said(r, t, w)' => Said(r, t, w)
  BY <1>1, <1>3 DEF Said
<1>5. SaidOnce' /\ SaidBefore'
  BY <1>2, <1>4, NothingNew
<1>6. Faithful'
  BY <1>1 DEF FaithInv, Faithful
<1> QED BY <1>1, <1>3, <1>5, <1>6 DEF FaithInv

(* The client starts afresh. *)
LEMMA FaithEnter ==
  ASSUME FaithInv, SnapInv, SnapEnter, StartsOver => StartsOver'
  PROVE  FaithInv'
<1>1. /\ UNCHANGED <<round, tick, backlog, snaps>>
      /\ storage' = << >> /\ rounds' = {}
  BY DEF SnapEnter, OnReadyToEnter, serverVars, serverSnapVars
<1>2. round \in Nat /\ tick \in Nat
  BY DEF SnapInv, SnapJoinInv, JoinInv, JoinTypeOK, SnapTypes, ServerTypes, Ticks
<1>3. \A r, t, w : Said(r, t, w)' => Said(r, t, w)
  BY <1>1 DEF Said
<1>4. SaidOnce' /\ SaidBefore'
  BY <1>1, <1>2, <1>3, NothingNew
<1>5. Faithful'
  BY <1>1 DEF Faithful
<1> QED BY <1>1, <1>4, <1>5 DEF FaithInv

(* The client takes a snapshot: an empty one repeats the world of its      *)
(* base, which is the same in the storage and on the server.               *)
LEMMA FaithTaken ==
  ASSUME FaithInv, SnapInv, OnSnapTaken
  PROVE  FaithInv'
<1>1. UNCHANGED <<round, tick, backlog, sstate>> /\ snaps' \subseteq snaps
  BY DEF OnSnapTaken, Assembled, Deliver, serverVars, serverSnapVars
<1>2. round \in Nat /\ tick \in Nat
  BY DEF SnapInv, SnapJoinInv, JoinInv, JoinTypeOK, SnapTypes, ServerTypes, Ticks
<1>3. PICK m \in snaps, d \in Nat : Taken(m, d)
  BY TakenFacts DEF SnapInv
<1>4. /\ storage \in Seq(Holder) /\ Len(storage) \in Nat
      /\ m \in Datagram /\ WellFormed(m) /\ HasBase(m)
      /\ d \in 0 .. Len(storage) /\ Len(storage') = (Len(storage) - d) + 1
      /\ rounds' = rounds \cup {m.round} /\ m.round \in 1 .. MaxRounds
  BY <1>3 DEF Taken, WellFormed, SnapInv, SnapTypes, ClientTypes
<1>5. ASSUME NEW i \in 1 .. Len(storage')
      PROVE  \/ i + d \in 1 .. Len(storage) /\ storage'[i] = storage[i + d]
             \/ /\ storage'[i].tick = m.tick /\ storage'[i].world = m.world
                /\ storage'[i].data = IF m.empty THEN BaseData(m) ELSE m.world
  <2>1. CASE i = Len(storage')
    BY <1>3, <2>1 DEF Taken
  <2>2. CASE i # Len(storage')
    <3>1. i \in 1 .. Len(storage) - d /\ i + d \in 1 .. Len(storage)
      BY <1>4, <2>2
    <3> QED BY <1>3, <3>1 DEF Taken
  <2> QED BY <2>1, <2>2
<1>6. rounds # {} \/ Len(storage) = 0
  BY DEF FaithInv
<1>7. ASSUME NEW r, rounds' = {r}
      PROVE  m.round = r /\ (Len(storage) # 0 => rounds = {r})
  <2>1. m.round = r /\ rounds \subseteq {r}
    BY <1>4, <1>7
  <2> QED BY <1>6, <2>1
<1>8. ASSUME NEW r, NEW t, NEW w, Said(r, t, w)' PROVE Said(r, t, w)
  <2>1. CASE rounds' = {r} /\ \E i \in 1 .. Len(storage') :
                                storage'[i].tick = t /\ storage'[i].world = w
    <3>1. PICK i \in 1 .. Len(storage') : storage'[i].tick = t /\ storage'[i].world = w
      BY <2>1
    <3>2. m.round = r /\ (Len(storage) # 0 => rounds = {r})
      BY <1>7, <2>1
    <3>3. CASE i + d \in 1 .. Len(storage) /\ storage'[i] = storage[i + d]
      <4>1. Len(storage) # 0
        BY <1>4, <3>3
      <4> QED BY <3>1, <3>2, <3>3, <4>1 DEF Said
    <3>4. CASE storage'[i].tick = m.tick /\ storage'[i].world = m.world
      BY <3>1, <3>2, <3>4 DEF Said
    <3> QED BY <1>5, <3>3, <3>4
  <2>2. CASE ~ (rounds' = {r} /\ \E i \in 1 .. Len(storage') :
                                   storage'[i].tick = t /\ storage'[i].world = w)
    BY <1>1, <1>8, <2>2 DEF Said
  <2> QED BY <2>1, <2>2
<1>9. SaidOnce' /\ SaidBefore'
  BY <1>1, <1>2, <1>8, NothingNew
<1>10. ASSUME NEW r \in 1 .. MaxRounds, rounds' = {r}
       PROVE  /\ \A i \in 1 .. Len(storage) : storage[i].data = storage[i].world
              /\ m.empty => BaseData(m) = m.world
  <2>1. m.round = r /\ (Len(storage) # 0 => rounds = {r})
    BY <1>7, <1>10
  <2>2. ASSUME NEW i \in 1 .. Len(storage) PROVE storage[i].data = storage[i].world
    <3>1. rounds = {r} /\ rounds \in SUBSET (1 .. MaxRounds) /\ i \in DOMAIN storage
      BY <1>4, <2>1
    <3> QED BY <3>1, FewRounds DEF FaithInv, Faithful
  <2>3. ASSUME m.empty PROVE BaseData(m) = m.world
    <3>1. m.base = m.world /\ m.world \in Worlds /\ m.base # Empty
      BY <1>4, <2>3, SnapAssumption DEF WellFormed, Datagram
    <3>2. m.delta # None /\ m.delta \in Ticks
      BY <1>4, <3>1 DEF WellFormed, Datagram, Acks
    <3>3. PICK i \in 1 .. Len(storage) :
            storage[i].tick = m.delta /\ BaseData(m) = storage[i].data
      BY <1>4, <3>2, BaseFacts
    <3>4. storage[i].world \in Worlds /\ rounds = {r}
      <4>1. storage[i] \in Holder /\ Len(storage) # 0
        BY <1>4
      <4> QED BY <2>1, <4>1 DEF Holder
    <3>5. Said(r, m.delta, storage[i].world)
      BY <3>3, <3>4 DEF Said
    <3>6. Said(r, m.delta, m.world)
      BY <1>3, <2>1, <3>1, <3>2 DEF Said
    <3>7. storage[i].world = m.world
      BY <3>1, <3>2, <3>4, <3>5, <3>6 DEF FaithInv, SaidOnce
    <3> QED BY <2>2, <3>3, <3>7
  <2> QED BY <2>2, <2>3
<1>11. Faithful'
  <2> SUFFICES ASSUME (Cardinality(rounds) <= 1)', NEW i \in 1 .. Len(storage')
               PROVE  storage'[i].data = storage'[i].world
    BY <1>3 DEF Faithful, Taken
  <2>1. rounds \in SUBSET (1 .. MaxRounds) /\ rounds' \in SUBSET (1 .. MaxRounds)
    BY <1>4 DEF SnapInv, SnapTypes, ClientTypes
  <2>2. PICK r \in 1 .. MaxRounds : rounds' = {r}
    <3>1. rounds' = {} \/ \E r \in 1 .. MaxRounds : rounds' = {r}
      BY <2>1, FewRounds
    <3> QED BY <1>4, <3>1
  <2> QED BY <1>5, <1>10, <2>2
<1>12. rounds' # {} /\ (StartsOver => StartsOver')
  BY <1>1, <1>4 DEF StartsOver
<1> QED BY <1>1, <1>9, <1>11, <1>12 DEF FaithInv

LEMMA FaithStep == FaithInv /\ SnapInv /\ [SnapNext]_vars => FaithInv'
<1> SUFFICES ASSUME FaithInv, SnapInv, [SnapNext]_vars PROVE FaithInv'
  OBVIOUS
<1>0. /\ StartsOver => StartsOver'
      /\ tick \in Nat /\ tick' \in Ticks /\ tick' \in Nat /\ tick' >= tick' /\ tick >= tick
  BY StaysTold, SnapRefinesJoin, SnapInvStep DEF SnapInv, SnapTypes, ServerTypes, Ticks
<1>1. CASE OnSnapTaken
  BY <1>1, FaithTaken
<1>2. CASE SnapEnter
  BY <1>0, <1>2, FaithEnter
<1>3. CASE SnapMapChange
  BY <1>0, <1>3, FaithMapChange
<1>4. CASE Tick
  <2>1. PICK n \in 1 .. (IF IsCalm THEN 1 ELSE CatchUp) :
          /\ tick' = tick + n
          /\ IF tick' % SnapEvery = 0 /\ Due(tick')
               THEN DoSnapshot(tick')
               ELSE UNCHANGED <<backlog, rate, snaps>>
    BY <1>4 DEF Tick
  <2>2. tick' > tick /\ tick' >= tick
    BY <1>0, <2>1, SnapAssumption
  <2>3. CASE tick' % SnapEvery = 0 /\ Due(tick')
    BY <1>0, <1>4, <2>1, <2>2, <2>3, FaithTick
  <2>4. CASE ~ (tick' % SnapEvery = 0 /\ Due(tick'))
    <3>1. UNCHANGED <<round, backlog, storage, rounds, snaps>>
      BY <1>4, <2>1, <2>4 DEF Tick, joinVars, serverVars, clientSnapVars
    <3> QED BY <1>0, <2>2, <3>1, FaithStepOther
  <2> QED BY <2>3, <2>4
<1>5. ASSUME ~OnSnapTaken, ~SnapEnter, ~SnapMapChange, ~Tick
      PROVE  UNCHANGED <<round, backlog, storage, rounds, tick>> /\ snaps' \subseteq snaps
  <2>1. UNCHANGED <<round, backlog, storage, rounds, tick>>
    BY <1>5 DEF SnapNext, vars, joinVars, snapVars, serverVars, serverSnapVars,
           clientSnapVars, JoinStep, OnClientVer, OnInfo, OnReady, OnStartInfo, OnEnterGame,
           OnConReady, SnapLoad, OnMapChangeLoad, OnInput, Update, OnSnapIgnored,
           OnSnapPart, OnSnapNoBase, OnSnapGarbled, Assembled, Lose, BecomeCalm
  <2> QED BY <1>5, <2>1, WhoSendsSnaps
<1>6. CASE ~OnSnapTaken /\ ~SnapEnter /\ ~SnapMapChange /\ ~Tick
  BY <1>0, <1>5, <1>6, FaithStepOther
<1> QED BY <1>1, <1>2, <1>3, <1>4, <1>6

LEMMA FaithInvariant == SnapSpec => []FaithInv
<1>1. ASSUME SnapInit PROVE FaithInv
  <2>1. snaps = {} /\ storage = << >> /\ backlog = << >> /\ rounds = {}
    BY <1>1 DEF SnapInit
  <2>2. DOMAIN backlog = {} /\ \A r, t, w : ~Said(r, t, w)
    BY <2>1 DEF Said
  <2>3. Faithful
    BY <2>1 DEF Faithful
  <2> QED BY <2>1, <2>2, <2>3 DEF FaithInv, SaidOnce, SaidBefore
<1> QED BY <1>1, FaithStep, SnapInvariant, PTL DEF SnapSpec

(* Whatever is lost, repeated and reordered, however old the               *)
(* acknowledgement a delta answers, and over any number of rounds: what a  *)
(* client has under a tick is what the server had (Faithful:               *)
(* CServer::DoSnapshot, CClient::ProcessServerPacket).                     *)
THEOREM FaithfulTheorem == SnapSpec => []Faithful
<1>1. FaithInv => Faithful
  BY DEF FaithInv
<1> QED BY <1>1, FaithInvariant, PTL

-----------------------------------------------------------------------------
(* What the client shows is in its storage. *)
Ascending ==
  \A i, j \in 1 .. Len(storage) : i < j => storage[i].tick < storage[j].tick

(* The next snapshot that is wanted is later than all in the storage. *)
Newer ==
  \A i \in 1 .. Len(storage) :
    /\ storage[i].tick <= recvTick
    /\ storage[i].tick = recvTick => ack = recvTick

Held(t) == \E i \in 1 .. Len(storage) : storage[i].tick = t

ShownInv ==
  /\ Ascending
  /\ Newer
  /\ received >= 1 => storage # << >>
  /\ received >= 2 => shown # NotShown
  /\ shown.prev # None => Held(shown.prev)
  /\ shown.cur # None => Held(shown.cur)
  /\ shown # NotShown => shown.prev < shown.cur

LEMMA WantedIsNewer ==
  ASSUME ShownInv, ClientTypes, NEW m \in Datagram, Wanted(m)
  PROVE  \A i \in 1 .. Len(storage) : storage[i].tick < m.tick
<1>1. m.tick \in Nat /\ recvTick \in Nat /\ ack \in Int
  BY SnapAssumption DEF Datagram, ClientTypes, Ticks, Acks, None
<1>2. m.tick >= recvTick /\ m.tick > ack
  BY DEF Wanted
<1>3. ASSUME NEW i \in 1 .. Len(storage) PROVE storage[i].tick < m.tick
  <2>1. storage[i].tick \in Nat
    BY HolderTicks DEF ClientTypes, Ticks
  <2>2. storage[i].tick <= recvTick /\ (storage[i].tick = recvTick => ack = recvTick)
    BY DEF ShownInv, Newer
  <2> QED BY <1>1, <1>2, <2>1, <2>2
<1> QED BY <1>3

LEMMA ShownTaken ==
  ASSUME ShownInv, SnapTypes, OnSnapTaken
  PROVE  ShownInv'
<1>1. PICK m \in snaps, d \in Nat : Taken(m, d)
  BY TakenFacts
<1>2. /\ storage \in Seq(Holder) /\ Len(storage) \in Nat /\ storage' \in Seq(Holder)
      /\ m \in Datagram /\ HasBase(m) /\ m.tick \in Nat /\ ClientTypes
      /\ d \in 0 .. Len(storage) /\ Len(storage') = (Len(storage) - d) + 1
      /\ recvTick' = m.tick /\ ack' = m.tick
      /\ \A i \in 1 .. Len(storage) - d : storage'[i] = storage[i + d]
      /\ \A i \in 1 .. Len(storage) : storage[i].tick >= PurgeTick(m) => i > d
      /\ storage'[Len(storage')].tick = m.tick
  BY <1>1 DEF Taken, Datagram, SnapTypes, ClientTypes, Ticks
<1>3. \A i \in 1 .. Len(storage) : storage[i].tick < m.tick /\ storage[i].tick \in Nat
  <2>1. Wanted(m)
    BY <1>1 DEF Taken
  <2> QED BY <1>2, <2>1, WantedIsNewer, HolderTicks DEF Ticks
<1>4. ASSUME NEW i \in 1 .. Len(storage'), i # Len(storage')
      PROVE  i + d \in 1 .. Len(storage) /\ storage'[i] = storage[i + d]
  <2>1. i \in 1 .. Len(storage) - d /\ i + d \in 1 .. Len(storage)
    BY <1>2, <1>4
  <2> QED BY <1>2, <2>1
<1>5. Ascending'
  <2> SUFFICES ASSUME NEW i \in 1 .. Len(storage'), NEW j \in 1 .. Len(storage'), i < j
               PROVE  storage'[i].tick < storage'[j].tick
    BY DEF Ascending
  <2>1. i + d \in 1 .. Len(storage) /\ storage'[i] = storage[i + d]
    BY <1>2, <1>4
  <2>2. CASE j = Len(storage')
    BY <1>2, <1>3, <2>1, <2>2
  <2>3. CASE j # Len(storage')
    <3>1. j + d \in 1 .. Len(storage) /\ storage'[j] = storage[j + d] /\ i + d < j + d
      BY <1>2, <1>4, <2>3
    <3> QED BY <2>1, <3>1 DEF ShownInv, Ascending
  <2> QED BY <2>2, <2>3
<1>6. Newer'
  <2> SUFFICES ASSUME NEW i \in 1 .. Len(storage') PROVE storage'[i].tick <= m.tick
    BY <1>2 DEF Newer
  <2>1. CASE i = Len(storage')
    BY <1>2, <2>1
  <2>2. CASE i # Len(storage')
    BY <1>2, <1>3, <1>4, <2>2
  <2> QED BY <2>1, <2>2
<1>7. storage' # << >> /\ Len(storage') \in 1 .. Len(storage') /\ 1 \in 1 .. Len(storage')
  BY <1>2
<1>8. ASSUME NEW i \in 1 .. Len(storage), storage[i].tick >= PurgeTick(m),
             NEW t, t = storage[i].tick
      PROVE  Held(t)'
  <2>0. i > d
    BY <1>2, <1>8
  <2>1. i - d \in 1 .. Len(storage) - d /\ i - d \in 1 .. Len(storage') /\ (i - d) + d = i
    BY <1>2, <2>0
  <2>2. storage'[i - d] = storage[i]
    BY <1>2, <2>1
  <2> QED BY <1>8, <2>1, <2>2 DEF Held
<1>9. CASE received = 1
  <2>1. received' = 2 /\ shown' = [prev |-> storage'[1].tick, cur |-> storage'[Len(storage')].tick]
    BY <1>9 DEF OnSnapTaken
  <2>2. Held(shown.prev)' /\ Held(shown.cur)'
    BY <1>7, <2>1 DEF Held
  <2>3. Len(storage) - d >= 1
    <3>1. storage # << >>
      BY <1>9 DEF ShownInv
    <3>2. 1 \in 1 .. Len(storage)
      BY <1>2, <3>1
    <3>3. PurgeTick(m) \in Acks /\ PurgeTick(m) <= m.delta
      BY <1>2, PurgeTickFacts
    <3>4. \E i \in 1 .. Len(storage) : storage[i].tick >= PurgeTick(m)
      <4>1. PurgeTick(m) \in Int /\ m.delta \in Int
        <5>1. m.delta \in Acks
          BY <1>2 DEF Datagram
        <5>2. Acks \subseteq Int
          BY DEF Acks, Ticks, None
        <5> QED BY <3>3, <5>1, <5>2
      <4>2. CASE m.delta = None
        BY <1>3, <3>2, <3>3, <4>1, <4>2 DEF None
      <4>3. CASE m.delta # None
        <5>1. PICK i \in 1 .. Len(storage) : storage[i].tick = m.delta
          BY <1>2, <4>3, BaseFacts
        <5> QED BY <3>3, <4>1, <5>1
      <4> QED BY <4>2, <4>3
    <3> QED BY <1>2, <3>4
  <2>4. shown'.prev < shown'.cur
    <3>1. 1 < Len(storage')
      BY <1>2, <2>3
    <3> QED BY <1>5, <1>7, <2>1, <3>1 DEF Ascending
  <2>5. shown' # NotShown
    <3>1. shown'.cur \in Nat
      BY <1>2, <2>1
    <3> QED BY <3>1 DEF NotShown, None
  <2> QED BY <1>5, <1>6, <1>7, <2>1, <2>2, <2>4, <2>5 DEF ShownInv
<1>10. CASE received # 1
  <2>1. shown' = shown /\ (received' >= 2 => received >= 2)
    <3>1. received \in 0 .. 3 /\ received' = IF received < 3 THEN received + 1 ELSE 3
      BY <1>2 DEF OnSnapTaken, ClientTypes
    <3>2. received' = 2 => received = 1
      BY <3>1
    <3>3. shown' = shown
      BY <1>10 DEF OnSnapTaken
    <3> QED BY <1>10, <3>1, <3>3
  <2>2. ASSUME NEW t \in {shown.prev, shown.cur}, t # None PROVE Held(t)'
    <3>1. PICK i \in 1 .. Len(storage) : storage[i].tick = t
      BY <2>2 DEF ShownInv, Held
    <3>2. PurgeTick(m) <= t /\ PurgeTick(m) \in Acks
      BY <1>2, <2>2, PurgeTickFacts
    <3>3. storage[i].tick >= PurgeTick(m)
      <4>1. PurgeTick(m) \in Int /\ storage[i].tick \in Nat
        BY <1>3, <3>2, SnapAssumption DEF Acks, Ticks, None
      <4> QED BY <3>1, <3>2, <4>1
    <3> QED BY <1>8, <3>1, <3>3
  <2>3. /\ shown'.prev # None => Held(shown.prev)'
        /\ shown'.cur # None => Held(shown.cur)'
    <3>1. shown'.prev = shown.prev /\ shown'.cur = shown.cur
      BY <2>1
    <3>2. ASSUME NEW t, t = shown'.prev, t # None PROVE Held(t)'
      BY <2>2, <3>1, <3>2
    <3>3. ASSUME NEW t, t = shown'.cur, t # None PROVE Held(t)'
      BY <2>2, <3>1, <3>3
    <3> QED BY <3>2, <3>3 DEF Held
  <2> QED BY <1>5, <1>6, <1>7, <2>1, <2>3 DEF ShownInv
<1> QED BY <1>9, <1>10

LEMMA ShownStep ==
  ASSUME ShownInv, SnapInv, [SnapNext]_vars
  PROVE  ShownInv'
<1> USE DEF serverSnapVars, clientSnapVars, calmVars, snapVars, vars
<1>0. ClientTypes /\ SnapTypes /\ \A m \in snaps : m \in Datagram
  BY DEF SnapInv, SnapTypes, NetTypes
<1>1. CASE UNCHANGED clientSnapVars
  BY <1>1 DEF ShownInv, Ascending, Newer, Held
<1>2. CASE SnapLoad
  BY <1>2 DEF SnapLoad, ShownInv, Ascending, Newer, Held
<1>3. CASE SnapEnter
  <2>1. storage' = << >> /\ received' = 0 /\ shown' = NotShown
    BY <1>3 DEF SnapEnter
  <2>2. shown'.prev = None /\ shown'.cur = None
    BY <2>1 DEF NotShown
  <2>3. Ascending' /\ Newer'
    BY <2>1 DEF Ascending, Newer
  <2> QED BY <2>1, <2>2, <2>3 DEF ShownInv
<1>4. CASE OnSnapTaken
  BY <1>0, <1>4, ShownTaken
<1>5. CASE OnSnapPart \/ OnSnapNoBase \/ OnSnapGarbled
  <2>1. PICK m \in snaps : Wanted(m) /\ recvTick' = m.tick
    BY <1>5 DEF OnSnapPart, OnSnapNoBase, OnSnapGarbled, Assembled
  <2>2. UNCHANGED <<storage, received, shown>>
    BY <1>5 DEF OnSnapPart, OnSnapNoBase, OnSnapGarbled
  <2>3. \A i \in 1 .. Len(storage) : storage[i].tick < m.tick
    BY <1>0, <2>1, WantedIsNewer
  <2>4. m.tick \in Nat /\ \A i \in 1 .. Len(storage) : storage[i].tick \in Nat
    BY <1>0, <2>1, HolderTicks DEF ClientTypes, Datagram, Ticks
  <2>5. Newer'
    BY <2>1, <2>2, <2>3, <2>4 DEF Newer
  <2> QED BY <2>2, <2>5 DEF ShownInv, Ascending, Held
<1>6. CASE Update
  <2>1. UNCHANGED <<storage, recvTick, ack, received>>
    BY <1>6 DEF Update
  <2>2. PICK i \in DOMAIN storage, j \in DOMAIN storage :
          /\ i <= j
          /\ shown' = IF i = j THEN shown
                        ELSE [prev |-> storage[j - 1].tick, cur |-> storage[j].tick]
    BY <1>6 DEF Update
  <2>3. CASE shown' = shown
    BY <2>1, <2>3 DEF ShownInv, Ascending, Newer, Held
  <2>4. CASE i # j
    <3>1. storage \in Seq(Holder)
      BY <1>0 DEF ClientTypes
    <3>2. j - 1 \in 1 .. Len(storage) /\ j \in 1 .. Len(storage) /\ j - 1 < j
      BY <2>2, <2>4, <3>1
    <3>3. shown' = [prev |-> storage[j - 1].tick, cur |-> storage[j].tick]
      BY <2>2, <2>4
    <3>4. Held(shown.prev)' /\ Held(shown.cur)'
      BY <2>1, <3>2, <3>3 DEF Held
    <3>5. shown'.prev < shown'.cur
      BY <3>2, <3>3 DEF ShownInv, Ascending
    <3>6. shown' # NotShown
      <4>1. storage[j].tick \in Nat
        BY <3>1, <3>2, HolderTicks DEF Ticks
      <4>2. shown'.cur \in Nat
        BY <3>3, <4>1
      <4> QED BY <4>2 DEF NotShown, None
    <3> QED BY <2>1, <3>4, <3>5, <3>6 DEF ShownInv, Ascending, Newer
  <2> QED BY <2>2, <2>3, <2>4
<1> QED BY <1>1, <1>2, <1>3, <1>4, <1>5, <1>6 DEF SnapNext, JoinStep, Tick, OnInput,
           SnapMapChange, OnSnapIgnored, Lose, BecomeCalm

(* The snapshots being shown are never purged, whatever acknowledgements   *)
(* the deltas answer; they are two different ones, PREV before CURRENT,    *)
(* and there when Update looks at them (ShownIsHeld: CClient::Update,      *)
(* CSnapshotStorage::PurgeUntil).                                          *)
THEOREM ShownTheorem == SnapSpec => []ShownIsHeld
<1>1. ASSUME SnapInit PROVE ShownInv
  <2>1. storage = << >> /\ received = 0 /\ shown = NotShown
    BY <1>1 DEF SnapInit
  <2>2. shown.prev = None /\ shown.cur = None
    BY <2>1 DEF NotShown
  <2>3. Ascending /\ Newer
    BY <2>1 DEF Ascending, Newer
  <2> QED BY <2>1, <2>2, <2>3 DEF ShownInv
<1>2. ShownInv => ShownIsHeld
  BY DEF ShownInv, ShownIsHeld, HoldersAt, Held
<1> QED BY <1>1, <1>2, ShownStep, SnapInvariant, PTL DEF SnapSpec
-----------------------------------------------------------------------------
(* What is left of the storm once the network is calm.  A tick is fresh if *)
(* it is of no round but this one; after Settled no delta answers another. *)
Window == KeepSeconds * TickSpeed

Settled == StormTicks + Window

Fresh(t) == t > StormTicks

Latest == IF tick > StormTicks THEN tick ELSE StormTicks

(* There is no tick later than this one, but those of an earlier round. *)
Bounded ==
  /\ IF IsCalm THEN CalmDown /\ calm <= StormTicks ELSE tick <= StormTicks /\ ~polled
  /\ recvTick <= Latest /\ ack <= Latest /\ lastAcked <= Latest
  /\ \A t \in inputs \cup DOMAIN backlog : t <= Latest
  /\ \A m \in snaps : m.tick <= Latest
  /\ \A i \in 1 .. Len(storage) : storage[i].tick <= Latest

(* In the calm nobody leaves the game. *)
Stays ==
  /\ IsCalm => sstate = "INGAME" /\ toClient = << >> /\ toServer = << >>
  /\ received >= 2 => cstate = "ONLINE"
  /\ polled => received = 3

HeldWorlds == \A i \in 1 .. Len(storage) : storage[i].data \in Worlds

CalmInv == Bounded /\ Stays /\ HeldWorlds

LEMMA NumberFacts ==
  /\ Window \in Nat /\ StormTicks \in Nat /\ Settled = StormTicks + Window
  /\ Ticks \subseteq Nat /\ Acks \subseteq Int /\ \A t \in Acks : t >= -1
  /\ None = -1 /\ MaxInputs \in Nat /\ SnapEvery \in Nat \ {0} /\ MAX_TICK \in Nat
<1>1. KeepSeconds \in Nat /\ TickSpeed \in Nat
  BY SnapAssumption
<1>2. Window \in Nat
  BY <1>1 DEF Window
<1>3. Ticks \subseteq Nat /\ Acks \subseteq Int /\ \A t \in Acks : t >= -1
  BY SnapAssumption DEF Ticks, Acks, None
<1> QED BY <1>2, <1>3, SnapAssumption DEF Settled, None

LEMMA TypeFacts ==
  ASSUME SnapInv
  PROVE  /\ tick \in Nat /\ lastAcked \in Int /\ ack \in Int /\ recvTick \in Nat
         /\ lastAcked >= -1 /\ ack >= -1
         /\ calm \in Int /\ inputs \subseteq Int /\ DOMAIN backlog \subseteq Nat
         /\ \A t \in inputs : t >= -1
         /\ received \in 0 .. 3 /\ polled \in BOOLEAN /\ rate \in Rates
         /\ storage \in Seq(Holder) /\ Len(storage) \in Nat
         /\ \A i \in 1 .. Len(storage) : storage[i].tick \in Nat
         /\ \A m \in snaps : m \in Datagram /\ WellFormed(m) /\ m.tick \in Nat
         /\ round \in 1 .. MaxRounds /\ rounds \in SUBSET (1 .. MaxRounds)
         /\ Latest \in Nat
<1>1. ServerTypes /\ NetTypes /\ ClientTypes /\ round \in 1 .. MaxRounds
  BY DEF SnapInv, SnapTypes, SnapJoinInv, JoinInv, JoinTypeOK
<1>2. tick \in Nat /\ lastAcked \in Int /\ ack \in Int /\ recvTick \in Nat
      /\ lastAcked >= -1 /\ ack >= -1
  BY <1>1, NumberFacts DEF ServerTypes, ClientTypes
<1>3. calm \in Int /\ inputs \subseteq Int /\ \A t \in inputs : t >= -1
  BY <1>1, NumberFacts DEF NetTypes
<1>4. DOMAIN backlog \subseteq Nat
  BY <1>1, NumberFacts DEF ServerTypes
<1>5. \A m \in snaps : m \in Datagram /\ WellFormed(m) /\ m.tick \in Nat
  BY <1>1, NumberFacts DEF NetTypes, Datagram
<1>6. storage \in Seq(Holder) /\ Len(storage) \in Nat
      /\ \A i \in 1 .. Len(storage) : storage[i].tick \in Nat
  <2>1. storage \in Seq(Holder)
    BY <1>1 DEF ClientTypes
  <2>2. \A i \in 1 .. Len(storage) : storage[i].tick \in Ticks
    BY <2>1, HolderTicks
  <2>3. Ticks \subseteq Nat
    BY NumberFacts
  <2>4. Len(storage) \in Nat
    BY <2>1
  <2> QED BY <2>1, <2>2, <2>3, <2>4, Zenon
<1>7. Latest \in Nat
  BY <1>2, NumberFacts DEF Latest
<1>8. /\ received \in 0 .. 3 /\ polled \in BOOLEAN /\ rate \in Rates
      /\ rounds \in SUBSET (1 .. MaxRounds)
  BY <1>1 DEF ServerTypes, NetTypes, ClientTypes
<1> QED BY <1>1, <1>2, <1>3, <1>4, <1>5, <1>6, <1>7, <1>8

(* What a snapshot that is taken leaves in the storage. *)
LEMMA StorageTaken ==
  ASSUME SnapInv, NEW m, NEW d \in Nat, Taken(m, d)
  PROVE  /\ \A i \in 1 .. Len(storage') :
              \/ \E j \in 1 .. Len(storage) : storage'[i] = storage[j]
              \/ /\ storage'[i].tick = m.tick /\ storage'[i].world = m.world
                 /\ storage'[i].data = IF m.empty THEN BaseData(m) ELSE m.world
         /\ \A j \in 1 .. Len(storage) :
              storage[j].tick >= PurgeTick(m)
                => \E i \in 1 .. Len(storage') : storage'[i] = storage[j]
         /\ Len(storage') \in 1 .. Len(storage')
<1>1. /\ Len(storage) \in Nat /\ d \in 0 .. Len(storage)
      /\ Len(storage') = (Len(storage) - d) + 1
      /\ \A i \in 1 .. Len(storage) - d : storage'[i] = storage[i + d]
      /\ \A i \in 1 .. Len(storage) : storage[i].tick >= PurgeTick(m) => i > d
  BY TypeFacts DEF Taken
<1>2. ASSUME NEW i \in 1 .. Len(storage')
      PROVE  \/ \E j \in 1 .. Len(storage) : storage'[i] = storage[j]
             \/ /\ storage'[i].tick = m.tick /\ storage'[i].world = m.world
                /\ storage'[i].data = IF m.empty THEN BaseData(m) ELSE m.world
  <2>1. CASE i = Len(storage')
    BY <2>1 DEF Taken
  <2>2. CASE i # Len(storage')
    <3>1. i \in 1 .. Len(storage) - d /\ i + d \in 1 .. Len(storage)
      BY <1>1, <2>2
    <3> QED BY <1>1, <3>1
  <2> QED BY <2>1, <2>2
<1>3. ASSUME NEW j \in 1 .. Len(storage), storage[j].tick >= PurgeTick(m)
      PROVE  \E i \in 1 .. Len(storage') : storage'[i] = storage[j]
  <2>0. j > d
    BY <1>1, <1>3
  <2>1. j - d \in 1 .. Len(storage) - d /\ j - d \in 1 .. Len(storage') /\ (j - d) + d = j
    BY <1>1, <2>0
  <2>2. storage'[j - d] = storage[j]
    BY <1>1, <2>1
  <2> QED BY <2>1, <2>2
<1>4. Len(storage') \in 1 .. Len(storage')
  BY <1>1
<1> QED BY <1>2, <1>3, <1>4

LEMMA HeldWorldsStep ==
  ASSUME HeldWorlds, SnapInv, [SnapNext]_vars
  PROVE  HeldWorlds'
<1> USE DEF serverSnapVars, clientSnapVars, calmVars, snapVars, vars
<1>1. CASE OnSnapTaken
  <2>1. PICK m \in snaps, d \in Nat : Taken(m, d)
    BY <1>1, TakenFacts DEF SnapInv
  <2>2. m \in Datagram /\ WellFormed(m) /\ HasBase(m) /\ m.world \in Worlds
    BY <2>1 DEF Taken, Datagram
  <2>3. m.empty => BaseData(m) \in Worlds
    <3> SUFFICES ASSUME m.empty PROVE BaseData(m) \in Worlds
      OBVIOUS
    <3>1. m.delta # None
      BY <2>2, SnapAssumption DEF WellFormed
    <3>2. PICK i \in 1 .. Len(storage) : BaseData(m) = storage[i].data
      BY <2>2, <3>1, BaseFacts, TypeFacts
    <3> QED BY <3>2 DEF HeldWorlds
  <2> QED BY <2>1, <2>2, <2>3, StorageTaken DEF HeldWorlds
<1>2. CASE SnapEnter
  BY <1>2 DEF SnapEnter, HeldWorlds
<1>3. ASSUME ~OnSnapTaken, ~SnapEnter PROVE UNCHANGED storage
  BY <1>3 DEF SnapNext, JoinStep, SnapLoad, SnapMapChange, Tick, OnInput, Update,
         OnSnapIgnored, OnSnapPart, OnSnapNoBase, OnSnapGarbled, Lose, BecomeCalm
<1> QED BY <1>1, <1>2, <1>3 DEF HeldWorlds

(* The steps of the calm. *)
SnapStep == OnSnapIgnored \/ OnSnapPart \/ OnSnapNoBase \/ OnSnapGarbled \/ OnSnapTaken

LEMMA CalmSteps ==
  ASSUME IsCalm, Stays, [SnapNext]_vars
  PROVE  /\ Tick \/ OnInput \/ Update \/ SnapStep \/ UNCHANGED vars
         /\ UNCHANGED <<calm, sstate, toClient, toServer, round>>
         /\ cstate' = cstate \/ cstate' = "ONLINE"
<1> USE DEF serverSnapVars, clientSnapVars, calmVars, snapVars, vars, joinVars, serverVars,
            clientVars
<1>1. /\ ~JoinStep /\ ~SnapMapChange /\ ~SnapLoad /\ ~SnapEnter /\ ~Lose /\ ~BecomeCalm
  BY DEF Stays, JoinStep, OnClientVer, OnInfo, OnReady, OnStartInfo, OnEnterGame,
         OnConReady, Take, Got, SnapMapChange, SnapLoad, OnMapChangeLoad, Told, SnapEnter,
         OnReadyToEnter, Lose, BecomeCalm
<1>2. Tick \/ OnInput \/ Update \/ SnapStep \/ UNCHANGED vars
  BY <1>1 DEF SnapNext, SnapStep
<1>3. UNCHANGED <<calm, sstate, toClient, toServer, round>>
      /\ (cstate' = cstate \/ cstate' = "ONLINE")
  BY <1>2 DEF SnapStep, Tick, OnInput, Update, OnSnapIgnored, OnSnapPart, OnSnapNoBase,
              OnSnapGarbled, OnSnapTaken, Assembled
<1> QED BY <1>2, <1>3

(* What a tick does. *)
LEMMA TickFacts ==
  ASSUME SnapInv, Tick
  PROVE  /\ tick' \in Ticks /\ tick' \in Nat /\ tick' > tick
         /\ IF IsCalm THEN tick' = tick + 1 ELSE tick' <= StormTicks
         /\ IF tick' % SnapEvery = 0 /\ Due(tick')
              THEN DoSnapshot(tick')
              ELSE UNCHANGED <<backlog, rate, snaps>>
<1>1. PICK n \in 1 .. (IF IsCalm THEN 1 ELSE CatchUp) :
        /\ tick + n <= (IF IsCalm THEN MAX_TICK ELSE StormTicks)
        /\ tick' = tick + n
        /\ IF tick' % SnapEvery = 0 /\ Due(tick')
             THEN DoSnapshot(tick')
             ELSE UNCHANGED <<backlog, rate, snaps>>
  BY DEF Tick
<1>2. tick \in Nat /\ n \in Nat /\ n >= 1 /\ (IsCalm => n = 1)
  BY <1>1, TypeFacts, SnapAssumption
<1>3. tick' <= MAX_TICK
  BY <1>1, <1>2, SnapAssumption
<1>4. tick' \in Ticks /\ tick' \in Nat
  BY <1>1, <1>2, <1>3 DEF Ticks
<1> QED BY <1>1, <1>2, <1>4

(* Where the ticks come from. *)
LEMMA TickOrigins ==
  ASSUME SnapInv, [SnapNext]_vars
  PROVE  /\ lastAcked' \in {lastAcked, None} \cup inputs
         /\ ack' \in {ack, None} \cup {m.tick : m \in snaps}
         /\ recvTick' \in {recvTick, 0} \cup {m.tick : m \in snaps}
         /\ inputs' \subseteq inputs \cup {ack, None}
         /\ DOMAIN backlog' \subseteq DOMAIN backlog \cup {tick'}
         /\ \A m \in snaps' : m \in snaps \/ m.tick = tick'
         /\ \A i \in 1 .. Len(storage') :
              storage'[i].tick \in {storage[j].tick : j \in 1 .. Len(storage)}
                                     \cup {m.tick : m \in snaps}
<1> USE DEF serverSnapVars, clientSnapVars, calmVars, snapVars, vars
<1>1. lastAcked' \in {lastAcked, None} \cup inputs
  BY DEF SnapNext, JoinStep, SnapLoad, SnapEnter, SnapMapChange, Tick, OnInput, Update,
         OnSnapIgnored, OnSnapPart, OnSnapNoBase, OnSnapGarbled, OnSnapTaken, Assembled,
         Lose, BecomeCalm
<1>2. ack' \in {ack, None} \cup {m.tick : m \in snaps}
  BY DEF SnapNext, JoinStep, SnapLoad, SnapEnter, SnapMapChange, Tick, OnInput, Update,
         OnSnapIgnored, OnSnapPart, OnSnapNoBase, OnSnapGarbled, OnSnapTaken, Assembled,
         Lose, BecomeCalm, AckAfterEnter
<1>3. recvTick' \in {recvTick, 0} \cup {m.tick : m \in snaps}
  BY DEF SnapNext, JoinStep, SnapLoad, SnapEnter, SnapMapChange, Tick, OnInput, Update,
         OnSnapIgnored, OnSnapPart, OnSnapNoBase, OnSnapGarbled, OnSnapTaken, Assembled,
         Lose, BecomeCalm
<1>4. inputs' \subseteq inputs \cup {ack, None}
  BY DEF SnapNext, JoinStep, SnapLoad, SnapEnter, SnapMapChange, Tick, OnInput, Update,
         OnSnapIgnored, OnSnapPart, OnSnapNoBase, OnSnapGarbled, OnSnapTaken, Assembled,
         Lose, BecomeCalm, MaybeSendInput, AddInput
<1>5. CASE Tick /\ DoSnapshot(tick')
  <2>1. PICK t \in Ticks : t = tick'
    BY <1>5, TickFacts
  <2>2. ServerTypes /\ round \in 1 .. MaxRounds /\ DoSnapshot(t)
    BY <1>5, <2>1, TypeFacts DEF SnapInv, SnapTypes
  <2>3. PICK world \in Worlds :
          backlog' = Backlog(t, world) /\ \A m \in snaps' \ snaps : m.tick = t
    BY <2>2, DoSnapshotFacts
  <2>4. DOMAIN backlog' \subseteq DOMAIN backlog \cup {tick'}
    BY <2>1, <2>2, <2>3, BacklogFacts
  <2>5. \A m \in snaps' : m \in snaps \/ m.tick = tick'
    BY <2>1, <2>3
  <2>6. UNCHANGED storage
    BY <1>5 DEF Tick
  <2> QED BY <1>1, <1>2, <1>3, <1>4, <2>4, <2>5, <2>6
<1>6. CASE ~ (Tick /\ DoSnapshot(tick'))
  <2>1. snaps' \subseteq snaps
    BY <1>6, WhoSendsSnaps DEF Tick
  <2>2. DOMAIN backlog' \subseteq DOMAIN backlog
    <3>1. backlog' = backlog \/ backlog' = << >>
      BY <1>6 DEF SnapNext, JoinStep, SnapLoad, SnapEnter, SnapMapChange, Tick, OnInput,
             Update, OnSnapIgnored, OnSnapPart, OnSnapNoBase, OnSnapGarbled, OnSnapTaken,
             Assembled, Lose, BecomeCalm
    <3> QED BY <3>1
  <2>3. CASE OnSnapTaken
    <3>1. PICK m \in snaps, d \in Nat : Taken(m, d)
      BY <2>3, TakenFacts DEF SnapInv
    <3>2. \A i \in 1 .. Len(storage') :
            storage'[i].tick \in {storage[j].tick : j \in 1 .. Len(storage)}
                                   \cup {o.tick : o \in snaps}
      BY <3>1, StorageTaken
    <3> QED BY <1>1, <1>2, <1>3, <1>4, <2>1, <2>2, <3>2
  <2>4. CASE ~OnSnapTaken
    <3>1. storage' = storage \/ storage' = << >>
      BY <2>4 DEF SnapNext, JoinStep, SnapLoad, SnapEnter, SnapMapChange, Tick, OnInput,
             Update, OnSnapIgnored, OnSnapPart, OnSnapNoBase, OnSnapGarbled, Lose, BecomeCalm
    <3> QED BY <1>1, <1>2, <1>3, <1>4, <2>1, <2>2, <3>1
  <2> QED BY <2>3, <2>4
<1> QED BY <1>5, <1>6

LEMMA CalmInvStep == CalmInv /\ SnapInv /\ [SnapNext]_vars => CalmInv'
<1> SUFFICES ASSUME CalmInv, SnapInv, [SnapNext]_vars PROVE CalmInv'
  OBVIOUS
<1> USE DEF serverSnapVars, clientSnapVars, calmVars, snapVars, vars
<1>0. Bounded /\ Stays /\ HeldWorlds
  BY DEF CalmInv
<1>1. SnapInv' /\ StormTicks \in Nat
  BY SnapInvStep, NumberFacts
<1>2. tick \in Nat /\ tick' \in Nat
  BY <1>1, TypeFacts, SnapInvStep DEF SnapInv, SnapTypes, ServerTypes, Ticks
<1>3. /\ IF IsCalm THEN CalmDown /\ calm <= StormTicks ELSE tick <= StormTicks /\ ~polled
      /\ (IF IsCalm THEN CalmDown /\ calm <= StormTicks ELSE tick <= StormTicks /\ ~polled)'
      /\ IF IsCalm THEN IsCalm' /\ tick' >= tick ELSE tick' <= StormTicks
  <2>1. CASE IsCalm
    <3>1. calm' = calm /\ (tick' = tick \/ Tick)
      BY <1>0, <2>1, CalmSteps DEF SnapStep, OnInput, Update, OnSnapIgnored, OnSnapPart,
             OnSnapNoBase, OnSnapGarbled, OnSnapTaken, Assembled
    <3>2. tick' >= tick
      BY <1>2, <3>1, TickFacts
    <3> QED BY <1>0, <2>1, <3>1, <3>2 DEF Bounded, IsCalm
  <2>2. CASE ~IsCalm
    <3>0. tick <= StormTicks /\ ~polled
      BY <1>0, <2>2 DEF Bounded
    <3>1. CASE BecomeCalm
      <4>1. calm' = tick /\ UNCHANGED <<tick, polled>> /\ CalmDown
        BY <3>1 DEF BecomeCalm
      <4>2. IsCalm'
        BY <1>2, <4>1, NumberFacts DEF IsCalm
      <4> QED BY <2>2, <3>0, <4>1, <4>2
    <3>2. CASE Tick
      <4>1. tick' <= StormTicks /\ ~polled' /\ calm' = calm
        BY <2>2, <3>2, TickFacts DEF Tick
      <4> QED BY <2>2, <3>0, <4>1 DEF IsCalm
    <3>3. CASE SnapMapChange
      <4>1. tick' = 0 /\ UNCHANGED <<polled, calm>>
        BY <3>3 DEF SnapMapChange
      <4> QED BY <1>1, <2>2, <3>0, <4>1 DEF IsCalm
    <3>4. CASE Update
      <4>1. polled' = FALSE /\ UNCHANGED <<tick, calm>>
        BY <2>2, <3>4 DEF Update
      <4> QED BY <2>2, <3>0, <4>1 DEF IsCalm
    <3>5. CASE ~BecomeCalm /\ ~Tick /\ ~SnapMapChange /\ ~Update
      <4>1. UNCHANGED <<tick, polled, calm>>
        BY <3>5 DEF SnapNext, JoinStep, SnapLoad, SnapEnter, OnInput, OnSnapIgnored,
               OnSnapPart, OnSnapNoBase, OnSnapGarbled, OnSnapTaken, Assembled, Lose
      <4> QED BY <2>2, <3>0, <4>1 DEF IsCalm
    <3> QED BY <3>1, <3>2, <3>3, <3>4, <3>5
  <2> QED BY <2>1, <2>2
<1>4. /\ Latest \in Nat /\ Latest' \in Nat /\ Latest <= Latest' /\ tick' <= Latest'
      /\ None <= Latest' /\ 0 <= Latest'
  BY <1>1, <1>2, <1>3, NumberFacts DEF Latest
<1>5. Bounded'
  <2>1. /\ recvTick <= Latest /\ ack <= Latest /\ lastAcked <= Latest
        /\ \A t \in inputs \cup DOMAIN backlog : t <= Latest
        /\ \A m \in snaps : m.tick <= Latest
        /\ \A i \in 1 .. Len(storage) : storage[i].tick <= Latest
    BY <1>0 DEF Bounded
  <2> DEFINE Low == {t \in Int : t <= Latest'}
  <2>2. /\ recvTick \in Low /\ ack \in Low /\ lastAcked \in Low /\ None \in Low /\ 0 \in Low
        /\ tick' \in Low
    BY <1>2, <1>4, <2>1, TypeFacts, NumberFacts
  <2>3. /\ inputs \subseteq Low /\ DOMAIN backlog \subseteq Low
        /\ \A m \in snaps : m.tick \in Low
        /\ \A i \in 1 .. Len(storage) : storage[i].tick \in Low
    BY <1>4, <2>1, TypeFacts
  <2> HIDE DEF Low
  <2>4. lastAcked' \in Low /\ ack' \in Low /\ recvTick' \in Low
    BY <2>2, <2>3, TickOrigins
  <2>5. inputs' \subseteq Low /\ DOMAIN backlog' \subseteq Low
    BY <2>2, <2>3, TickOrigins
  <2>6. \A m \in snaps' : m.tick \in Low
    BY <2>2, <2>3, TickOrigins
  <2>7. \A i \in 1 .. Len(storage') : storage'[i].tick \in Low
    <3> SUFFICES ASSUME NEW i \in 1 .. Len(storage') PROVE storage'[i].tick \in Low
      OBVIOUS
    <3>1. storage'[i].tick \in {storage[j].tick : j \in 1 .. Len(storage)}
                                 \cup {m.tick : m \in snaps}
      BY TickOrigins
    <3> QED BY <2>3, <3>1
  <2>8. \A t \in Low : t <= Latest'
    BY DEF Low
  <2> QED BY <1>3, <2>4, <2>5, <2>6, <2>7, <2>8 DEF Bounded
<1>6. Stays'
  <2>1. IsCalm' => (sstate = "INGAME" /\ toClient = << >> /\ toServer = << >>)'
    <3>1. CASE IsCalm
      BY <1>0, <3>1, CalmSteps DEF Stays
    <3>2. CASE BecomeCalm
      BY <3>2 DEF BecomeCalm, joinVars, serverVars
    <3>3. CASE ~IsCalm /\ ~BecomeCalm
      <4>1. calm' = calm
        BY <3>3 DEF SnapNext, JoinStep, SnapLoad, SnapEnter, SnapMapChange, Tick, OnInput,
               Update, OnSnapIgnored, OnSnapPart, OnSnapNoBase, OnSnapGarbled,
               OnSnapTaken, Assembled, Lose
      <4> QED BY <3>3, <4>1 DEF IsCalm
    <3> QED BY <3>1, <3>2, <3>3
  <2>2. (received >= 2 => cstate = "ONLINE")'
    <3>1. CASE OnSnapTaken
      <4>1. received \in 0 .. 3 /\ received' = IF received < 3 THEN received + 1 ELSE 3
        BY <3>1, TypeFacts DEF OnSnapTaken
      <4>2. CASE received = 1
        BY <3>1, <4>1, <4>2 DEF OnSnapTaken
      <4>3. CASE received # 1
        <5>1. cstate' = cstate
          BY <3>1, <4>3 DEF OnSnapTaken
        <5> QED BY <1>0, <4>1, <4>3, <5>1 DEF Stays
      <4> QED BY <4>2, <4>3
    <3>2. CASE SnapLoad \/ SnapEnter
      <4>1. received' = 0
        BY <3>2 DEF SnapLoad, SnapEnter
      <4> QED BY <4>1
    <3>3. CASE ~OnSnapTaken /\ ~SnapLoad /\ ~SnapEnter
      <4>1. UNCHANGED <<received, cstate>>
        BY <3>3 DEF SnapNext, SnapMapChange, MapChange, Tick, OnInput, Update,
               OnSnapIgnored, OnSnapPart, OnSnapNoBase, OnSnapGarbled, Assembled, Lose,
               BecomeCalm, JoinStep, OnClientVer, OnInfo, OnReady, OnStartInfo, OnEnterGame,
               OnConReady, joinVars, clientVars
      <4> QED BY <1>0, <4>1 DEF Stays
    <3> QED BY <3>1, <3>2, <3>3
  <2>3. (polled => received = 3)'
    <3> SUFFICES ASSUME polled' PROVE received' = 3
      OBVIOUS
    <3>1. IsCalm
      <4>1. IsCalm'
        BY <1>3
      <4>2. CASE BecomeCalm
        BY <1>3, <4>2 DEF BecomeCalm
      <4>3. CASE ~BecomeCalm /\ ~IsCalm
        <5>1. calm' = calm
          BY <4>3 DEF SnapNext, JoinStep, SnapLoad, SnapEnter, SnapMapChange, Tick, OnInput,
                 Update, OnSnapIgnored, OnSnapPart, OnSnapNoBase, OnSnapGarbled,
                 OnSnapTaken, Assembled, Lose
        <5> QED BY <4>1, <4>3, <5>1 DEF IsCalm
      <4> QED BY <4>2, <4>3
    <3>2. CASE Update
      BY <3>2 DEF Update
    <3>3. CASE OnSnapTaken
      <4>1. received = 3
        BY <1>0, <3>3 DEF OnSnapTaken, Assembled, Stays
      <4> QED BY <3>3, <4>1 DEF OnSnapTaken
    <3>4. CASE ~Update /\ ~OnSnapTaken
      <4>1. polled' = polled /\ received' = received
        BY <1>0, <3>1, <3>4, CalmSteps DEF SnapStep, Tick, OnInput, OnSnapIgnored,
               OnSnapPart, OnSnapNoBase, OnSnapGarbled, Assembled
      <4> QED BY <1>0, <4>1 DEF Stays
    <3> QED BY <3>2, <3>3, <3>4
  <2> QED BY <2>1, <2>2, <2>3 DEF Stays
<1> QED BY <1>0, <1>5, <1>6, HeldWorldsStep DEF CalmInv

-----------------------------------------------------------------------------
(* The calm, once the ticks are fresh.  What of it does not depend on the  *)
(* worlds: the client holds what is acknowledged, and the datagrams under  *)
(* way are the parts of one snapshot that the client does not have yet.    *)
InCalm == IsCalm /\ tick > StormTicks

Acknowledged == {ack, lastAcked} \cup inputs

Kept ==
  \A t \in Acknowledged :
    Fresh(t) => Held(t) /\ (t >= tick - Window => t \in DOMAIN backlog)

InOrder ==
  /\ Fresh(ack) => ack % SnapEvery = 0
  /\ \A t \in {lastAcked} \cup inputs : Fresh(t) /\ Fresh(ack) => t <= ack

SameWorld ==
  \A i \in 1 .. Len(storage) :
    Fresh(storage[i].tick) /\ storage[i].tick \in DOMAIN backlog
      => storage[i].world = backlog[storage[i].tick]

Current(m) ==
  /\ m.tick = tick /\ tick % SnapEvery = 0 /\ ack < tick
  /\ tick \in DOMAIN backlog /\ m.world = backlog[tick]

OnKnown(m) ==
  /\ Fresh(m.delta) =>
       /\ Held(m.delta)
       /\ m.delta \in DOMAIN backlog /\ m.base = backlog[m.delta]
  /\ tick > Settled => m.delta = None \/ Fresh(m.delta)
  /\ \A t \in Acknowledged : Fresh(t) => m.delta <= t

PartOf(m, p) == [m EXCEPT !.part = p]

PartsNow == IF recvTick = tick THEN DOMAIN parts ELSE {}

Whole(m) ==
  /\ PartsNow \subseteq 0 .. m.numParts - 1
  /\ \A o \in snaps : o = PartOf(m, o.part)
  /\ \A p \in PartsNow : parts[p] = PartOf(m, p)
  /\ m.part \notin PartsNow
  /\ \A p \in 0 .. m.numParts - 1 : p \in PartsNow \/ PartOf(m, p) \in snaps

Sound ==
  /\ Kept /\ InOrder /\ SameWorld
  /\ \A m \in snaps : Current(m) /\ OnKnown(m) /\ Whole(m)

SoundInv == InCalm => Sound

BaseInv == SnapInv /\ FaithInv /\ CalmInv

(* Every operator about one datagram, in the state after a step. *)
LEMMA PartFacts ==
  ASSUME NEW m \in Datagram, NEW p \in Nat
  PROVE  /\ PartOf(m, p) \in Datagram /\ PartOf(m, p).part = p
         /\ PartOf(m, m.part) = m
         /\ PartOf(m, p).tick = m.tick /\ PartOf(m, p).delta = m.delta
         /\ PartOf(m, p).numParts = m.numParts /\ PartOf(m, p).base = m.base
         /\ PartOf(m, p).world = m.world /\ PartOf(m, p).empty = m.empty
         /\ PartOf(m, p).round = m.round
         /\ \A q \in Nat : PartOf(PartOf(m, p), q) = PartOf(m, q)
BY DEF PartOf, Datagram

LEMMA PartsHere ==
  ASSUME SnapInv, NEW m \in snaps, m.tick = tick
  PROVE  /\ DOMAIN PartsWith(m) = PartsNow \cup {m.part}
         /\ \A p \in DOMAIN PartsWith(m) : PartsWith(m)[p] = IF p = m.part THEN m ELSE parts[p]
         /\ m.part \in 0 .. m.numParts - 1 /\ m.numParts \in Nat
<1>1. m \in Datagram /\ WellFormed(m)
  BY TypeFacts
<1>2. m.part \in 0 .. m.numParts - 1 /\ m.numParts \in Nat
  BY <1>1, SnapAssumption DEF Datagram, WellFormed
<1>3. (IF m.tick = recvTick THEN DOMAIN parts ELSE {}) = PartsNow
  BY DEF PartsNow
<1>4. PartsWith(m) = [p \in PartsNow \cup {m.part} |-> IF p = m.part THEN m ELSE parts[p]]
  BY <1>3 DEF PartsWith
<1> HIDE DEF PartsNow
<1> QED BY <1>2, <1>4

(* A snapshot is complete with the last of its datagrams, and with no      *)
(* other.                                                                  *)
LEMMA LastPart ==
  ASSUME SnapInv, Sound, NEW m \in snaps, IsCalm, Deliver(m)
  PROVE  Complete(m) <=> snaps' = {}
<1>1. snaps' = snaps \ {m}
  BY DEF Deliver
<1>2. Current(m) /\ Whole(m) /\ m \in Datagram
  BY TypeFacts DEF Sound
<1>3. /\ Complete(m) <=> PartsNow \cup {m.part} = 0 .. m.numParts - 1
      /\ m.part \in 0 .. m.numParts - 1 /\ m.numParts \in Nat
  BY <1>2, PartsHere DEF Current, Complete
<1>4. ASSUME Complete(m), NEW o \in snaps PROVE o = m
  <2>1. o \in Datagram /\ Current(o) /\ Whole(o)
    BY TypeFacts DEF Sound
  <2>2. o.part \in 0 .. o.numParts - 1
    BY <2>1, PartsHere DEF Current
  <2>3. o = PartOf(m, o.part) /\ o.part \notin PartsNow
    BY <1>2, <2>1 DEF Whole
  <2>4. o.part \in Nat
    BY <2>1 DEF Datagram
  <2>5. o.numParts = m.numParts
    BY <1>2, <2>3, <2>4, PartFacts
  <2>6. o.part = m.part
    BY <1>3, <1>4, <2>2, <2>3, <2>5
  <2> QED BY <1>2, <2>3, <2>6, PartFacts, <2>4
<1>5. ASSUME ~Complete(m) PROVE snaps \ {m} # {}
  <2>1. PICK p \in 0 .. m.numParts - 1 : p \notin PartsNow /\ p # m.part
    BY <1>2, <1>3, <1>5 DEF Whole
  <2>2. PartOf(m, p) \in snaps
    BY <1>2, <2>1 DEF Whole
  <2>3. PartOf(m, p).part = p
    BY <1>2, <1>3, <2>1, PartFacts
  <2> QED BY <2>1, <2>2, <2>3
<1> QED BY <1>1, <1>4, <1>5

(* No datagram is ignored. *)
LEMMA AllWanted ==
  ASSUME SnapInv, CalmInv, InCalm, Sound, NEW m \in snaps
  PROVE  Wanted(m)
<1>1. m.tick = tick /\ ack < tick
  BY DEF Sound, Current
<1>2. recvTick <= tick
  BY TypeFacts DEF CalmInv, Bounded, Latest, InCalm
<1> QED BY <1>1, <1>2, TypeFacts DEF Wanted

(* In the storm nothing is fresh. *)
LEMMA SoundStart ==
  ASSUME BaseInv, tick <= StormTicks, snaps = {}
  PROVE  Sound
<1>0. SnapInv /\ Bounded /\ StormTicks \in Nat
  BY NumberFacts DEF BaseInv, CalmInv
<1>1. Latest = StormTicks
  BY <1>0, TypeFacts DEF Latest
<1>2. \A t \in Acknowledged : ~Fresh(t)
  BY <1>0, <1>1, TypeFacts DEF Acknowledged, Fresh, Bounded
<1>3. \A i \in 1 .. Len(storage) : ~Fresh(storage[i].tick)
  BY <1>0, <1>1, TypeFacts DEF Fresh, Bounded
<1>4. ~Fresh(ack)
  BY <1>2 DEF Acknowledged
<1> QED BY <1>2, <1>3, <1>4 DEF Sound, Kept, InOrder, SameWorld

LEMMA BacklogKeeps ==
  ASSUME SnapInv, NEW t \in Ticks, NEW world \in Worlds
  PROVE  /\ DOMAIN Backlog(t, world) =
              {s \in DOMAIN backlog : s >= t - Window} \cup {t}
         /\ \A s \in DOMAIN Backlog(t, world) :
              Backlog(t, world)[s] = IF s = t THEN world ELSE backlog[s]
<1> DEFINE kept == {s \in DOMAIN backlog : s >= t - KeepSeconds * TickSpeed}
<1>1. kept = {s \in DOMAIN backlog : s >= t - Window}
  BY DEF Window
<1>2. Backlog(t, world) = [s \in kept \cup {t} |-> IF s = t THEN world ELSE backlog[s]]
  BY DEF Backlog
<1> HIDE DEF kept
<1> QED BY <1>1, <1>2

(* The snapshot of a tick, when nothing else is under way. *)
LEMMA NewSnapshot ==
  ASSUME SnapInv, NEW t \in Ticks, DoSnapshot(t), snaps = {}
  PROVE  \E world \in Worlds, n \in 1 .. MaxParts, delta \in Acks, base \in Worlds \cup {Empty} :
           /\ backlog' = Backlog(t, world)
           /\ delta = DeltaTick(backlog')
           /\ rate' = RateAfter(delta)
           /\ delta # None => base = backlog'[delta]
           /\ snaps' = {[tick |-> t, delta |-> delta, numParts |-> n, part |-> p,
                         base |-> base, world |-> world, empty |-> base = world,
                         round |-> round] : p \in 0 .. n - 1}
<1>1. PICK world \in Worlds, n \in 1 .. MaxParts :
        LET log == Backlog(t, world)
            delta == DeltaTick(log)
            base == IF delta = None THEN Empty ELSE log[delta]
            new == {[tick |-> t, delta |-> delta, numParts |-> n, part |-> p,
                     base |-> base, world |-> world, empty |-> base = world,
                     round |-> round] : p \in 0 .. n - 1}
        IN  /\ backlog' = log
            /\ rate' = RateAfter(delta)
            /\ snaps' = snaps \cup new
  BY DEF DoSnapshot
<1> DEFINE log == Backlog(t, world)
           delta == DeltaTick(log)
           base == IF delta = None THEN Empty ELSE log[delta]
           new == {[tick |-> t, delta |-> delta, numParts |-> n, part |-> p,
                     base |-> base, world |-> world, empty |-> base = world,
                     round |-> round] : p \in 0 .. n - 1}
<1>2. backlog' = log /\ rate' = RateAfter(delta) /\ snaps' = snaps \cup new
  BY <1>1
<1>3. DOMAIN log \in SUBSET Ticks /\ \A s \in DOMAIN log : log[s] \in Worlds
  BY BacklogFacts DEF SnapInv, SnapTypes
<1>4. delta \in Acks /\ (delta # None => delta \in DOMAIN log)
  <2> HIDE DEF log
  <2> QED BY <1>3 DEF DeltaTick, Acks
<1>5. base \in Worlds \cup {Empty} /\ (delta # None => base = log[delta])
  <2> HIDE DEF log, delta
  <2> QED BY <1>3, <1>4
<1>6. snaps' = new /\ delta = DeltaTick(backlog')
  <2>1. snaps' = new
    <3> HIDE DEF new
    <3> QED BY <1>2
  <2>2. delta = DeltaTick(log)
    OBVIOUS
  <2> HIDE DEF new, delta, log
  <2> QED BY <1>2, <2>1, <2>2
<1>7. backlog' = Backlog(t, world) /\ (delta # None => base = backlog'[delta])
  <2>1. log = Backlog(t, world)
    OBVIOUS
  <2> HIDE DEF log, delta, base
  <2> QED BY <1>2, <1>5, <2>1
<1> HIDE DEF log, delta, base
<1> USE <1>4, <1>5
<1> WITNESS world \in Worlds, n \in 1 .. MaxParts, delta \in Acks, base \in Worlds \cup {Empty}
<1> QED BY <1>2, <1>6, <1>7

LEMMA SoundTick ==
  ASSUME BaseInv, IsCalm, Sound, Tick, tick' > StormTicks
  PROVE  Sound'
<1>0. /\ SnapInv /\ Bounded /\ Kept /\ InOrder /\ SameWorld
      /\ StormTicks \in Nat /\ Window \in Nat /\ Settled = StormTicks + Window
      /\ tick \in Nat /\ lastAcked \in Int /\ ack \in Int /\ recvTick \in Nat
      /\ None = -1
  BY NumberFacts, TypeFacts DEF BaseInv, CalmInv, Sound
<1>1. PICK t \in Ticks : t = tick'
  BY <1>0, TickFacts
<1>2. /\ t = tick + 1 /\ t \in Nat /\ tick >= StormTicks
      /\ IF t % SnapEvery = 0 /\ Due(t)
           THEN DoSnapshot(t) ELSE UNCHANGED <<backlog, rate, snaps>>
  BY <1>0, <1>1, TickFacts
<1>3. /\ snaps = {} /\ inputs = {} /\ inputs' = {}
      /\ UNCHANGED <<lastAcked, ack, recvTick, parts, storage>>
  BY DEF Tick, clientSnapVars
<1>4. /\ Latest <= tick /\ recvTick < t /\ ack < t /\ lastAcked < t
      /\ \A i \in 1 .. Len(storage) : storage[i].tick < t
  <2>1. Latest = tick
    BY <1>0, <1>2 DEF Latest
  <2> QED BY <1>0, <1>2, <2>1, TypeFacts DEF Bounded
<1>5. InOrder'
  BY <1>0, <1>3 DEF InOrder, Fresh
<1>6. ASSUME UNCHANGED <<backlog, snaps>> PROVE Sound'
  <2>1. Kept'
    <3> SUFFICES ASSUME NEW s \in {ack, lastAcked}, Fresh(s)
                 PROVE  Held(s)' /\ (s >= t - Window => s \in DOMAIN backlog)
      BY <1>1, <1>3, <1>6 DEF Kept, Acknowledged, Fresh
    <3>1. Held(s) /\ (s >= tick - Window => s \in DOMAIN backlog)
      BY <1>0 DEF Kept, Acknowledged
    <3>2. s \in Int
      BY <1>0
    <3> QED BY <1>0, <1>2, <1>3, <3>1, <3>2 DEF Held
  <2>2. SameWorld'
    BY <1>0, <1>3, <1>6 DEF SameWorld, Fresh
  <2> QED BY <1>3, <1>5, <1>6, <2>1, <2>2 DEF Sound
<1>7. ASSUME DoSnapshot(t), t % SnapEvery = 0 PROVE Sound'
  <2>1. PICK world \in Worlds, n \in 1 .. MaxParts, delta \in Acks,
             base \in Worlds \cup {Empty} :
          /\ backlog' = Backlog(t, world)
          /\ delta = DeltaTick(backlog')
          /\ delta # None => base = backlog'[delta]
          /\ snaps' = {[tick |-> t, delta |-> delta, numParts |-> n, part |-> p,
                        base |-> base, world |-> world, empty |-> base = world,
                        round |-> round] : p \in 0 .. n - 1}
    BY <1>0, <1>3, <1>7, NewSnapshot
  <2>2. /\ DOMAIN backlog' = {s \in DOMAIN backlog : s >= t - Window} \cup {t}
        /\ \A s \in DOMAIN backlog' : backlog'[s] = IF s = t THEN world ELSE backlog[s]
    BY <1>0, <2>1, BacklogKeeps
  <2>3. Kept'
    <3> SUFFICES ASSUME NEW s \in {ack, lastAcked}, Fresh(s)
                 PROVE  Held(s)' /\ (s >= t - Window => s \in DOMAIN backlog')
      BY <1>1, <1>3 DEF Kept, Acknowledged, Fresh
    <3>1. Held(s) /\ (s >= tick - Window => s \in DOMAIN backlog)
      BY <1>0 DEF Kept, Acknowledged
    <3>2. s \in Int
      BY <1>0
    <3>3. s >= t - Window => s \in DOMAIN backlog
      BY <1>0, <1>2, <3>1, <3>2
    <3>4. Held(s)'
      BY <1>3, <3>1 DEF Held
    <3> QED BY <2>2, <3>3, <3>4
  <2>4. SameWorld'
    <3> SUFFICES ASSUME NEW i \in 1 .. Len(storage), Fresh(storage[i].tick),
                        storage[i].tick \in DOMAIN backlog'
                 PROVE  storage[i].world = backlog'[storage[i].tick]
      BY <1>3 DEF SameWorld, Fresh
    <3>1. storage[i].tick # t
      BY <1>0, <1>2, <1>4, TypeFacts
    <3>2. storage[i].tick \in DOMAIN backlog /\ backlog'[storage[i].tick] = backlog[storage[i].tick]
      BY <2>2, <3>1
    <3> QED BY <1>0, <3>2 DEF SameWorld
  <2>5. delta = None \/ (delta = lastAcked /\ lastAcked \in DOMAIN backlog')
    BY <1>3, <2>1 DEF DeltaTick
  <2>6. ASSUME NEW m \in snaps' PROVE Current(m)' /\ OnKnown(m)' /\ Whole(m)'
    <3> DEFINE D(p) == [tick |-> t, delta |-> delta, numParts |-> n, part |-> p,
                        base |-> base, world |-> world, empty |-> base = world,
                        round |-> round]
    <3>1. PICK q \in 0 .. n - 1 : m = D(q)
      BY <2>1
    <3>2. /\ m.tick = t /\ m.delta = delta /\ m.numParts = n /\ m.part = q
          /\ m.base = base /\ m.world = world
      BY <3>1
    <3>3. \A p : PartOf(m, p) = D(p)
      BY <3>1 DEF PartOf
    <3>4. snaps' = {D(p) : p \in 0 .. n - 1}
      BY <2>1
    <3>5. \A p : D(p).part = p
      OBVIOUS
    <3> HIDE DEF D
    <3>6. Current(m)'
      <4>1. t \in DOMAIN backlog' /\ backlog'[t] = world
        BY <2>2
      <4> QED BY <1>1, <1>3, <1>4, <1>7, <3>2, <4>1 DEF Current
    <3>7. OnKnown(m)'
      <4>1. ASSUME Fresh(delta)
            PROVE  Held(delta)' /\ delta \in DOMAIN backlog' /\ base = backlog'[delta]
        <5>1. delta # None /\ delta = lastAcked /\ lastAcked \in DOMAIN backlog'
          BY <1>0, <2>5, <4>1 DEF Fresh
        <5>2. Held(lastAcked)
          BY <1>0, <4>1, <5>1 DEF Kept, Acknowledged
        <5>3. Held(delta)'
          BY <1>3, <5>1, <5>2 DEF Held
        <5> QED BY <2>1, <5>1, <5>3
      <4>2. ASSUME t > Settled, delta # None PROVE Fresh(delta)
        <5>1. delta = lastAcked /\ lastAcked \in DOMAIN backlog' /\ lastAcked # t
          BY <1>0, <1>2, <1>4, <2>5, <4>2
        <5>2. lastAcked >= t - Window
          BY <2>2, <5>1
        <5> QED BY <1>0, <1>2, <4>2, <5>1, <5>2 DEF Fresh
      <4>3. ASSUME NEW s \in {ack, lastAcked}, Fresh(s) PROVE delta <= s
        <5>1. s \in Int /\ s > StormTicks
          BY <1>0, <4>3 DEF Fresh
        <5>2. CASE delta = None
          BY <1>0, <5>1, <5>2
        <5>3. CASE delta = lastAcked /\ s = ack
          <6>1. Fresh(lastAcked) => lastAcked <= ack
            BY <1>0, <4>3, <5>3 DEF InOrder
          <6>2. ~Fresh(lastAcked) => lastAcked <= StormTicks
            BY <1>0 DEF Fresh
          <6> QED BY <1>0, <5>1, <5>3, <6>1, <6>2
        <5>4. CASE delta = lastAcked /\ s = lastAcked
          BY <1>0, <5>4
        <5> QED BY <2>5, <5>2, <5>3, <5>4
      <4>4. (t > Settled => delta = None \/ Fresh(delta))
            /\ \A s \in {ack, lastAcked} : Fresh(s) => delta <= s
        BY <4>2, <4>3
      <4>5. Acknowledged' = {ack, lastAcked}
        BY <1>3 DEF Acknowledged
      <4> QED BY <1>1, <3>2, <4>1, <4>4, <4>5 DEF OnKnown, Fresh
    <3>8. Whole(m)'
      <4>1. PartsNow' = {}
        BY <1>0, <1>1, <1>2, <1>3, <1>4 DEF PartsNow
      <4>2. \A o \in snaps' : o = PartOf(m, o.part)
        BY <3>3, <3>4, <3>5
      <4>3. \A p \in 0 .. n - 1 : PartOf(m, p) \in snaps'
        BY <3>3, <3>4
      <4> QED BY <3>2, <4>1, <4>2, <4>3 DEF Whole
    <3> QED BY <3>6, <3>7, <3>8
  <2> QED BY <1>5, <2>3, <2>4, <2>6 DEF Sound
<1> QED BY <1>2, <1>6, <1>7

(* A step that takes no snapshot and acknowledges nothing new. *)
LEMMA SoundSame ==
  ASSUME BaseInv, Sound,
         UNCHANGED <<tick, backlog, storage>>, lastAcked' \in {lastAcked} \cup inputs,
         ack' \in {ack, None}, inputs' \subseteq inputs \cup {ack, None},
         UNCHANGED <<snaps, recvTick, parts>> \/ snaps' = {}
  PROVE  Sound'
<1>0. /\ Kept /\ InOrder /\ SameWorld /\ StormTicks \in Nat /\ None = -1
      /\ ack \in Int /\ lastAcked \in Int /\ inputs \subseteq Int
  BY NumberFacts, TypeFacts DEF Sound, BaseInv
<1>1. ~Fresh(None) /\ (lastAcked' = lastAcked \/ lastAcked' \in inputs)
  BY <1>0 DEF Fresh
<1>2. \A t \in Acknowledged' : Fresh(t) => t \in Acknowledged
  BY <1>1 DEF Acknowledged
<1>3. \A t \in Acknowledged' :
        Fresh(t) => Held(t) /\ (t >= tick - Window => t \in DOMAIN backlog)
  BY <1>0, <1>2 DEF Kept
<1>4. Kept'
  <2> SUFFICES ASSUME NEW t \in Acknowledged', Fresh(t)
               PROVE  Held(t)' /\ (t >= tick' - Window => t \in DOMAIN backlog')
    BY DEF Kept, Fresh
  <2>1. Held(t) /\ (t >= tick - Window => t \in DOMAIN backlog)
    BY <1>3
  <2> QED BY <2>1 DEF Held
<1>5. InOrder'
  <2>1. Fresh(ack') => ack' = ack
    BY <1>1
  <2>2. ASSUME NEW t \in {lastAcked'} \cup inputs', Fresh(t), Fresh(ack') PROVE t <= ack'
    <3>1. ack' = ack /\ t \in {lastAcked, ack} \cup inputs
      BY <1>1, <2>1, <2>2
    <3> QED BY <1>0, <2>2, <3>1 DEF InOrder
  <2> QED BY <1>0, <2>1, <2>2 DEF InOrder, Fresh
<1>6. SameWorld'
  BY <1>0 DEF SameWorld, Fresh
<1>7. ASSUME NEW m \in snaps', UNCHANGED <<snaps, recvTick, parts>>
      PROVE  Current(m)' /\ OnKnown(m)' /\ Whole(m)'
  <2>1. Current(m) /\ OnKnown(m) /\ Whole(m)
    BY <1>7 DEF Sound
  <2>2. Current(m)'
    <3>1. ack' < tick
      <4>1. tick \in Nat
        BY TypeFacts DEF BaseInv
      <4> QED BY <1>0, <2>1, <4>1 DEF Current
    <3> QED BY <2>1, <3>1 DEF Current
  <2>3. OnKnown(m)'
    BY <1>2, <2>1 DEF OnKnown, Fresh, Held
  <2>4. Whole(m)'
    BY <1>7, <2>1 DEF Whole, PartsNow
  <2> QED BY <2>2, <2>3, <2>4
<1> QED BY <1>4, <1>5, <1>6, <1>7 DEF Sound

LEMMA SoundPart ==
  ASSUME BaseInv, InCalm, Sound, OnSnapPart
  PROVE  Sound'
<1>0. /\ SnapInv /\ CalmInv /\ IsCalm
      /\ UNCHANGED <<tick, backlog, storage, lastAcked, ack, inputs>>
  BY DEF OnSnapPart, BaseInv, InCalm, serverSnapVars
<1>1. PICK m \in snaps : /\ snaps' = snaps \ {m} /\ recvTick' = m.tick
                         /\ parts' = PartsWith(m)
  BY <1>0 DEF OnSnapPart, Deliver
<1>2. m \in Datagram /\ Current(m) /\ Whole(m) /\ m.tick = tick
  BY <1>0, TypeFacts DEF Sound, Current
<1>3. /\ PartsNow' = PartsNow \cup {m.part}
      /\ \A p \in PartsNow' : parts'[p] = IF p = m.part THEN m ELSE parts[p]
      /\ m.part \in 0 .. m.numParts - 1 /\ m.numParts \in Nat
  BY <1>0, <1>1, <1>2, PartsHere DEF PartsNow
<1>4. Kept' /\ InOrder' /\ SameWorld'
  BY <1>0 DEF Sound, Kept, InOrder, SameWorld, Acknowledged, Held, Fresh
<1>5. ASSUME NEW o \in snaps' PROVE Current(o)' /\ OnKnown(o)' /\ Whole(o)'
  <2>1. o \in snaps /\ o # m /\ o \in Datagram /\ Current(o) /\ OnKnown(o) /\ Whole(o)
    BY <1>0, <1>1, TypeFacts DEF Sound
  <2>2. Current(o)' /\ OnKnown(o)'
    BY <1>0, <2>1 DEF Current, OnKnown, Held, Fresh, Acknowledged
  <2>3. o = PartOf(m, o.part) /\ m = PartOf(o, m.part)
    BY <1>2, <2>1 DEF Whole
  <2>4. o.part \in Nat /\ m.part \in Nat
    BY <1>2, <2>1 DEF Datagram
  <2>5. o.part # m.part /\ o.numParts = m.numParts
    BY <1>2, <2>1, <2>3, <2>4, PartFacts
  <2>6. \A p \in PartsNow' : parts'[p] = PartOf(o, p)
    BY <1>3, <2>1, <2>3 DEF Whole
  <2>7. \A p \in 0 .. o.numParts - 1 : p \in PartsNow' \/ PartOf(o, p) \in snaps'
    <3> SUFFICES ASSUME NEW p \in 0 .. o.numParts - 1, p \notin PartsNow'
                 PROVE  PartOf(o, p) \in snaps'
      OBVIOUS
    <3>1. PartOf(o, p) \in snaps /\ p # m.part
      BY <1>3, <2>1 DEF Whole
    <3>2. p \in Nat
      BY <1>3, <2>5
    <3>3. PartOf(o, p).part = p
      BY <2>1, <3>2, PartFacts
    <3> QED BY <1>1, <3>1, <3>3
  <2>8. PartsNow' \subseteq 0 .. o.numParts - 1 /\ o.part \notin PartsNow'
    BY <1>3, <2>1, <2>5 DEF Whole
  <2>9. \A q \in snaps' : q = PartOf(o, q.part)
    BY <1>1, <2>1 DEF Whole
  <2> QED BY <2>2, <2>6, <2>7, <2>8, <2>9 DEF Whole
<1> QED BY <1>4, <1>5 DEF Sound

(* The snapshot of this tick is taken. *)
LEMMA SoundTaken ==
  ASSUME BaseInv, InCalm, Sound, OnSnapTaken
  PROVE  Sound' /\ ack' = tick /\ snaps' = {}
<1>0. /\ SnapInv /\ Bounded /\ IsCalm /\ tick \in Nat
      /\ UNCHANGED <<tick, backlog, lastAcked, inputs>>
      /\ Kept /\ InOrder /\ SameWorld
      /\ ack \in Int /\ lastAcked \in Int /\ inputs \subseteq Int
      /\ StormTicks \in Nat /\ tick > StormTicks
      /\ storage \in Seq(Holder) /\ Len(storage) \in Nat
      /\ \A i \in 1 .. Len(storage) : storage[i].tick \in Nat
  BY TypeFacts, NumberFacts DEF OnSnapTaken, Assembled, BaseInv, CalmInv, InCalm,
     serverSnapVars, Sound
<1>1. PICK m \in snaps, d \in Nat : Taken(m, d)
  BY <1>0, TakenFacts DEF SnapInv
<1>2. /\ m \in Datagram /\ Current(m) /\ OnKnown(m) /\ m.tick = tick /\ ack' = tick
      /\ tick % SnapEvery = 0 /\ tick \in DOMAIN backlog /\ m.world = backlog[tick]
      /\ \A t \in Acknowledged : Fresh(t) => m.delta <= t
  BY <1>1 DEF Taken, Sound, Current, OnKnown
<1>3. snaps' = {}
  <2>1. PICK o \in snaps : Deliver(o) /\ Complete(o)
    BY DEF OnSnapTaken, Assembled
  <2> QED BY <1>0, <2>1, LastPart
<1>4. PurgeTick(m) \in Int /\ m.delta \in Int /\ PurgeTick(m) <= m.delta
  <2>1. PurgeTick(m) \in Acks /\ PurgeTick(m) <= m.delta
    BY <1>0, <1>2, PurgeTickFacts DEF SnapInv, SnapTypes
  <2>2. m.delta \in Acks
    BY <1>2 DEF Datagram
  <2> QED BY <2>1, <2>2, NumberFacts
<1>5. ASSUME NEW t \in Acknowledged, Fresh(t) PROVE Held(t)'
  <2>1. PICK i \in 1 .. Len(storage) : storage[i].tick = t
    BY <1>0, <1>5 DEF Kept, Held
  <2>2. t \in Int /\ m.delta <= t
    BY <1>0, <1>2, <1>5 DEF Acknowledged
  <2>3. storage[i].tick >= PurgeTick(m)
    BY <1>4, <2>1, <2>2
  <2>4. \E j \in 1 .. Len(storage') : storage'[j] = storage[i]
    BY <1>0, <1>1, <2>3, StorageTaken
  <2> QED BY <2>1, <2>4 DEF Held
<1>6. \E i \in 1 .. Len(storage') : storage'[i].tick = tick
  <2>1. Len(storage') \in 1 .. Len(storage') /\ storage'[Len(storage')].tick = m.tick
    BY <1>0, <1>1, StorageTaken DEF Taken
  <2> QED BY <1>2, <2>1
<1>7. Kept'
  <2> SUFFICES ASSUME NEW t \in Acknowledged', Fresh(t)
               PROVE  Held(t)' /\ (t >= tick - Window => t \in DOMAIN backlog)
    BY <1>0 DEF Kept, Fresh
  <2>1. CASE t = tick
    <3>1. Held(t)'
      BY <1>6, <2>1 DEF Held
    <3> QED BY <1>2, <2>1, <3>1
  <2>2. CASE t # tick
    <3>1. t \in Acknowledged
      BY <1>0, <1>2, <2>2 DEF Acknowledged
    <3> QED BY <1>0, <1>5, <3>1 DEF Kept
  <2> QED BY <2>1, <2>2
<1>8. InOrder'
  <2>1. \A t \in {lastAcked} \cup inputs : t <= tick
    <3>1. Latest = tick
      BY <1>0 DEF Latest
    <3> QED BY <1>0, <3>1 DEF Bounded
  <2> QED BY <1>0, <1>2, <2>1 DEF InOrder, Fresh
<1>9. SameWorld'
  <2> SUFFICES ASSUME NEW i \in 1 .. Len(storage'), Fresh(storage'[i].tick),
                      storage'[i].tick \in DOMAIN backlog
               PROVE  storage'[i].world = backlog[storage'[i].tick]
    BY <1>0 DEF SameWorld, Fresh
  <2>1. CASE \E j \in 1 .. Len(storage) : storage'[i] = storage[j]
    BY <1>0, <2>1 DEF SameWorld
  <2>2. CASE storage'[i].tick = m.tick /\ storage'[i].world = m.world
    BY <1>2, <2>2
  <2> QED BY <1>0, <1>1, <2>1, <2>2, StorageTaken
<1> QED BY <1>2, <1>3, <1>7, <1>8, <1>9 DEF Sound

(* The calm begins with a tick that is not fresh. *)
LEMMA CalmBefore ==
  ASSUME BaseInv, [SnapNext]_vars, InCalm'
  PROVE  IsCalm
<1> USE DEF serverSnapVars, clientSnapVars, calmVars, snapVars, vars
<1> SUFFICES ASSUME ~IsCalm PROVE FALSE
  OBVIOUS
<1>1. tick <= StormTicks /\ tick \in Nat /\ StormTicks \in Nat
  BY TypeFacts, NumberFacts DEF BaseInv, CalmInv, Bounded
<1>2. CASE BecomeCalm
  <2>1. tick' = tick
    BY <1>2 DEF BecomeCalm
  <2> QED BY <1>1, <2>1 DEF InCalm
<1>3. CASE ~BecomeCalm
  <2>1. calm' = calm
    BY <1>3 DEF SnapNext, JoinStep, SnapLoad, SnapEnter, SnapMapChange, Tick, OnInput,
           Update, OnSnapIgnored, OnSnapPart, OnSnapNoBase, OnSnapGarbled,
           OnSnapTaken, Assembled, Lose
  <2> QED BY <2>1 DEF InCalm, IsCalm
<1> QED BY <1>2, <1>3

LEMMA SoundAtTick ==
  ASSUME BaseInv, SoundInv, IsCalm, Tick
  PROVE  Sound
<1>1. CASE tick > StormTicks
  BY <1>1 DEF SoundInv, InCalm
<1>2. CASE tick <= StormTicks
  BY <1>2, SoundStart DEF Tick
<1>3. tick \in Nat /\ StormTicks \in Nat
  BY TypeFacts, NumberFacts DEF BaseInv
<1> QED BY <1>1, <1>2, <1>3

LEMMA SoundInvStep == BaseInv /\ SoundInv /\ [SnapNext]_vars => SoundInv'
<1> SUFFICES ASSUME BaseInv, SoundInv, [SnapNext]_vars, InCalm' PROVE Sound'
  BY DEF SoundInv
<1> USE DEF serverSnapVars, clientSnapVars, calmVars, snapVars, vars
<1>0. SnapInv /\ CalmInv /\ Bounded /\ Stays
  BY DEF BaseInv, CalmInv
<1>1. IsCalm
  BY CalmBefore
<1>2. CASE Tick
  <2>1. Sound
    BY <1>1, <1>2, SoundAtTick
  <2> QED BY <1>1, <1>2, <2>1, SoundTick DEF InCalm
<1>3. CASE ~Tick
  <2>0. /\ OnInput \/ Update \/ SnapStep \/ UNCHANGED vars
        /\ tick' = tick
    BY <1>0, <1>1, <1>3, CalmSteps DEF OnInput, Update, SnapStep, OnSnapIgnored, OnSnapPart,
           OnSnapNoBase, OnSnapGarbled, OnSnapTaken, Assembled
  <2>1. InCalm /\ Sound
    BY <1>1, <2>0 DEF InCalm, SoundInv
  <2>2. CASE OnInput
    <3>1. /\ UNCHANGED <<tick, backlog, storage, snaps, recvTick, parts, ack>>
          /\ inputs' \subseteq inputs /\ lastAcked' \in inputs
      BY <1>1, <2>2 DEF OnInput
    <3> QED BY <2>1, <3>1, SoundSame
  <2>3. CASE Update
    <3>1. /\ UNCHANGED <<tick, backlog, storage, snaps, recvTick, parts, ack, lastAcked>>
          /\ inputs' \subseteq inputs \cup {ack}
      BY <1>1, <2>3 DEF Update, AddInput
    <3> QED BY <2>1, <3>1, SoundSame
  <2>4. CASE OnSnapIgnored
    BY <1>0, <2>1, <2>4, AllWanted DEF OnSnapIgnored, Deliver
  <2>5. CASE OnSnapPart
    BY <2>1, <2>5, SoundPart
  <2>6. CASE OnSnapNoBase \/ OnSnapGarbled
    <3>1. PICK m \in snaps : Deliver(m) /\ Complete(m)
      BY <2>6 DEF OnSnapNoBase, OnSnapGarbled, Assembled
    <3>2. snaps' = {}
      BY <1>0, <1>1, <2>1, <3>1, LastPart
    <3>3. /\ UNCHANGED <<tick, backlog, storage, lastAcked>>
          /\ ack' \in {ack, None} /\ inputs' \subseteq inputs \cup {None}
      BY <2>6 DEF OnSnapNoBase, OnSnapGarbled, Assembled, MaybeSendInput, AddInput
    <3> QED BY <2>1, <3>2, <3>3, SoundSame
  <2>7. CASE OnSnapTaken
    BY <2>1, <2>7, SoundTaken
  <2>8. CASE UNCHANGED vars
    BY <2>1, <2>8, SoundSame
  <2> QED BY <2>0, <2>2, <2>3, <2>4, <2>5, <2>6, <2>7, <2>8 DEF SnapStep
<1> QED BY <1>2, <1>3

-----------------------------------------------------------------------------
(* The worlds: nothing has been spoiled, so the data is what it should be, *)
(* and every snapshot that is complete is taken.                           *)
LEMMA UnspoiledBefore ==
  ASSUME rounds \in SUBSET (1 .. MaxRounds), rounds' \in SUBSET (1 .. MaxRounds),
         rounds \subseteq rounds', Unspoiled'
  PROVE  Unspoiled
<1>1. CASE \A v, w \in Worlds : v = w
  BY <1>1 DEF Unspoiled
<1>2. CASE Cardinality(rounds') <= 1
  <2>1. rounds' = {} \/ \E r \in 1 .. MaxRounds : rounds' = {r}
    BY <1>2, FewRounds
  <2>2. rounds = {} \/ \E r \in 1 .. MaxRounds : rounds = {r}
    BY <2>1
  <2> QED BY <2>2, FewRounds DEF Unspoiled
<1> QED BY <1>1, <1>2 DEF Unspoiled

LEMMA DataIsTrue ==
  ASSUME BaseInv, Unspoiled
  PROVE  \A i \in 1 .. Len(storage) : storage[i].data = storage[i].world
<1>0. storage \in Seq(Holder) /\ \A i \in 1 .. Len(storage) : storage[i] \in Holder
  <2>1. storage \in Seq(Holder)
    BY TypeFacts DEF BaseInv
  <2> QED BY <2>1
<1>1. CASE \A v, w \in Worlds : v = w
  BY <1>0, <1>1 DEF Holder, BaseInv, CalmInv, HeldWorlds
<1>2. CASE Cardinality(rounds) <= 1
  BY <1>0, <1>2 DEF BaseInv, FaithInv, Faithful
<1> QED BY <1>1, <1>2 DEF Unspoiled

LEMMA CompleteFits ==
  ASSUME BaseInv, InCalm, Sound, Unspoiled, tick > Settled, NEW m \in snaps, Complete(m)
  PROVE  HasBase(m) /\ Unpacked(m) # Garbled
<1>0. SnapInv /\ Worlds \cap {Empty, Garbled} = {} /\ Garbled # Empty
  BY SnapAssumption DEF BaseInv
<1>1. /\ m \in Datagram /\ WellFormed(m) /\ m.tick = tick
      /\ OnKnown(m) /\ Whole(m) /\ SameWorld /\ storage \in Seq(Holder)
      /\ m.delta = None \/ Fresh(m.delta)
  BY <1>0, TypeFacts DEF Sound, Current, OnKnown
<1>2. HasBase(m)
  <2>1. CASE m.delta = None
    BY <2>1 DEF HasBase
  <2>2. CASE Fresh(m.delta)
    <3>1. PICK i \in 1 .. Len(storage) : storage[i].tick = m.delta
      BY <1>1, <2>2 DEF OnKnown, Held
    <3>2. i \in DOMAIN storage
      BY <1>1
    <3> QED BY <3>1, <3>2 DEF HasBase, HoldersAt
  <2> QED BY <1>1, <2>1, <2>2
<1>3. BaseData(m) = m.base
  <2>1. CASE m.delta = None
    BY <1>1, <1>2, <2>1, BaseFacts DEF WellFormed
  <2>2. CASE m.delta # None
    <3>1. PICK i \in 1 .. Len(storage) :
            storage[i].tick = m.delta /\ BaseData(m) = storage[i].data
      BY <1>1, <1>2, <2>2, BaseFacts
    <3>2. Fresh(m.delta) /\ m.delta \in DOMAIN backlog /\ m.base = backlog[m.delta]
      BY <1>1, <2>2 DEF OnKnown
    <3>3. storage[i].world = backlog[m.delta]
      BY <1>1, <3>1, <3>2 DEF SameWorld
    <3> QED BY <3>1, <3>2, <3>3, DataIsTrue
  <2> QED BY <2>1, <2>2
<1>4. Coherent(m)
  <2>1. /\ DOMAIN PartsWith(m) = PartsNow \cup {m.part}
        /\ \A p \in DOMAIN PartsWith(m) :
             PartsWith(m)[p] = IF p = m.part THEN m ELSE parts[p]
    BY <1>0, <1>1, PartsHere
  <2>2. PartOf(m, m.part) = m
    <3>1. m.part \in Nat
      BY <1>1 DEF Datagram
    <3> QED BY <1>1, <3>1, PartFacts
  <2>3. \A p \in DOMAIN PartsWith(m) : PartsWith(m)[p] = PartOf(m, p)
    BY <1>1, <2>1, <2>2 DEF Whole
  <2> QED BY <2>3 DEF Coherent, PartOf
<1>5. m.world \in Worlds /\ m.base \in Worlds \cup {Empty}
  BY <1>1 DEF Datagram
<1>6. Unpacked(m) # Garbled
  <2>1. CASE m.empty
    <3>1. Unpacked(m) = m.base
      BY <1>3, <2>1 DEF Unpacked
    <3> QED BY <1>0, <1>5, <3>1
  <2>2. CASE ~m.empty
    <3>1. Unpacked(m) = m.world
      BY <1>3, <1>4, <2>2 DEF Unpacked
    <3> QED BY <1>0, <1>5, <3>1
  <2> QED BY <2>1, <2>2
<1> QED BY <1>2, <1>6

-----------------------------------------------------------------------------
(* What is done by when, given three ticks after Settled at which every    *)
(* rate sends a snapshot: by the first the client has a fresh one, by the  *)
(* second it is online, by the third it sends inputs.                      *)
Deadlines(a, b, c) ==
  /\ {a, b, c} \subseteq Nat
  /\ Settled < a /\ a < b /\ b < c
  /\ Common(a) /\ Common(b) /\ Common(c)
  /\ SnapEvery \in {1, 2} /\ Window >= 3 /\ MaxInputs > 0

Passed(t) == tick > t \/ (tick = t /\ snaps = {})

Progress(a, b, c) ==
  /\ Passed(a) => ack >= a /\ received >= 1
  /\ Passed(b) => received >= 2
  /\ Passed(c) => received = 3

(* From the first on the inputs acknowledge what came at it or later. *)
Sending(a, c) ==
  /\ ~polled => inputs = {}
  /\ tick > a => \A t \in inputs : t >= a
  /\ tick > a /\ polled /\ inputs = {} => lastAcked >= a
  /\ tick > c => lastAcked >= a

AtFullRate(a) == lastAcked >= a => rate = "FULL" /\ received = 3

(* Then the acknowledgements are never older than three ticks. *)
Prompt(a) ==
  /\ received = 3 /\ ack >= a => tick <= ack + 1 \/ (tick = ack + 2 /\ snaps # {})
  /\ polled /\ ack >= a /\ ack < tick => inputs = {ack} \/ (inputs = {} /\ lastAcked = ack)
  /\ \A t \in inputs : t >= a => t >= tick - 2
  /\ lastAcked >= a =>
       lastAcked >= tick - 3 /\ (polled /\ inputs = {} => lastAcked >= tick - 2)

NothingMissed ==
  \A t \in DOMAIN backlog : t > Settled => t <= ack \/ (t = tick /\ snaps # {})

Timely(a, b, c) ==
  Progress(a, b, c) /\ Sending(a, c) /\ AtFullRate(a) /\ Prompt(a) /\ NothingMissed

InTime == IsCalm /\ Unspoiled /\ tick > Settled

TimelyInv(a, b, c) == InTime => Timely(a, b, c)

LEMMA DeadlineFacts ==
  ASSUME NEW a, NEW b, NEW c, Deadlines(a, b, c)
  PROVE  /\ a \in Nat /\ b \in Nat /\ c \in Nat /\ Settled \in Nat
         /\ StormTicks <= Settled /\ Settled < a /\ StormTicks < a /\ a < b /\ b < c /\ 0 < a
         /\ Common(a) /\ Common(b) /\ Common(c)
         /\ SnapEvery \in {1, 2} /\ Window \in Nat /\ Window >= 3
         /\ MaxInputs \in Nat /\ MaxInputs > 0
BY NumberFacts DEF Deadlines

LEMMA TimelyStart ==
  ASSUME BaseInv, NEW a, NEW b, NEW c, Deadlines(a, b, c),
         tick <= Settled, snaps = {}, inputs = {}
  PROVE  Timely(a, b, c)
<1>0. SnapInv /\ Bounded
  BY DEF BaseInv, CalmInv
<1>1. /\ a \in Nat /\ b \in Nat /\ c \in Nat /\ Settled \in Nat /\ StormTicks \in Nat
      /\ StormTicks <= Settled /\ Settled < a /\ a < b /\ b < c
  BY DeadlineFacts, NumberFacts
<1>2. tick \in Nat /\ ack \in Int /\ lastAcked \in Int /\ DOMAIN backlog \subseteq Nat
  BY <1>0, TypeFacts
<1>3. Latest \in Nat /\ Latest <= Settled
  BY <1>1, <1>2 DEF Latest
<1>4. ~ (ack >= a) /\ ~ (lastAcked >= a) /\ ~ (tick > a)
  BY <1>0, <1>1, <1>2, <1>3 DEF Bounded
<1>5. Progress(a, b, c)
  BY <1>1, <1>2 DEF Progress, Passed
<1>6. Sending(a, c)
  BY <1>1, <1>2, <1>4 DEF Sending
<1>7. NothingMissed
  BY <1>0, <1>1, <1>2, <1>3 DEF NothingMissed, Bounded
<1> QED BY <1>4, <1>5, <1>6, <1>7 DEF Timely, AtFullRate, Prompt

(* The server sends a snapshot at every tick that is due. *)
LEMMA TimelyTick ==
  ASSUME BaseInv, NEW a, NEW b, NEW c, Deadlines(a, b, c), IsCalm, Sound,
         Timely(a, b, c), Tick
  PROVE  Timely(a, b, c)'
<1>0. SnapInv /\ Stays /\ Kept /\ InOrder
  BY DEF BaseInv, CalmInv, Sound
<1>1. /\ a \in Nat /\ b \in Nat /\ c \in Nat /\ a < b /\ b < c /\ StormTicks < a
      /\ Common(a) /\ Common(b) /\ Common(c) /\ StormTicks \in Nat
      /\ SnapEvery \in {1, 2} /\ Window \in Nat /\ Window >= 3
  BY DeadlineFacts, NumberFacts
<1>2. /\ tick \in Nat /\ ack \in Int /\ lastAcked \in Int /\ received \in 0 .. 3
      /\ None = -1
  BY <1>0, TypeFacts, NumberFacts
<1>3. PICK t \in Ticks : t = tick'
  BY <1>0, TickFacts
<1>4. /\ t = tick + 1 /\ t \in Nat
      /\ IF t % SnapEvery = 0 /\ Due(t)
           THEN DoSnapshot(t) ELSE UNCHANGED <<backlog, rate, snaps>>
  BY <1>0, <1>3, TickFacts
<1>5. /\ snaps = {} /\ inputs = {} /\ inputs' = {} /\ ~polled'
      /\ UNCHANGED <<lastAcked, ack, received>>
      /\ polled \/ cstate # "ONLINE" \/ received < 3
  BY DEF Tick, clientSnapVars
<1>6. received = 3 => polled
  BY <1>0, <1>2, <1>5 DEF Stays
<1>7. lastAcked >= a => /\ polled /\ rate = "FULL" /\ lastAcked >= tick - 2
                        /\ lastAcked \in DOMAIN backlog
  <2> SUFFICES ASSUME lastAcked >= a
               PROVE  /\ polled /\ rate = "FULL" /\ lastAcked >= tick - 2
                      /\ lastAcked \in DOMAIN backlog
    OBVIOUS
  <2>1. polled /\ rate = "FULL"
    BY <1>6 DEF Timely, AtFullRate
  <2>2. lastAcked >= tick - 2
    BY <1>5, <2>1 DEF Timely, Prompt
  <2>3. Fresh(lastAcked)
    BY <1>1, <1>2 DEF Fresh
  <2>4. lastAcked >= tick - Window
    BY <1>1, <1>2, <2>2
  <2> QED BY <1>0, <2>1, <2>2, <2>3, <2>4 DEF Kept, Acknowledged
<1>8. ASSUME t % SnapEvery = 0, Due(t)
      PROVE  /\ snaps' # {}
             /\ DOMAIN backlog' = {s \in DOMAIN backlog : s >= t - Window} \cup {t}
             /\ rate' = RateAfter(DeltaTick(backlog'))
  <2>1. DoSnapshot(t)
    BY <1>4, <1>8
  <2>2. PICK world \in Worlds, n \in 1 .. MaxParts, delta \in Acks,
             base \in Worlds \cup {Empty} :
          /\ backlog' = Backlog(t, world)
          /\ delta = DeltaTick(backlog')
          /\ rate' = RateAfter(delta)
          /\ snaps' = {[tick |-> t, delta |-> delta, numParts |-> n, part |-> p,
                        base |-> base, world |-> world, empty |-> base = world,
                        round |-> round] : p \in 0 .. n - 1}
    BY <1>0, <1>5, <2>1, NewSnapshot
  <2>3. 0 \in 0 .. n - 1
    OBVIOUS
  <2>4. snaps' # {}
    BY <2>2, <2>3
  <2>5. DOMAIN backlog' = {s \in DOMAIN backlog : s >= t - Window} \cup {t}
    BY <1>0, <2>2, BacklogKeeps
  <2> QED BY <2>2, <2>4, <2>5
<1>9. ASSUME ~ (t % SnapEvery = 0 /\ Due(t))
      PROVE  UNCHANGED <<backlog, rate, snaps>>
  BY <1>4, <1>9
<1>10. ASSUME Common(t) PROVE snaps' # {}
  <2>1. t % SnapEvery = 0 /\ t % TickSpeed = 0 /\ t % InitEvery = 0
    BY <1>10 DEF Common
  <2>2. Due(t)
    BY <1>0, <2>1 DEF Due, Stays
  <2> QED BY <1>8, <2>1, <2>2
<1>11. Progress(a, b, c)'
  <2>1. ASSUME NEW x \in {a, b, c}, Passed(x)' PROVE Passed(x)
    <3>1. tick' # x \/ snaps' # {}
      BY <1>1, <1>3, <1>10
    <3>2. t > x
      BY <1>3, <2>1, <3>1 DEF Passed
    <3>3. tick >= x /\ x \in Nat
      BY <1>1, <1>2, <1>4, <3>2
    <3> QED BY <1>2, <1>5, <3>3 DEF Passed
  <2>2. (Passed(a)' => Passed(a)) /\ (Passed(b)' => Passed(b)) /\ (Passed(c)' => Passed(c))
    BY <2>1
  <2>3. Progress(a, b, c)
    BY DEF Timely
  <2> QED BY <1>5, <2>2, <2>3 DEF Progress
<1>12. Sending(a, c)'
  <2>1. ASSUME t > c PROVE lastAcked >= a
    <3>1. Passed(c) /\ tick > a
      BY <1>1, <1>2, <1>4, <1>5, <2>1 DEF Passed
    <3>2. polled
      BY <1>6, <3>1 DEF Timely, Progress
    <3> QED BY <1>5, <3>1, <3>2 DEF Timely, Sending
  <2> QED BY <1>3, <1>5, <2>1 DEF Sending
<1>13. AtFullRate(a)'
  <2> SUFFICES ASSUME lastAcked >= a PROVE rate' = "FULL" /\ received = 3
    BY <1>5 DEF AtFullRate
  <2>1. received = 3 /\ rate = "FULL"
    BY DEF Timely, AtFullRate
  <2>2. CASE t % SnapEvery = 0 /\ Due(t)
    <3>1. lastAcked \in DOMAIN backlog /\ lastAcked >= t - Window
      BY <1>1, <1>2, <1>4, <1>7
    <3>2. lastAcked \in DOMAIN backlog'
      BY <1>8, <2>2, <3>1
    <3>3. DeltaTick(backlog') = lastAcked
      <4> DEFINE log == backlog'
      <4>1. lastAcked \in DOMAIN log
        BY <3>2
      <4> HIDE DEF log
      <4>2. DeltaTick(log) = lastAcked
        BY <4>1 DEF DeltaTick
      <4> QED BY <4>2 DEF log
    <3>4. lastAcked # None
      BY <1>1, <1>2
    <3>5. RateAfter(lastAcked) = "FULL"
      BY <2>1, <3>4 DEF RateAfter
    <3> QED BY <1>8, <2>1, <2>2, <3>3, <3>5
  <2>3. CASE ~ (t % SnapEvery = 0 /\ Due(t))
    BY <1>9, <2>1, <2>3
  <2> QED BY <2>2, <2>3
<1>14. Prompt(a)'
  <2>1. ASSUME received = 3, ack >= a PROVE t <= ack + 1 \/ (t = ack + 2 /\ snaps' # {})
    <3>1. tick <= ack + 1
      BY <1>5, <2>1 DEF Timely, Prompt
    <3>2. CASE tick <= ack
      BY <1>2, <1>4, <3>2
    <3>3. CASE tick = ack + 1
      <4>1. lastAcked = ack
        <5>1. polled /\ ack < tick
          BY <1>2, <1>6, <2>1, <3>3
        <5> QED BY <1>5, <2>1, <5>1 DEF Timely, Prompt
      <4>2. rate = "FULL"
        BY <1>7, <2>1, <4>1
      <4>3. Due(t)
        BY <1>0, <4>2 DEF Due, Stays
      <4>4. ack % SnapEvery = 0
        BY <1>0, <1>1, <1>2, <2>1 DEF InOrder, Fresh
      <4>5. t = ack + 2
        BY <1>2, <1>4, <3>3
      <4>6. t % SnapEvery = 0
        <5>1. CASE SnapEvery = 1
          BY <1>4, <5>1
        <5>2. CASE SnapEvery = 2
          BY <1>2, <1>4, <4>4, <4>5, <5>2
        <5> QED BY <1>1, <5>1, <5>2
      <4> QED BY <1>8, <4>3, <4>5, <4>6
    <3> QED BY <1>2, <3>1, <3>2, <3>3
  <2>2. lastAcked >= a => lastAcked >= t - 3
    BY <1>2, <1>4, <1>7
  <2> QED BY <1>3, <1>5, <2>1, <2>2 DEF Prompt
<1>15. NothingMissed'
  <2> SUFFICES ASSUME NEW s \in DOMAIN backlog', s > Settled
               PROVE  s <= ack \/ (s = t /\ snaps' # {})
    BY <1>3, <1>5 DEF NothingMissed
  <2>1. s \in DOMAIN backlog => s <= ack
    BY <1>5 DEF Timely, NothingMissed
  <2>2. CASE t % SnapEvery = 0 /\ Due(t)
    BY <1>8, <2>1, <2>2
  <2>3. CASE ~ (t % SnapEvery = 0 /\ Due(t))
    BY <1>9, <2>1, <2>3
  <2> QED BY <2>2, <2>3
<1> QED BY <1>11, <1>12, <1>13, <1>14, <1>15 DEF Timely

(* An input is acknowledged by being received. *)
LEMMA TimelyInput ==
  ASSUME BaseInv, NEW a, NEW b, NEW c, Deadlines(a, b, c), IsCalm, Timely(a, b, c), OnInput
  PROVE  Timely(a, b, c)'
<1>0. SnapInv /\ Stays /\ Progress(a, b, c) /\ Sending(a, c) /\ Prompt(a) /\ NothingMissed
  BY DEF BaseInv, CalmInv, Timely
<1>1. a \in Nat /\ b \in Nat /\ c \in Nat /\ 0 < a /\ a < c
  BY DeadlineFacts
<1>2. PICK input \in inputs :
        inputs' = inputs \ {input} /\ lastAcked' = input /\ rate' = RateAfterInput(input)
  BY DEF OnInput
<1>3. UNCHANGED <<tick, backlog, snaps, ack, received, polled>>
  BY DEF OnInput, clientSnapVars, calmVars
<1>4. tick \in Nat /\ ack \in Int /\ lastAcked \in Int /\ input \in Int /\ inputs \subseteq Int
  BY <1>0, <1>2, TypeFacts
<1>5. polled /\ received = 3
  BY <1>0, <1>2 DEF Sending, Stays
<1>6. Progress(a, b, c)'
  BY <1>0, <1>3 DEF Progress, Passed
<1>7. Sending(a, c)'
  <2>1. tick > a => input >= a /\ \A t \in inputs' : t >= a
    BY <1>0, <1>2 DEF Sending
  <2>2. tick > c => tick > a
    BY <1>1, <1>4
  <2> QED BY <1>2, <1>3, <1>5, <2>1, <2>2 DEF Sending
<1>8. AtFullRate(a)'
  <2>1. input >= a => input > 0
    BY <1>1, <1>4
  <2> QED BY <1>2, <1>3, <1>5, <2>1 DEF AtFullRate, RateAfterInput
<1>9. Prompt(a)'
  <2>1. ack >= a /\ ack < tick => inputs = {ack}
    BY <1>0, <1>2, <1>5 DEF Prompt
  <2>2. ack >= a /\ ack < tick => inputs' = {} /\ lastAcked' = ack
    BY <1>2, <2>1
  <2>3. input >= a => input >= tick - 2 /\ input >= tick - 3
    <3>1. input >= a => input >= tick - 2
      BY <1>0, <1>2 DEF Prompt
    <3> QED BY <1>4, <3>1
  <2>4. \A t \in inputs' : t >= a => t >= tick - 2
    BY <1>0, <1>2 DEF Prompt
  <2>5. received = 3 /\ ack >= a => tick <= ack + 1 \/ (tick = ack + 2 /\ snaps # {})
    BY <1>0 DEF Prompt
  <2> QED BY <1>2, <1>3, <2>2, <2>3, <2>4, <2>5 DEF Prompt
<1>10. NothingMissed'
  BY <1>0, <1>3 DEF NothingMissed
<1> QED BY <1>6, <1>7, <1>8, <1>9, <1>10 DEF Timely

(* The client sends the input of this tick. *)
LEMMA TimelyUpdate ==
  ASSUME BaseInv, NEW a, NEW b, NEW c, Deadlines(a, b, c), IsCalm, Timely(a, b, c), Update
  PROVE  Timely(a, b, c)'
<1>0. SnapInv /\ Progress(a, b, c) /\ Sending(a, c) /\ Prompt(a) /\ NothingMissed
  BY DEF BaseInv, Timely
<1>1. a \in Nat /\ a < c /\ MaxInputs \in Nat /\ MaxInputs > 0
  BY DeadlineFacts
<1>2. /\ ~polled /\ received = 3 /\ polled' /\ inputs' = AddInput(ack, inputs)
      /\ UNCHANGED <<tick, rate, lastAcked, backlog, ack, received, snaps>>
  BY DEF Update, serverSnapVars
<1>3. inputs' = {ack}
  <2>1. inputs = {}
    BY <1>0, <1>2 DEF Sending
  <2>2. AddInput(ack, {}) = {ack}
    <3>1. {} \cup {ack} = {ack} /\ Cardinality({ack}) = 1
      BY FS_Singleton
    <3>2. 1 <= MaxInputs
      BY <1>1
    <3> QED BY <3>1, <3>2 DEF AddInput
  <2> QED BY <1>2, <2>1, <2>2
<1>4. tick \in Nat /\ ack \in Int /\ lastAcked \in Int
  BY <1>0, TypeFacts
<1>5. Progress(a, b, c)'
  BY <1>0, <1>2 DEF Progress, Passed
<1>6. Sending(a, c)'
  <2>1. tick > a => ack >= a
    BY <1>0 DEF Progress, Passed
  <2> QED BY <1>0, <1>2, <1>3, <2>1 DEF Sending
<1>7. AtFullRate(a)'
  BY <1>2 DEF Timely, AtFullRate
<1>8. Prompt(a)'
  <2>1. ack >= a => tick <= ack + 1 \/ (tick = ack + 2 /\ snaps # {})
    BY <1>0, <1>2 DEF Prompt
  <2>2. ack >= a => ack >= tick - 2
    BY <1>4, <2>1
  <2>3. lastAcked >= a => lastAcked >= tick - 3
    BY <1>0 DEF Prompt
  <2> QED BY <1>2, <1>3, <2>1, <2>2, <2>3 DEF Prompt
<1>9. NothingMissed'
  BY <1>0, <1>2 DEF NothingMissed
<1> QED BY <1>5, <1>6, <1>7, <1>8, <1>9 DEF Timely

(* A part leaves others under way. *)
LEMMA TimelyPart ==
  ASSUME BaseInv, NEW a, NEW b, NEW c, IsCalm, Sound, Timely(a, b, c), OnSnapPart
  PROVE  Timely(a, b, c)'
<1>1. UNCHANGED <<tick, rate, lastAcked, backlog, ack, received, inputs, polled>>
  BY DEF OnSnapPart, serverSnapVars, calmVars
<1>2. PICK m \in snaps : Deliver(m) /\ ~Complete(m)
  BY DEF OnSnapPart
<1>3. snaps' # {} /\ snaps # {}
  BY <1>2, LastPart DEF BaseInv
<1>4. Progress(a, b, c)'
  BY <1>1, <1>3 DEF Timely, Progress, Passed
<1>5. Sending(a, c)'
  BY <1>1 DEF Timely, Sending
<1>6. AtFullRate(a)'
  BY <1>1 DEF Timely, AtFullRate
<1>7. Prompt(a)'
  BY <1>1, <1>3 DEF Timely, Prompt
<1>8. NothingMissed'
  BY <1>1, <1>3 DEF Timely, NothingMissed
<1> QED BY <1>4, <1>5, <1>6, <1>7, <1>8 DEF Timely

(* The client has got the snapshot of this tick. *)
LEMMA TimelyTaken ==
  ASSUME BaseInv, NEW a, NEW b, NEW c, Deadlines(a, b, c), InCalm, Sound,
         Timely(a, b, c), OnSnapTaken
  PROVE  Timely(a, b, c)'
<1>0. SnapInv /\ Bounded /\ Progress(a, b, c) /\ Sending(a, c) /\ AtFullRate(a) /\ Prompt(a)
  BY DEF BaseInv, CalmInv, Timely
<1>1. a \in Nat /\ b \in Nat /\ c \in Nat /\ a < b /\ b < c
  BY DeadlineFacts
<1>2. ack' = tick /\ snaps' = {}
  BY SoundTaken
<1>3. /\ UNCHANGED <<tick, rate, lastAcked, backlog, inputs, polled>>
      /\ received' = IF received < 3 THEN received + 1 ELSE 3
  BY DEF OnSnapTaken, Assembled, serverSnapVars, calmVars
<1>4. tick \in Nat /\ received \in 0 .. 3 /\ StormTicks \in Nat
  BY <1>0, TypeFacts, NumberFacts
<1>5. Progress(a, b, c)'
  <2>1. /\ tick >= b => received >= 1
        /\ tick >= c => received >= 2
    <3>1. (tick >= b => Passed(a)) /\ (tick >= c => Passed(b))
      BY <1>1, <1>4 DEF Passed
    <3> QED BY <1>0, <3>1 DEF Progress
  <2>2. received' >= 1 /\ (received >= 1 => received' >= 2) /\ (received >= 2 => received' = 3)
    BY <1>3, <1>4
  <2>3. /\ Passed(a)' => tick >= a
        /\ Passed(b)' => tick >= b
        /\ Passed(c)' => tick >= c
    BY <1>1, <1>3, <1>4 DEF Passed
  <2> QED BY <1>2, <2>1, <2>2, <2>3 DEF Progress
<1>6. Sending(a, c)'
  BY <1>0, <1>3 DEF Sending
<1>7. AtFullRate(a)'
  BY <1>0, <1>3 DEF AtFullRate
<1>8. Prompt(a)'
  <2>1. tick <= tick + 1 /\ ~ (tick < tick)
    BY <1>4
  <2> QED BY <1>0, <1>2, <1>3, <2>1 DEF Prompt
<1>9. NothingMissed'
  <2>1. Latest = tick
    BY DEF InCalm, Latest
  <2> QED BY <1>0, <1>2, <1>3, <2>1 DEF NothingMissed, Bounded
<1> QED BY <1>5, <1>6, <1>7, <1>8, <1>9 DEF Timely

LEMMA TimelyInvStep ==
  ASSUME NEW a, NEW b, NEW c, Deadlines(a, b, c), BaseInv, SoundInv, TimelyInv(a, b, c),
         [SnapNext]_vars
  PROVE  TimelyInv(a, b, c)'
<1> SUFFICES ASSUME InTime' PROVE Timely(a, b, c)'
  BY DEF TimelyInv
<1> USE DEF serverSnapVars, clientSnapVars, calmVars, snapVars, vars
<1>0. /\ SnapInv /\ Stays /\ Settled \in Nat /\ StormTicks \in Nat /\ StormTicks <= Settled
      /\ tick \in Nat /\ tick' \in Nat
  <2>1. SnapInv /\ Stays /\ tick \in Nat
    BY TypeFacts DEF BaseInv, CalmInv
  <2>2. tick' \in Nat
    BY <2>1, SnapInvStep, NumberFacts DEF SnapInv, SnapTypes, ServerTypes
  <2> QED BY <2>1, <2>2, DeadlineFacts, NumberFacts
<1>1. InCalm' /\ tick' > Settled
  BY <1>0 DEF InTime, InCalm
<1>2. IsCalm
  BY <1>1, CalmBefore
<1>3. /\ Tick \/ OnInput \/ Update \/ SnapStep \/ UNCHANGED vars
      /\ rounds \subseteq rounds'
  BY <1>0, <1>2, CalmSteps DEF Tick, OnInput, Update, SnapStep, OnSnapIgnored, OnSnapPart,
         OnSnapNoBase, OnSnapGarbled, OnSnapTaken
<1>4. Unspoiled
  <2>1. rounds \in SUBSET (1 .. MaxRounds)
    BY <1>0, TypeFacts
  <2>2. rounds' \in SUBSET (1 .. MaxRounds)
    BY <1>0, SnapInvStep DEF SnapInv, SnapTypes, ClientTypes
  <2> QED BY <1>3, <2>1, <2>2, UnspoiledBefore DEF InTime
<1>5. CASE Tick
  <2>1. Timely(a, b, c)
    <3>1. CASE tick > Settled
      BY <1>2, <1>4, <3>1 DEF TimelyInv, InTime
    <3>2. CASE tick <= Settled
      <4>1. snaps = {} /\ inputs = {}
        BY <1>2, <1>5 DEF Tick
      <4> QED BY <3>2, <4>1, TimelyStart
    <3> QED BY <1>0, <3>1, <3>2
  <2>2. Sound
    BY <1>2, <1>5, SoundAtTick
  <2> QED BY <1>2, <1>5, <2>1, <2>2, TimelyTick
<1>6. CASE ~Tick
  <2>1. tick' = tick
    BY <1>3, <1>6 DEF OnInput, Update, SnapStep, OnSnapIgnored, OnSnapPart, OnSnapNoBase,
           OnSnapGarbled, OnSnapTaken, Assembled
  <2>2. InCalm /\ tick > Settled
    BY <1>1, <1>2, <2>1 DEF InCalm
  <2>3. Timely(a, b, c) /\ Sound
    BY <1>2, <1>4, <2>2 DEF TimelyInv, InTime, SoundInv
  <2>4. CASE OnInput
    BY <1>2, <2>3, <2>4, TimelyInput
  <2>5. CASE Update
    BY <1>2, <2>3, <2>5, TimelyUpdate
  <2>6. CASE OnSnapIgnored
    <3>1. PICK m \in snaps : ~Wanted(m)
      BY <2>6 DEF OnSnapIgnored
    <3> QED BY <1>0, <2>2, <2>3, <3>1, AllWanted DEF BaseInv
  <2>7. CASE OnSnapPart
    BY <1>2, <2>3, <2>7, TimelyPart
  <2>8. CASE OnSnapNoBase \/ OnSnapGarbled
    <3>1. PICK m \in snaps : Complete(m) /\ (~HasBase(m) \/ Unpacked(m) = Garbled)
      BY <2>8 DEF OnSnapNoBase, OnSnapGarbled, Assembled
    <3> QED BY <1>4, <2>2, <2>3, <3>1, CompleteFits
  <2>9. CASE OnSnapTaken
    BY <2>2, <2>3, <2>9, TimelyTaken
  <2>10. CASE UNCHANGED vars
    <3>1. UNCHANGED <<tick, rate, lastAcked, backlog, ack, received, inputs, polled, snaps>>
      BY <2>10
    <3> QED BY <2>3, <3>1 DEF Timely, Progress, Passed, Sending, AtFullRate, Prompt,
                              NothingMissed
  <2> QED BY <1>3, <1>6, <2>4, <2>5, <2>6, <2>7, <2>8, <2>9, <2>10 DEF SnapStep
<1> QED BY <1>5, <1>6

LEMMA BaseInvariant == SnapSpec => [](BaseInv /\ SoundInv)
<1>1. ASSUME SnapInit PROVE CalmInv /\ SoundInv
  <2>1. /\ tick = 0 /\ lastAcked = None /\ backlog = << >> /\ storage = << >>
        /\ recvTick = 0 /\ ack = None /\ received = 0 /\ snaps = {} /\ inputs = {}
        /\ calm = None /\ polled = FALSE
    BY <1>1 DEF SnapInit
  <2>2. StormTicks \in Nat /\ None = -1
    BY NumberFacts
  <2>3. ~IsCalm /\ tick <= StormTicks /\ Latest = StormTicks
    BY <2>1, <2>2 DEF IsCalm, Latest
  <2>4. Bounded
    BY <2>1, <2>2, <2>3 DEF Bounded
  <2>5. Stays /\ HeldWorlds
    BY <2>1, <2>3 DEF Stays, HeldWorlds
  <2> QED BY <2>3, <2>4, <2>5 DEF CalmInv, SoundInv, InCalm
<1>2. BaseInv /\ SoundInv /\ [SnapNext]_vars => CalmInv' /\ SoundInv'
  BY CalmInvStep, SoundInvStep DEF BaseInv
<1> QED BY <1>1, <1>2, SnapInvariant, FaithInvariant, PTL DEF SnapSpec, BaseInv

LEMMA TimelyInvariant ==
  ASSUME NEW a, NEW b, NEW c, Deadlines(a, b, c)
  PROVE  SnapSpec => []TimelyInv(a, b, c)
<1>1. ASSUME SnapInit PROVE TimelyInv(a, b, c)
  <2>1. ~IsCalm
    BY <1>1 DEF SnapInit, IsCalm
  <2> QED BY <2>1 DEF TimelyInv, InTime
<1>2. BaseInv /\ SoundInv /\ TimelyInv(a, b, c) /\ [SnapNext]_vars => TimelyInv(a, b, c)'
  BY TimelyInvStep
<1> QED BY <1>1, <1>2, BaseInvariant, PTL DEF SnapSpec

(* At the end all is in time. *)
LEMMA TimelyRecovers ==
  ASSUME NEW a, NEW b, NEW c, Deadlines(a, b, c), c < RecoveryTicks,
         BaseInv, SoundInv, TimelyInv(a, b, c)
  PROVE  Recovers
<1> SUFFICES ASSUME Unspoiled, IsCalm, tick >= calm + RecoveryTicks, snaps = {}, inputs = {}
             PROVE  cstate = "ONLINE" /\ rate = "FULL" /\ ack = Max(DOMAIN backlog)
  BY DEF Recovers
<1>0. /\ SnapInv /\ Stays /\ Bounded
      /\ a \in Nat /\ b \in Nat /\ c \in Nat /\ Settled \in Nat /\ StormTicks \in Nat
      /\ StormTicks <= Settled /\ Settled < a /\ a < b /\ b < c
      /\ RecoveryTicks \in Nat /\ Window \in Nat /\ Window >= 3
  BY DeadlineFacts, NumberFacts, SnapAssumption DEF BaseInv, CalmInv
<1>1. /\ tick \in Nat /\ calm \in Nat /\ ack \in Int /\ lastAcked \in Int
      /\ DOMAIN backlog \subseteq Nat
  <2>1. calm \in Nat
    <3>1. calm \in Acks /\ calm # None
      BY <1>0 DEF SnapInv, SnapTypes, NetTypes, IsCalm
    <3> QED BY <3>1, NumberFacts DEF Acks
  <2> QED BY <1>0, <2>1, TypeFacts
<1>2. tick > c /\ tick > Settled /\ tick > StormTicks
  BY <1>0, <1>1
<1>3. Timely(a, b, c) /\ Sound
  BY <1>2 DEF TimelyInv, InTime, SoundInv, InCalm
<1>4. lastAcked >= a /\ ack >= a /\ received = 3
  <2>1. tick > a /\ Passed(a) /\ Passed(c)
    BY <1>0, <1>1, <1>2 DEF Passed
  <2> QED BY <1>2, <1>3, <2>1 DEF Timely, Progress, Sending
<1>5. cstate = "ONLINE" /\ rate = "FULL"
  BY <1>0, <1>3, <1>4 DEF Stays, Timely, AtFullRate
<1>6. ack \in DOMAIN backlog
  <2>1. tick <= ack + 1
    BY <1>3, <1>4 DEF Timely, Prompt
  <2>2. Fresh(ack) /\ ack >= tick - Window
    BY <1>0, <1>1, <1>4, <2>1 DEF Fresh
  <2> QED BY <1>3, <2>2 DEF Sound, Kept, Acknowledged
<1>7. \A t \in DOMAIN backlog : ack >= t
  <2> SUFFICES ASSUME NEW t \in DOMAIN backlog PROVE ack >= t
    OBVIOUS
  <2>1. CASE t > Settled
    BY <1>1, <1>3, <2>1 DEF Timely, NothingMissed
  <2>2. CASE t <= Settled
    BY <1>0, <1>1, <1>4, <2>2
  <2> QED BY <1>0, <1>1, <2>1, <2>2
<1>8. ack = Max(DOMAIN backlog)
  <2> DEFINE S == DOMAIN backlog
  <2>1. S \subseteq Int /\ ack \in S /\ \A t \in S : ack >= t
    BY <1>1, <1>6, <1>7
  <2> HIDE DEF S
  <2>2. \A x \in S : (\A y \in S : x >= y) => x = ack
    BY <2>1
  <2>3. Max(S) = ack
    BY <2>1, <2>2 DEF Max
  <2> QED BY <2>3 DEF S
<1> QED BY <1>5, <1>8

(* However much was lost, repeated and reordered: a while after the        *)
(* network has become reliable the client is online, the server sends it   *)
(* snapshots at the full rate, and it has the latest (Recovers:            *)
(* CServer::DoSnapshot, the inputs of CServer::ProcessClientPacket,        *)
(* CClient::ProcessServerPacket).                                          *)
THEOREM RecoversTheorem == SnapSpec => []Recovers
<1>1. CASE CalmDown
  <2>1. PICK a, b, c \in 1 .. RecoveryTicks - 1 : Deadlines(a, b, c)
    <3>1. PICK a, b, c \in 1 .. RecoveryTicks - 1 :
            /\ StormTicks + KeepSeconds * TickSpeed < a /\ a < b /\ b < c
            /\ Common(a) /\ Common(b) /\ Common(c)
      BY <1>1, RecoveryAssumption
    <3>2. Settled < a /\ Window >= 3 /\ SnapEvery \in {1, 2} /\ MaxInputs > 0
      BY <1>1, <3>1, RecoveryAssumption DEF Settled, Window
    <3>3. a \in Nat /\ b \in Nat /\ c \in Nat
      BY SnapAssumption
    <3>4. Deadlines(a, b, c)
      BY <3>1, <3>2, <3>3 DEF Deadlines
    <3> QED BY <3>4
  <2>2. c < RecoveryTicks
    BY SnapAssumption
  <2>3. BaseInv /\ SoundInv /\ TimelyInv(a, b, c) => Recovers
    BY <2>1, <2>2, TimelyRecovers
  <2>4. SnapSpec => []TimelyInv(a, b, c)
    BY <2>1, TimelyInvariant
  <2> QED BY <2>3, <2>4, BaseInvariant, PTL
<1>2. CASE ~CalmDown
  <2>1. BaseInv => Recovers
    BY <1>2 DEF BaseInv, CalmInv, Bounded, Recovers
  <2> QED BY <2>1, BaseInvariant, PTL
<1> QED BY <1>1, <1>2
=============================================================================

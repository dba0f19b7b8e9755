-------------------------------- MODULE Join --------------------------------
(***************************************************************************)
(* How a client gets into the game, and back into it after every change of *)
(* map: the state machine of CServer::CClient (engine/server/server.cpp)   *)
(* against that of CClient (engine/client/client.cpp).  Their messages are *)
(* vital chunks, which NetConn delivers once and in order.                 *)
(***************************************************************************)
EXTENDS Naturals, Sequences

CONSTANTS
  Maps,        \* the maps the server may run; a name stands for name and hash
  NoMap,       \* no map
  OnDisk,      \* the maps the client has before it connects
  Http,        \* whether the client has a web address to download maps from
  MaxRounds    \* bound: how often the server loads a map

ASSUME JoinAssumption ==
  /\ NoMap \notin Maps
  /\ OnDisk \subseteq Maps
  /\ Http \in BOOLEAN
  /\ MaxRounds \in Nat \ {0}

VARIABLES
  smap,        \* m_aCurrentMap of the server
  round,       \* history: how many maps the server has loaded
  sstate,      \* m_aClients[ClientID].m_State
  isReady,     \* m_apPlayers[ClientID]->m_IsReady
  cstate,      \* m_State of the client
  cmap,        \* the map the client has loaded
  disk,        \* the maps the client has on disk
  task,        \* the download under way: its map, and whether over HTTP
  told,        \* history: the map of the last MAP_CHANGE the client took
  entered,     \* history: the client has entered the game since then
  replaced,    \* history: a download for an earlier MAP_CHANGE has ended since
  leftover,    \* history: snapshots of an earlier round may still arrive
  toClient,    \* vital messages on their way
  toServer

serverVars == <<smap, round, sstate, isReady>>
clientVars == <<cstate, cmap, disk, task, told, entered, replaced>>
joinVars == <<serverVars, clientVars, leftover, toClient, toServer>>

ToClientTypes == {"MAP_CHANGE", "MAP_DATA", "CON_READY", "READYTOENTER"}
ToServerTypes == {"CLIENTVER", "INFO", "READY", "REQUEST_MAP_DATA",
                  "STARTINFO", "ENTERGAME"}

NoTask == [map |-> NoMap, http |-> FALSE]

JoinTypeOK ==
  /\ smap \in Maps
  /\ round \in 1 .. MaxRounds
  /\ sstate \in {"PREAUTH", "AUTH", "CONNECTING", "READY", "INGAME"}
  /\ isReady \in BOOLEAN
  /\ cstate \in {"LOADING", "ONLINE"}
  /\ cmap \in Maps \cup {NoMap}
  /\ disk \in SUBSET Maps
  /\ task \in [map : Maps, http : BOOLEAN] \cup {NoTask}
  /\ told \in Maps \cup {NoMap}
  /\ entered \in BOOLEAN
  /\ replaced \in BOOLEAN
  /\ leftover \in BOOLEAN
  /\ toClient \in Seq([type : ToClientTypes, map : Maps \cup {NoMap}])
  /\ toServer \in Seq(ToServerTypes)

(* The connection is up and the client has sent what SendInfo sends. *)
JoinInit ==
  /\ smap \in Maps
  /\ round = 1
  /\ sstate = "PREAUTH"
  /\ isReady = FALSE
  /\ cstate = "LOADING"
  /\ cmap = NoMap
  /\ disk = OnDisk
  /\ task = NoTask
  /\ told = NoMap
  /\ entered = FALSE
  /\ replaced = FALSE
  /\ leftover = FALSE
  /\ toClient = << >>
  /\ toServer = <<"CLIENTVER", "INFO">>

-----------------------------------------------------------------------------
(* The server. *)

Send(type, map) == toClient' = Append(toClient, [type |-> type, map |-> map])

Take(type) ==
  /\ toServer # << >>
  /\ Head(toServer) = type
  /\ toServer' = Tail(toServer)

OnClientVer ==
  /\ Take("CLIENTVER")
  /\ sstate' = IF sstate = "PREAUTH" THEN "AUTH" ELSE sstate
  /\ UNCHANGED <<smap, round, isReady, clientVars, leftover, toClient>>

OnInfo ==
  /\ Take("INFO")
  /\ IF sstate \in {"PREAUTH", "AUTH"}
       THEN sstate' = "CONNECTING" /\ Send("MAP_CHANGE", smap)
       ELSE UNCHANGED <<sstate, toClient>>
  /\ UNCHANGED <<smap, round, isReady, clientVars, leftover>>

(* The whole map is one chunk; it is always the map of the moment. *)
OnRequestMapData ==
  /\ Take("REQUEST_MAP_DATA")
  /\ IF sstate \in {"PREAUTH", "AUTH"} THEN UNCHANGED toClient
       ELSE Send("MAP_DATA", smap)
  /\ UNCHANGED <<serverVars, clientVars, leftover>>

(* CON_READY is sent whatever the state. *)
OnReady ==
  /\ Take("READY")
  /\ IF sstate = "CONNECTING"
       THEN sstate' = "READY" /\ isReady' = FALSE
       ELSE UNCHANGED <<sstate, isReady>>
  /\ Send("CON_READY", NoMap)
  /\ UNCHANGED <<smap, round, clientVars, leftover>>

(* Game messages are for clients that have a player. *)
HasPlayer_Entered == sstate = "INGAME"

HasPlayer == sstate \in {"READY", "INGAME"}

OnStartInfo ==
  /\ Take("STARTINFO")
  /\ IF HasPlayer /\ ~isReady
       THEN isReady' = TRUE /\ Send("READYTOENTER", NoMap)
       ELSE UNCHANGED <<isReady, toClient>>
  /\ UNCHANGED <<smap, round, sstate, clientVars, leftover>>

MayEnter_Any == sstate = "READY"

MayEnter == sstate = "READY" /\ isReady

OnEnterGame ==
  /\ Take("ENTERGAME")
  /\ sstate' = IF MayEnter THEN "INGAME" ELSE sstate
  /\ UNCHANGED <<smap, round, isReady, clientVars, leftover, toClient>>

StartsOver_Playing == HasPlayer

StartsOver == sstate \notin {"PREAUTH", "AUTH"}

(* CServer::Run loads a map: the players are deleted, and every client     *)
(* that has been told a map is told the new one and starts over.           *)
MapChange ==
  /\ round < MaxRounds
  /\ smap' \in Maps
  /\ round' = round + 1
  /\ isReady' = FALSE
  /\ IF StartsOver
       THEN /\ sstate' = "CONNECTING"
            /\ toClient' = Append(toClient, [type |-> "MAP_CHANGE", map |-> smap'])
       ELSE UNCHANGED <<sstate, toClient>>
  /\ leftover' = (leftover \/ sstate = "INGAME")
  /\ UNCHANGED <<clientVars, toServer>>

-----------------------------------------------------------------------------
(* The client. *)

Got(type) ==
  /\ toClient # << >>
  /\ Head(toClient).type = type
  /\ toClient' = Tail(toClient)

Told ==
  /\ Got("MAP_CHANGE")
  /\ told' = Head(toClient).map
  /\ entered' = FALSE
  /\ replaced' = FALSE
  /\ UNCHANGED leftover

(* LoadMap with a map that is on disk, and SendReady. *)
Load(map) ==
  /\ cstate' = "LOADING"
  /\ cmap' = map
  /\ toServer' = Append(toServer, "READY")

(* MAP_CHANGE with a map that is on disk.  A download that is under way    *)
(* goes on.                                                                *)
OnMapChangeLoad ==
  /\ Told
  /\ Head(toClient).map \in disk
  /\ Load(Head(toClient).map)
  /\ UNCHANGED <<serverVars, disk, task>>

(* MAP_CHANGE with a map that has to be downloaded: the state is LOADING   *)
(* from here on, the old map stays loaded, a download that was under way   *)
(* is aborted.  Without HTTP the server is asked at once.                  *)
OnMapChangeFetch ==
  /\ Told
  /\ Head(toClient).map \notin disk
  /\ cstate' = "LOADING"
  /\ task' = [map |-> Head(toClient).map, http |-> Http]
  /\ toServer' = IF Http THEN toServer ELSE Append(toServer, "REQUEST_MAP_DATA")
  /\ UNCHANGED <<serverVars, cmap, disk>>

(* FinishMapDownload. *)
Finish ==
  /\ replaced' = (replaced \/ task.map # told)
  /\ disk' = disk \cup {task.map}
  /\ Load(task.map)
  /\ task' = NoTask

(* A chunk of another map than the one being downloaded is ignored. *)
WantedData == ~task.http /\ task.map = Head(toClient).map

OnMapData ==
  /\ Got("MAP_DATA")
  /\ IF WantedData THEN Finish
       ELSE UNCHANGED <<cstate, cmap, disk, task, replaced, toServer>>
  /\ UNCHANGED <<serverVars, told, entered, leftover>>

HttpDone ==
  /\ task.http
  /\ Finish
  /\ UNCHANGED <<serverVars, told, entered, leftover, toClient>>

(* "http failed, falling back to gameserver" *)
HttpFailed ==
  /\ task.http
  /\ task' = [task EXCEPT !.http = FALSE]
  /\ toServer' = Append(toServer, "REQUEST_MAP_DATA")
  /\ UNCHANGED <<serverVars, cstate, cmap, disk, told, entered, replaced, leftover,
                 toClient>>

(* CGameClient::OnConnected *)
OnConReady ==
  /\ Got("CON_READY")
  /\ toServer' = Append(toServer, "STARTINFO")
  /\ UNCHANGED <<serverVars, clientVars, leftover>>

(* CClient::EnterGame *)
OnReadyToEnter ==
  /\ Got("READYTOENTER")
  /\ toServer' = Append(toServer, "ENTERGAME")
  /\ entered' = TRUE
  /\ UNCHANGED <<serverVars, cstate, cmap, disk, task, told, replaced, leftover>>

(* Two snapshots have arrived (SnapSync has the details).  They are sent   *)
(* to a client in the game; those of an earlier round may arrive late.     *)
Online ==
  /\ sstate = "INGAME" \/ leftover
  /\ cstate = "LOADING"
  /\ cstate' = "ONLINE"
  /\ UNCHANGED <<serverVars, cmap, disk, task, told, entered, replaced, leftover,
                 toClient, toServer>>

-----------------------------------------------------------------------------
ServerStep ==
  \/ OnClientVer \/ OnInfo \/ OnRequestMapData \/ OnReady
  \/ OnStartInfo \/ OnEnterGame

ClientStep ==
  \/ OnMapChangeLoad \/ OnMapChangeFetch \/ OnMapData
  \/ OnConReady \/ OnReadyToEnter

JoinNext ==
  \/ ServerStep \/ ClientStep
  \/ MapChange \/ HttpDone \/ HttpFailed \/ Online

JoinSpec == JoinInit /\ [][JoinNext]_joinVars

(* Both programs go on reading what has arrived, and a download ends.  No  *)
(* fairness is asked of MapChange: an admin may stop changing the map.     *)
JoinFairSpec ==
  JoinSpec /\ WF_joinVars(ServerStep) /\ WF_joinVars(ClientStep)
           /\ WF_joinVars(HttpDone \/ HttpFailed)

-----------------------------------------------------------------------------
(* The handshake carries no map: a READY may answer a MAP_CHANGE that has  *)
(* been overtaken by another.  Still, a client that has taken the last one  *)
(* and is not downloading the map the server runs has it loaded; LoadMap   *)
(* refuses a file with "map differs from the server".                      *)
Pending == {toClient[i].type : i \in DOMAIN toClient}

HasServersMap ==
  /\ sstate \notin {"PREAUTH", "AUTH"}
  /\ "MAP_CHANGE" \notin Pending
  /\ task.map # smap
  => cmap = smap

(* There is one way for that to fail: a download that a later MAP_CHANGE   *)
(* left going has ended.                                                   *)
ReplacedOnlyByDownload == HasServersMap \/ replaced

(* Whichever READYs and CON_READYs cross on the way: a client that the     *)
(* server has in the game, and that has taken what the server told it, has *)
(* thrown the snapshots of the round before away.                          *)
ResetEachRound ==
  sstate = "INGAME" /\ Pending \cap {"MAP_CHANGE", "READYTOENTER"} = {} => entered

(* A client that has been told a map gets into the game of it, however     *)
(* many map changes overtake its loading.                                  *)
JoinEnds == (sstate # "INGAME") ~> (sstate = "INGAME")
=============================================================================

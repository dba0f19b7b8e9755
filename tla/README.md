# TLA+ models of the DDNet client and server

This directory specifies the concurrent and distributed parts of this program, a fork of
DDNet/Teeworlds, in TLA+. The state machines are checked with TLC on small instances; the
transport, the job pool, the server's slots, the database pool with its import, joining and
snapshots, the teams, the asynchronous output and the list of the master server are also proved
correct with TLAPS for every value of their constants. Paths below are
relative to the repository (`src/engine/...` is C++, `src/mastersrv/...` Rust, `scripts/...`
Python). `PROJECT.json` maps every definition to the lines it stands for.

Contents: 1 the system, 2 the modules, 3 the runs, 4 the proofs, 5 disagreements between the
code and what is said about it, 6 what is left out, 7 the plan, 8 how to run it.

## 1. The system

A game server (`CServer`, `CGameContext`) runs a world in ticks, 50 a second. Up to 64 clients
(`CClient`, `CGameClient`) are connected to it over UDP. Ranks and saved teams go to databases,
slow work to a pool of threads, the list of servers to master servers over HTTP.

| Component | State it keeps | Operations | What makes it correct |
|---|---|---|---|
| **Connection transport**: `CNetConnection`, `CNetRecvUnpacker` (`engine/shared/network_conn.cpp`, `network.cpp`) | sequence numbers modulo 1024, last acknowledgements, resend ring, packet being filled | queue, flush, feed, fetch, update, time out, connect, disconnect | vital chunks arrive once, in order, none left out, and do arrive |
| **Server slots**: `CNetServer` (`network_server.cpp`) | slots, tokens, addresses | accept, rejoin, drop, receive, take over a timed-out slot | one slot per client; the limit per address; a spoofed address gets no slot |
| **Client end, econ**: `CNetClient`, `CNetConsole` | one connection, or several over TCP | loops around a connection | as the transport |
| **Job pool**: `CJobPool` (`jobs.cpp`) | linked list, semaphore, lock, threads, status of each job | Add, worker loop, Destroy | first in first out, each job runs once, no lost wake-up, Destroy returns |
| **Database pool**: `CDbConnectionPool` (`connection_pool.cpp`), ranks as `CScoreWorker` writes them | ring of 512 requests, two semaphores, shutdown flag, connections, fail mode, three tables | register, Execute, ExecuteWrite, Print, the two threads, OnShutdown | every request answered in turn, no rank lost or stored twice, shutdown ends |
| **Daily import**: `scripts/move_sqlite.py` | the rows it has read | dump, copy, delete | no rank lost while the server writes beside it |
| **Joining and map changes**: `CServer::CClient` against `CClient` | state of the client on both sides, map, download | the vital messages from CLIENTVER to ENTERGAME, map download, map change | every client gets into the game with the server's map |
| **Snapshots**: `CServer::DoSnapshot`, `CClient`, `CSnapshotStorage` | backlog, rate and acknowledgement on the server; storage, parts, shown snapshots on the client | send, lose, put together, apply, acknowledge, purge, show | what is shown is what the server had; a client recovers from loss |
| **Asynchronous output**: `ASYNCIO` (`base/system.cpp`), used by logs and the tee historian | a ring of bytes that grows, a semaphore, a lock, two references | write, close, wait, error, free; the thread | the file is the stream that was written, an error is not hidden, nothing is used after it is freed, no lost wake-up |
| Ring buffer | an allocator in a block | allocate, pop | nothing overwritten |
| Bans, name bans | hash lists with expiry | ban, unban, update | a ban lasts exactly as long as it should |
| **Registering**: `CRegister` (`server/register.cpp`) and the master (`mastersrv/src/main.rs`) | status and number of the latest answer per protocol, serial of the info under another lock; the master's list, its dump, its seeds | jobs that register and delete, challenges; add, remove, prune, reseed, dump | the list has what is enabled, with the newest info, and soon nothing else |
| **Teams and saves**: `CGameTeams`, `CSaveTeam`, `CScoreWorker` | the tees' races, teams and their locks, practice and invitations, results under way, stored teams | join, leave, start, finish, die, swap, lock, invite, practise, save, load | a team has one run, a run is in one place, a rank is for a run that was raced |
| Encoding: snapshots, packets, Huffman, variable ints, UUIDs | none | pure functions | decoding gives back what was encoded |
| World, physics, prediction, client presentation, editor, tools | large | numerical or presentation | tests and playing |

How they interact:

- `CServer` and `CClient` exchange *vital* chunks (joining, map data, chat) over a connection,
  and *non-vital* ones (snapshots, inputs) that are plain datagrams. Joining therefore stands on
  the promise of the transport; snapshots stand on joining and on nothing else.
- The main thread of the server calls into the database pool; results come back through
  `m_Completed`, which the game polls every tick. The import script shares only the SQLite file.
- The job pool is called from any thread; a job's `Status()` is polled. Requests to the master
  servers are such jobs, and their answers are noted by the threads they run in.
- The game saves and loads teams through the database pool and polls the result every tick, many
  ticks after it has asked for it; several servers share one database.
- Logs and the tee historian write through an asynchronous output that they share with its thread.

What is hard here, and listed line by line under `hazards` in `PROJECT.json`: numbers that wrap;
datagrams lost, repeated and overtaking each other; a client state that is changed from two
sides, by messages that do not say which map they are about; ticks that start again with every
map; two threads on one ring; a flag polled by one thread and cleared by the other; a database
that fails at any statement or fails to confirm; a script that reads now and deletes later; answers
that come back in another order, under two locks; players who leave, die and are replaced while
their team is being saved.

## 2. The modules

| Module | Models | Lines of code in brief |
|---|---|---|
| `SeqNum` | sequence arithmetic | `CNetBase::IsSeqInBackroom`, the check of an acknowledgement in `Feed` |
| `NetConn` | a connection that is up, both ends, and the UDP between them | `QueueChunkEx`, `Flush`, `Resend`, `AckChunks`, `Feed`, `Update`, `FetchChunk` |
| `ReliableStream` | what the transport promises: two streams in order | abstract |
| `NetConnProofs` | lemmas about `SeqNum`, theorems | |
| `JobPool` | list, semaphore, workers, adders, destruction | `jobs.cpp` |
| `JobQueue` | what the pool promises: a queue whose jobs run once | abstract |
| `JobPoolProofs` | theorems | |
| `NetServer` | slots, handshake, rejoining, limits, time-out protection, the client's end of them | `network_server.cpp`, `network_conn.cpp`, `server.cpp`, `ddracechat.cpp` (ConTimeout) |
| `NetServerProofs` | theorems | |
| `DbPool` | ring, two threads, fail mode, shutdown, the rows | `connection_pool.cpp`, `scoreworker.cpp` (SaveScore) |
| `RequestLog` | what the database pool promises | abstract |
| `DbImport` | the script beside the pool (extends `DbPool`) | `move_sqlite.py` |
| `DbPoolProofs` | lemmas and theorems about both | |
| `Join` | joining, map changes, downloads | `server.cpp`, `client.cpp` |
| `SnapSync` | snapshots, composed with `Join` | `server.cpp`, `client.cpp`, `snapshot.cpp` |
| `SnapSyncProofs` | lemmas and theorems about both | |
| `Teams` | teams of the race, saving and loading them | `teams.cpp`, `save.cpp`, `scoreworker.cpp` (SaveTeam, LoadTeam), `ddracechat.cpp`, `DDRace.cpp` |
| `RunLedger` | what saving promises: a run is in one place | abstract |
| `TeamsProofs` | lemmas and theorems about `Teams` | |
| `AsyncIo` | the ring, the thread, the writers, the ways an output ends | `system.cpp`, `log.cpp`, `gamecontext.cpp` (OnShutdown) |
| `ByteStream` | what an output promises | abstract |
| `AsyncIoProofs` | lemmas and theorems | |
| `MasterList` | the list of the master, as operators on lists | `mastersrv/src/main.rs` (`Servers`) |
| `Register` | a server and a master, requests, challenges, time | `register.cpp`, `main.rs` |
| `RegisterProofs` | lemmas and theorems | |
| `MC...` | values of constants for TLC | |

A definition with the name of another and a suffix (`MayEnter_Any`, `PurgeTick_Delta`, ...) is a
slip a programmer might make there: with it in place of the other, some property fails. None is
part of a specification.

### NetConn

`seq`, `ack`, `peerAck`, `buffer`, `construct` and `unpack` are the members of `CNetConnection`
for each of the two ends; `net` is the set of packets under way. A chunk carries its number on
the wire and, as history, its index in the stream, which stands for its payload.

| Action | Code |
|---|---|
| `QueueVital` | `QueueChunkEx` with `NET_CHUNKFLAG_VITAL`: number, packet, copy in the resend ring, or no copy if the ring has no room |
| `FlushNow` | `Flush` |
| `UpdateTick` | `Update` while connected: resend of the oldest chunk, flush, keepalive; which timers are up is left open |
| `UpdateTimeout` | the two time-outs of `Update` |
| `Feed` | `Feed` of a packet with chunks: acknowledgement checked and applied, requested resend, chunks to the unpacker |
| `FetchChunk` | `CNetRecvUnpacker::FetchChunk`, one chunk |

A packet stays in `net` after it arrived (duplication), any packet may vanish when something is
transmitted (loss), and any packet may arrive next (reordering). One restriction is the
environment's: `Fresh`, a packet that arrives is less than half a sequence space (512 chunks)
behind. Numbers of 10 bits cannot tell more, so the restriction is the assumption under which the
protocol is correct, and the theorems say that it is enough. `Window` is a second one: an
application has fewer than 512 chunks unacknowledged, otherwise `AckValid` and the backroom are
ambiguous. The code has no such check. Its resend ring of 32 KiB has room for 455 of the smallest
chunks, so only chunks that found the ring full can exceed the window. Since it holds bytes, and a
block has to lie in one piece, how many chunks it takes depends on their sizes: any chunk finds room
while there are fewer than `BufSure`, none when there are `BufCap`, and in between either may happen.

### JobPool

One step per access to shared state: a worker's test of `m_Shutdown`, its wait, its critical
section, its two stores to `m_Status`; an adder's append and its signal; each signal of
`Destroy`. `m_Shutdown` is a plain flag written by the owner and read by workers; since it is only
ever set, and is followed by a signal, reading it late is the same as being scheduled late.
`order` and `taken` are history. Assumed: `Destroy` is called when no `Add` is under way or will
come (`CEngine` and the kernel destroy it last).

### NetServer

`conn[i]` is `m_aSlots[i].m_Connection` in what the decisions of `CNetServer` read of it: state,
peer, the two flags of time-out protection and `m_RemoteClosed`. `game[i]` is
`m_aClients[i].m_State`, folded into absent, loading (`joining`) and with a player (`playing`);
`code[i]` is the time-out code of that player. `cst[a]` is the client at address `a`, and `net`
the control packets under way; a packet that was received stays until it is lost, so that it may
come again.

| Action | Code |
|---|---|
| `Connect`, `ResendConnect`, `OnConnectAccept`, `OnClosed`, `ClientTimeout`, `Quit` | the client's `CNetConnection` and `CNetClient::Update` |
| `OnConnect` | CONNECT: answered with CONNECTACCEPT, by `OnConnCtrlMsg` if the address has a slot and by `OnTokenCtrlMsg` if not |
| `OnAccept` | ACCEPT: `Rejoin` in `OnConnCtrlMsg` if the address has a slot, otherwise `TryAcceptClient` or a refusal in `OnTokenCtrlMsg` |
| `OnClose` | `Feed` of a CLOSE |
| `Talk`, `EnterGame` | the first chunk of a session, and the READY that makes the player |
| `ConTimeout` | `/timeout`: `SetTimedOut` of the first slot it may claim, with both callbacks, or `SetTimeoutProtected` |
| `Kick` | `CServer::Kick` to the end of `CNetServer::Drop` |
| `Update` | `CNetServer::Update`: `CNetConnection::Update` of every slot and the drops that follow |
| `MapReload` | the part of a change of map in `CServer::Run` that concerns slots |

The chunks of a session are not in `net`: `NetConn` shows that they arrive in order while both
ends number them from the same handshake. Which handshake that is, is `try`: the client counts its
attempts, an ACCEPT carries the number, and the slot keeps the one its numbering began with, or 0
when an ACCEPT came again after chunks had been taken, since then the two ends number differently
until one gives up (`Numbers`). Such a session only ends by a time-out, a CLOSE or a kick. A token
is a function of the address (`GetToken`) and does not tell one attempt from another.

`Connlimit` may refuse any client; `Refuse` is therefore possible whenever there is no slot for
the address. A change of map deletes the players, hence their codes, while the connections and
their protection stay.

### DbPool and DbImport

The log of requests is history; its length modulo `RingSize` is `m_InsertIdx`. `backup.num` and
`worker.num` are the `JobNum` of the two threads. Putting a request in and signalling is one step:
the backup thread cannot look at the slot before the signal. A read is tried on several servers in
turn; which of them answers is left open. The rows are those of one rank each: `mainRows` in the
write database, `backupRows` in `race_backup`, `movedRows` in `race` of the backup database.
`Faults` says which statements may fail; `"reply"` is a row that is stored and not confirmed.
There is no action for a crash: only rows survive one, and `Durable` is about the rows of *every*
state, hence about what a crash in that state leaves.

`SaveTeam`, `SaveTeamScore` and `LoadTeam` go through the same ring and the same modes; only the
statements of `SaveScore` are modelled. `MaxOutstanding` keeps the ring below overflow, which the
code does not check (`connection_pool.cpp:122`): with `MaxOutstanding < RingSize` the pool is
correct, with `MaxOutstanding = RingSize` it is not (section 5).

`DbImport` adds the script:

| Action | Code |
|---|---|
| `ReadRaces`, `ReadBackups` | `iterdump`, one table after the other. A dump ends with a COMMIT, so what it has of `record_race` is in the file from then on; a row that is in both tables breaks the primary key of the copy and ends the script |
| `CommitCopy` | the rows of `record_race_backup` that are older than the timeout are added |
| `DeleteRows` | the originals are deleted, in one transaction |
| `Killed` | the script ends before its next transaction, killed or because the database is locked |

The script's `--backup-timeout` is a date that is at most as new as what the backup thread has done:
it is taken to be longer than the backlog of that thread, not of the worker. `missed` and `twice` are
history: `missed` has the rows moved behind the dump, `twice` the ranks that some step may have left
in two places (section 5 lists the four ways). `StoredOnce` is about all others, whenever the script
is not between its copy and its deletes, when they are in both.

### Join and SnapSync

`Join` has one client, the vital messages both ways as two queues (that they are queues is what
`NetConn` shows), and the state of that client in both programs. `MapChange` is the reload in
`CServer::Run`: it happens at any moment, whatever the client is just doing, up to `MaxRounds`
times. A map's name stands for name and hash, a map is one chunk of data, and a file that was
downloaded can be loaded. `Online` is the second snapshot arriving.

`SnapSync` extends `Join` and says how snapshots get there: `Tick` and `DoSnapshot` on the server,
`OnSnap...`, `Update` and `SnapEnter` on the client, datagrams that get lost, repeated and
reordered, also across a change of map. All maps are on disk there, since downloads change nothing
about snapshots. A world is a model value; only equality of worlds matters. A delta is the base it
was made on and the world it leads to; on another base it yields `Garbled`, unless it is empty,
in which case it yields whatever the base is (`NETMSG_SNAPEMPTY` has no checksum). A garbled delta
either fails to unpack or has a wrong checksum. `JoinSpec` is a property of `SnapSync`: the
composition implements `Join` step by step, with `Online` and `leftover` in particular.

### Teams

A handler of the game calls others in turn (a death changes a team, which may finish another), so
each function of the code is an operator from one state of the game to the next, named like the
function, and an action applies one of them to `game`. A run has a number that stands for the start
time of its tees. `result[t]` is `m_apSaveTeamResult`: the request as it was sent, with the slots of
the players by name, and its answer once there is one. `rows` is `record_saves`.

| Action | Code |
|---|---|
| `Connect`, `Disconnect`, `Spawn`, `Kill`, `Spectate`, `Join` | a player comes, goes, gets or loses a tee, changes the team |
| `Start`, `Arrive`, `KillTick` | the two lines, and the timer of a team that cannot finish |
| `Lock`, `Invite`, `Practice`, `RequestSwap`, `Swap` | the commands of a team |
| `Save`, `Load` | the request, with what `CSaveTeam::Save` takes down |
| the answers | `SaveTeam` and `LoadTeam` of the score worker, with a database that refuses, or does what it is told and reports a failure (`mislead`) |
| `LoadElsewhere` | another server with the same database |
| `ProcessSaveTeam` | the result is applied: tees by name, or the team back as it was, or killed |

`RunLedger` is the promise in one variable: where each run is. A run that the database did
something to and reported that it had not, or that is to be given back to a team everybody has
left, is *in doubt*, and nothing more is said of it.

### AsyncIo

A byte is its number in the order of queueing, so "the file is the stream" is `file[i] = i`. What a
thread does between taking the lock and letting it go is one step; the signal after the unlock is a
step of its own. `Uses` are the sequences of calls by which the callers end an output: a log to a
file closes and waits, one to the terminal only waits (`GlobalFinish`, `log.cpp:268`), the tee
historian closes, waits, asks for the error and frees (`gamecontext.cpp:3997`), and any output may be
freed without having been waited for. The destructor of a log would free it (`log.cpp:259`), but
client and server release their global logger and never destroy it (`server/main.cpp:89`,
`client.cpp:4286`), so a log that threads share is not freed. While a log is shared by threads (`Shared`), they may still be writing when it is ended; an output of one
owner is ended by the thread that writes.

### Register and MasterList

`protocol[p]` holds a `CProtocol` with its `CShared`; times are how far away the next register and
how long ago the last one is. `requests[p]` are the jobs of that protocol with what they carry, in
the order of sending; a job does not keep its index but whether it is the newest and whether an
answer to a newer one has been noted. `Arrive` is the master taking a request, at any time and in
any order; `NoteStatus` and `NoteSerial` are the two critical sections of `CJob::Run`. A challenge is
a datagram with a seed in place of the token. `MasterList` is the `Servers` of the master as a value
with its operations.

`Troubling` are the steps that are bounded by `MaxTrouble`: a request fails or takes long, a
challenge is lost or takes long, the protocols change, the server stops, the master reseeds or
restarts with its dump or without. Everything else is done within the unit of time in which it
falls due (`Tick` waits for it), and `calm` counts the units since the last trouble or news; what
has taken long starts that count again when it arrives. `Writeout` is what the master does
regularly, `Later` what time does to a protocol. `Bounded` keeps the server from sending
without end between the two critical sections, where it can since a request for info is answered
at once.

## 3. The runs

| Run | Instance | Shows |
|---|---|---|
| `conn_wrap` | numbers modulo 6, seven chunks one way, acknowledgements the other, two packets in flight, ring of two chunks, which the window never overfills | `InOrder`, `NoUnackedLoss` and the refinement of `ReliableStream`, across a wrap |
| `conn_live` | three chunks, one packet in flight, a ring that may be full with one chunk or take two, time-outs, fairness | `EventualDelivery`: every chunk is taken unless a side gives up or the network loses a chunk that was sent without a copy |
| `slots` | three slots, two for one host, one address, three attempts, one control packet in flight, fairness | an address has one slot, clients follow connections, the limit per host holds, a slot whose client has gone is freed |
| `jobs` | three workers, two adders, three jobs | no lost wake-up, clean shutdown, refinement of `JobQueue`, jobs run, Destroy returns |
| `db` | ring of three, a remote, a read and a backup database, seven entries, every fault but that of the backup insert | `Durable`, `InTurn`, `BackupFirst`, refinement of `RequestLog`, shutdown ends, requests are answered |
| `import_run` | one write database, a backup database registered at any time behind it, two runs of the script, every fault but that of the backup insert, the script ending anywhere | what the script loses is only what was moved behind its dump; a rank that is answered is in one place, but for the four ways of section 5 |
| `join` | three maps, one on disk, three map changes, HTTP that may fail, fairness | the client has the server's map unless a stale download ended, starts every round with snapshots thrown away, and gets into the game |
| `snap_safe` | two worlds, snapshots of up to two parts, two rounds of three ticks, two datagrams and one input in flight | what the client rebuilds is what the server had; refinement of `Join` |
| `snap_recover` | three ticks a second, a backlog of one second, five ticks of storm in either round, then calm | sixteen ticks after the storm the client is online, at full rate, up to date; nothing shown is purged |
| `teams` | three slots, three names, one team beside the flock, two requests, the settings of `MCTeams` | a team that is empty is as new, one run to a team, a saved tee to its player, honest ranks (a rank given during a save is reached, and is for no run), refinement of `RunLedger` |
| `asyncio` | two writers, a ring of two bytes that grows, pieces of two and three bytes, seven bytes, all endings, fairness | the file is the stream (refinement of `ByteStream`), an error is not hidden, nothing used after it is freed, no sleep for ever |
| `register` | two protocols, a register every two units, a time-out of four, one trouble, a restart of the server or new info | the list fits together; what is enabled is listed with its last info one period after the trouble; nothing else is once the time-out has passed |

The type definitions `TypeOK`, `JoinTypeOK`, `SnapTypeOK` and `NetTypeOK` say what values the
variables take. All of them are proved; no run checks them.

### Bounds, and why they are enough

| Bound | Module | Why |
|---|---|---|
| `MaxSeq` = 6 | `SeqNum` | with seven chunks the numbers wrap, and half a space (3) is larger than the window (2), as in the code; the theorems cover every even value from 4 on |
| `PacketCap`, `BufCap` = 2, `BufSure` = 1 or 2 | `NetConn` | packets with one and with several chunks, a packet that is full. In `conn_live` (`BufSure` = 1) a chunk may find the ring full while one or two wait in it: the last chunk of the stream, or one with a copied chunk behind it. In `conn_wrap` (`BufSure` = 2, as `Window`) every chunk finds room, which keeps the run short; the theorems hold for any ring |
| `MaxMsgs`, `MaxInFlight` | `NetConn` | one stream suffices: the two directions share only packets, and acknowledgements travel back in the run; two packets are needed for one to overtake another |
| `MaxClients`, `MaxPerIP`, `MaxTries` = 3, 2, 3 | `NetServer` | one attempt times out, the second takes its slot over, the third is refused by the limit or not; three slots leave the limit and not the slots as what decides. One packet is enough for late and repeated ones: it stays while others are lost on the way in. One address is enough for the limit, which counts the lost slots of a host. Two addresses of one host with one attempt each and two packets in flight were searched as well (850 thousand states, safety only) |
| `Workers`, `Adders`, `Jobs` = 3, 2, 3 | `JobPool` | a list with a middle element, more workers than jobs left, two adders between append and signal; proved for every value |
| `RingSize`, `MaxOutstanding` = 3, 2 | `DbPool` | seven entries go around the ring twice; the safety claims are proved for every value with a free slot |
| `MaxImports` = 2 | `DbImport` | what one run leaves, the next one finds |
| `MaxRounds` = 4, three maps | `Join` | a change to a map on disk in the middle of the download of another, and a change back |
| `MAX_TICK`, `StormTicks`, `CatchUp`, `MaxParts`, `MaxSnaps`, `MaxInputs`, two rounds | `SnapSync` | late parts and late acknowledgements of the round before, a base that was purged, a backlog that runs over |
| `NumSlots`, `Names`, `NumTeams`, `MaxRequests`, `Settings` = 3, 3, 1, 2 | `Teams` | a locked team with one that dies, one that races and one that joins; two settings with fewer clients than names, so that a slot changes hands; a save and the load of it, or two saves of which one is refused. The commands are looked at one by one, since each of them multiplies the states |
| `BufSize`, `LocalSize`, `Pieces`, `MaxBytes` = 2, 2, {2, 3}, 7 | `AsyncIo` | the ring grows while it is wrapped, is emptied in parts, and is one byte short of full; proved for every value |
| `Period`, `Timeout`, `Second` = 2, 4, 1 | `Register` | 15, 30 and 1 seconds in the code: the time-out is twice the period, and new info is sent earlier than the period; proved for every period shorter than the time-out |
| `MaxTrouble`, `MaxNews`, `MaxBetween` = 1, 2, 1 | `Register` | one trouble at any moment of a registration, beside new info before or after it; a server that stops starts again. Two troubles without news were searched as well (1.5 million states) |
| `TickSpeed`, `KeepSeconds`, `InitEvery` | `SnapSync` | 50, 3 and 10 in the code, scaled down in proportion as far as a run allows; the claims do not depend on the ratio but `RecoveryTicks` does: a backlog has to run over, and then three ticks at which every rate sends have to follow, as `RecoveryAssumption` says. One world is enough for `Recovers`, which is proved for any; two worlds with the storm cut to two ticks were searched in part |

### Fairness

- `NetConn`: `Update` is called again and again (the main loops of `CServer::Run` and
  `CClient::Run` do), chunks of a packet are all fetched before the next `recv`, and of the packets
  that carry what is missing and are sent again and again some arrive. A network that loses every
  packet is excluded, one that loses any packet is not. The time-outs of the code are there:
  `EventualDelivery` ends when a side gives the connection up. Nothing forces them: a side that could
  always give up would make every delivery look good. `EventualDelivery` ends as well when a chunk
  that was sent without a copy is lost (`Lost`): no copy waits anywhere, and a packet under way that
  carries it will be refused.
- `NetServer`: the main loop calls `Update` again and again, and the time a peer that says nothing,
  or a slot that is protected, is given runs out (`Expire`). It is only assumed of a peer that has
  gone or a connection in error: a peer that is there may stay for ever. Nothing is assumed of the
  network or of clients.
- `JobPool`: the scheduler runs every thread, a job's `Run` returns, a call of `Add` or `Destroy`
  that has begun goes on. Nobody is obliged to add a job or to destroy the pool.
- `DbPool`: the threads run and every call into a database returns, with success or without. No
  request and no shutdown is forced.
- `Join`: both programs go on reading what has arrived, and a download ends one way or the other.
  No fairness for `MapChange`; it is bounded, since a server that changes map faster than clients
  load it keeps them out for good.
- `AsyncIo`: the threads run, a writer that holds the lock lets it go, and a caller that has begun to
  end an output goes on. The thread and the caller take a lock that writers contend for, so theirs
  is strong fairness. Nobody is obliged to write or to end the output.
- `Teams` claims safety only. `Register` needs none: `ListedSoon` and `GoneSoon` have bounds in time,
  and time waits for what is due.
- `SnapSync` needs none: recovery is stated with a bound in ticks, as an invariant. In the calm a
  datagram is delivered before the next tick and the client sends one input per tick while it is
  shown the game.

## 4. The proofs

Everything here is checked by `tlapm` with Z3, Zenon and LS4; no step is assumed.

**Transport** (`NetConnProofs`), for every even `MaxSeq >= 4`, every
`PacketCap <= Half`, every ring, and any number of packets and chunks. Theorems `TypeCorrect`,
`Delivery` (`InOrder`), `NothingLost` (`NoUnackedLoss`), `AckNeverMovesBack` (`AckMonotone`: a late
packet never moves the accepted acknowledgement back), `Refinement` (`ReliableSpec`). The invariants are not inductive: nothing in them says that the
number in a chunk is the number of that chunk. `IndInv` adds

- `Numbers`: every header field is the index it stands for, modulo `MaxSeq`;
- `Bounds`: `acked <= delivered by the peer <= sent <= acked + Window`;
- `Contents`: every chunk anywhere (ring, construct, unpacker, network) is a chunk of the stream
  under its right number, and no packet acknowledges more than was taken;
- `UnpackFresh`: a chunk that waits in the unpacker is still within reach of its receiver.

Then the arithmetic decides: `ModShift` and `SameNumber` (indices less than a space apart with the
same number are the same index), `NewerNotInBackroom` and `OlderInBackroom` (the backroom tells old
from new within half a space), `ValidAckNotOlder` (an acknowledgement that passes the check of
`Feed` is no older than the accepted one). The assumption `Window < Half` is what the last one
needs, and `Fresh` what the other two need. One lemma per action preserves `IndInv`.

**Job pool** (`JobPoolProofs`), for any sets of adders and jobs and any finite set of workers.
Theorems `TypeCorrect`, `ListIsQueue` (`LinkedInOrder`: the linked list is the queue), `ShutdownIsClean` (`CleanShutdown`),
`NoLostWakeUp` (`WakeUps`), `Refinement` (`QueueSpec`). `IndInv` adds to `LinkedInOrder` that no
job is added twice, that a worker holds a job exactly while it starts or runs it (`Holding`), that
no two hold the same (`Exclusive`), that a job nobody holds is PENDING or DONE as its place in the
order says (`Unheld`), and where the owner is. `NoLostWakeUp` counts: `PoppingCount` says how the
set of workers past their wait grows and shrinks, and the sum of tokens, such workers and adders
about to signal is what is left in the queue, until Destroy adds tokens of its own.

**Slots** (`NetServerProofs`), for any addresses, hosts, codes, limits, numbers of attempts and of
packets. Theorems `NetTypeCorrect`, `OneSlotPerAddress` (`OneSlot`), `ClientsFollowConnections`
(`ClientIffConnection`), `LimitPerHost` (`PerHostLimit`). The first three are inductive together,
`IndInv`: a hand-over leaves one slot for the address because the first slot has the peer the
second takes, and there was no third; that a slot which is not offline has a peer (`NetTypeOK`) is
what makes an accepted address new. `PerHostLimit` rests on `IndInv` and on what its count is:
`NumClientsWithAddr` counts exactly the slots of a host that the next `Update` would not free
(`CountedIsHeld`). Then every action but two only lets go of slots (`NoneMore`); accepting adds one
below the limit (`LimitAccepting`), and a hand-over removes the slot of a host and adds another
(`LimitTakingOver`).

**Asynchronous output** (`AsyncIoProofs`), for any sizes of the ring and of the local buffer, any
pieces, writers and endings. `StreamTheorem` (`StreamSpec`), `HonestErrorTheorem` (`HonestError`),
`NoUseAfterFreeTheorem` (`NoUseAfterFree`). `BytesInv` says that the ring holds, one after the
other, the bytes that have been queued and not yet taken, whatever its size and wherever it begins
(`FilledHolds`, `GrownHolds`); `FileInv` that the file has the bytes before those, as long as there
was no error, and the thread the ones between. `CallInv` says where the caller is and that who has
waited has seen the thread exit, `RefInv` who the two references belong to.

**Database pool** (`DbPoolProofs`), for any ring, any requests and any faults, with two named
hypotheses: `Spare`, the ring always has a free slot (section 5 says what happens without it), and,
where it is stated, `Kept`, inserts into the backup database do not fail. Under `Spare`:
`PoolTypeCorrect` (`TypeOK`), `DurableTheorem` (`Durable`) and `InTurnTheorem` (`InTurn`); under
both: `BackupFirstTheorem` (`BackupFirst`) and `RequestTheorem` (`RequestSpec`). `Durable` is not
inductive: the worker deletes backup rows, and only its place says that the row is elsewhere, in the
write database when it removes it, in `race` when it drops it (`Rows`). That the backup thread does
not put the row back in between needs that it is ahead of the worker, which no variable says: `Turn`
and the two counts of the semaphores (`BackupCount`, `WorkerCount`) do, and they need `Places`, the
ring holds exactly the requests not yet taken, each in its slot; slots less than a round apart
differ (`SlotsDiffer`), which is where `Spare` comes in. `KeptInv` adds that every write behind the
registration of the backup that the backup thread has passed is saved. So a move always has a row to
copy, and what is answered with success is stored.

`ImportTheorem` (`LostOnlyBehindTheDump`) is about the pool and the script
together: the script leaves what the proofs of the pool rest on alone (`ImportKeepsIndInv`), and its
own invariant says which rows of a table that has been dumped are not in the dump.
`StoredOnceTheorem` (`StoredOnce`) has the hypothesis `Spare` only, so it covers every fault, lost
replies and the end of the script included. `Registered` says that the worker knows of the backup
database when it gets to a request that was saved there, which is what makes it delete that row;
`OneCopy` that a rank outside `twice` has two rows only while the worker is between the statements
that move it, or the script between its copy and its deletes. `ImportCopies` and `PoolCopies` show
that the steps of the script and of the pool keep both (`CopyInv`).

**Joining and snapshots** (`SnapSyncProofs`), for any maps, rounds, rates, worlds and bounds of the
network. Of `Join`: `JoinTypeCorrect`, `ReplacedTheorem` (`ReplacedOnlyByDownload`), `ResetTheorem`
(`ResetEachRound`). Both rest on what the queue to the client still holds (`JoinInv`): the last
MAP_CHANGE in it is the map the server runs, or, with none left, that is what the client was told
(`ToldLast`); a player that is ready has a READYTOENTER behind the last MAP_CHANGE, or has entered
(`ReadyToEnter`). Of `SnapSync`: `JoinTheorem` (`JoinSpec`: it implements `Join`),
`SnapTypeCorrect`, `FaithfulTheorem` (`Faithful`), `ShownTheorem` (`ShownIsHeld`). `Faithful` is not
inductive: what makes the base of a delta the right one is that everyone who says anything about the
world in a tick of a round says the same, the server's backlog, the datagrams under way, late ones
included, and the storage of a client that took one round's snapshots only (`SaidOnce`), and that
nobody says anything of a tick to come (`SaidBefore`). `ShownInv` says that the storage is ascending
and that what is wanted next is later than all of it, so that a purge up to the older of the two
that are shown frees neither.

`RecoversTheorem` (`Recovers`) has a bound in time, like the theorems about the master's list below,
and `Tick` waits in the calm for what arrives at once. `RecoveryAssumption` is what it asks of the
constants: the server keeps at least three ticks (150 in the code), a snapshot is due every tick or
every second one, and after the last tick of the storm and what is kept of it there are three ticks
that every rate sends at (`Common`). `CalmInv` says that nothing is of a later tick than this one,
but for what an earlier round of the storm left, and that nobody leaves the game. `SoundInv` is about
ticks later than any of the storm: what is acknowledged of them, in either program or under way, the
client holds and the server keeps for its three seconds (`Kept`), and the datagrams under way are the
parts of one snapshot, of the present tick, that are still missing (`Current`, `Whole`). Once the
server keeps nothing of the storm, a snapshot answers no acknowledgement from it (`OnKnown`), and so
a complete one is taken and not refused (`CompleteFits`). `TimelyInv` has three deadlines. At the
first common tick the client takes a snapshot, whatever its rate; at the second another, which brings
it online; at the third one that makes it send inputs, and the first of them gives it the full rate
(`AtFullRate`). From then on an acknowledgement is at most three ticks old when it is used (`Prompt`),
which the server still keeps, so the rate stays, and no snapshot is missed (`NothingMissed`).

**Teams** (`TeamsProofs`), for any number of players, teams and requests and any settings.
`TeamsTypeCorrect` (`TypeOK`), `FreshTheorem` (`EmptyIsFresh`), `OneRunTheorem` (`OneRun`),
`RightTeeTheorem` (`RightTee`), `RanksTheorem` (`RanksHonest`), `LedgerTheorem` (`LedgerSpec`: the
saves implement `RunLedger`). Handlers call each other, and in the middle of one of them the game
is not as the properties want it: while a team is killed, some of its tees are dead already and the
others still race. So `Ok` says what holds of the game but for a set of tees that do not count for
the moment, and each operator has a lemma: `SetForceOk`, `CheckOk`, `KillOk`, `DeathOk`, `DieOk`,
`SpawnedOk`, `StartOk`, `FinishOk`, `LoadOk`. `InState` says, for each state of a team and each
request under way, what the races of its tees are; `OneRun` is the part of it without a request. What
`OneRun` needs of a load is that the team was not racing when it asked (`InState`) and that the save
was of one run (`SavedTogether`), in every row of the database. `Requests` is `RightTee`: nobody
joins a team with a request under way, and a slot given to a new player is in no team.

The other two follow the runs. `RunsInv` says that a run that is not in doubt is in one place at most,
be it with a tee of the flock, with a team, in a save that is held or stored, on another server or
in a rank (`Placed`), and that one that was practised stays so. A rank given while the team is being
saved is no place of a run: `CheckOk` shows that its tees have not started (`SavingTame`), since
nobody races in a team with a request under way (`InState`). A handler that leaves the saves
alone keeps a run where it is or drops it (`Tame`, `Follows`; as handlers call each other,
`TameTrans` puts these together), a start begins the next number only (`Begins`), and a step of a
save moves one run (`FollowsMove`), which is why `SavedTogether` is needed. For the ledger,
`PlaceFacts` reads the place of each run, `PlaceOf`, from that; every action then leaves it
(`Rests`), hands it on (`Passes`) or loses it (`GetsLost`). A number that appears must be one that
is raced: `TimesInv` says that no tee has the start time of a run that has not begun.

**The master's list** (`RegisterProofs`), for any protocols and bounds, and for any period shorter
than the time-out (`RatioAssumption`: 15 seconds of 30): `RegisterTypeCorrect`; `ListTheorem`
(`ListFits`), `ListedTheorem` (`ListedSoon`), `GoneTheorem` (`GoneSoon`). The invariant behind
`ListTheorem` takes in the dump, from which a restart takes the list. Taking any addresses out
(`WithoutGood`) keeps a list consistent; removing, pruning and vacating an address are cases of it,
and adding one rests on the address having been vacated (`AddedGood`).

The other two claim something by a certain time, and are proved as invariants all the same, since
`calm` counts that time and `Tick` waits for what is due. `BaseInv` bounds what there can be: no
register is further away than a period, no entry of list or dump older than the time-out, and
neither a request nor the master knows a newer serial, or a later life of the server, than there is.
`CalmInv` says what holds since the last trouble. What is not late is of the server that runs, of a
protocol that is enabled and of the info it has now (`PromptInv`). An entry that belongs to nobody
is at least as old as the calm (`Leaving`), so that the time-out takes it. And each enabled protocol
is in one of three states (`Timely`): it waits for its first register since, `calm + next <= Period`;
it was listed since it sent the last, so its entry is as old as that at the most; or the last
request, sent in this unit, is under way (`Open`) or its answer makes the server ask again
(`Replied`). The third is over before time passes: `Open` needs a request that is not late and
`Replied` makes the server send, both of which `Tick` waits for. `CalmSteps` lists the steps that
keep it calm; each has a lemma (`UpdateCalm`, `OnTokenCalm`, `ArriveCalm`, `NoteStatusCalm`,
`NoteSerialCalm`, `IgnoreCalm`, `TickCalm`). What TLC found too weak in earlier forms is in there: that
the answer to an older request leaves `answered` false, that it cannot undo the answer to a newer
one (`late`), and that a challenge is under way, or its token noted, whenever one is asked for.

**Only model-checked**: liveness in every module, since fairness and `ENABLED` are out of reach of the
provers used. These are `EventualDelivery`, `JobsRun`, `DestroyReturns`, `ShutdownEnds`,
`EveryRequestAnswered`, `JoinEnds`, `SlotsAreFreed` and `Progress`. Every invariant, action property
and refinement that a run checks is proved. No module uses `RECURSIVE` operators.

## 5. Disagreements

What the models showed of the code and what is said about it. None of it is a run of its own; the
properties have premises, or say less, where it matters.

- A vital chunk that finds the resend ring full is sent once, without a copy
  (`network_conn.cpp:150`: "hope nobody will ask for resend"). If that packet is lost the stream ends
  there: later chunks are out of sequence, and the resends that are asked for do not contain it. A
  side gives up when a later chunk that has a copy is not acknowledged in time; if there is none,
  nobody notices.
- With as many requests outstanding as the ring of the database pool has slots, the backup thread
  takes the oldest for a new one instead of finding an empty slot to end at, and shutting down hangs
  (`connection_pool.cpp:217`, `480`).
- A rank that the worker moves to `record_race` between the dump and the deletes of the import script
  is in no table and no file (`move_sqlite.py:54`). `LostOnlyBehindTheDump` says that nothing else is
  lost.
- A rank may be stored twice in four ways (`twice`): the write database stored it and its reply was
  lost, so it is moved to `race` as well; its row in `race_backup` could not be deleted after it had
  been stored or moved; the script ended between its transactions; the script copied the row from
  `race_backup` while the worker was at it. The log says "will show up as duplicate rank in MySQL"
  only where a delete found no row (`scoreworker.cpp:421`, `463`), which is one of these at most: a
  lost reply, a statement that fails or a row that is copied and still there when it is removed is not
  noticed.
- A map change to a map on disk leaves the HTTP download of an earlier map going; when it ends, that
  map is loaded in place of the server's (`client.cpp:1422`, `2599`). `ReplacedOnlyByDownload` says
  that it happens in no other way.
- A READY that answers an overtaken MAP_CHANGE is taken for one about the new map
  (`server.cpp:1631`): a client may enter while it still downloads. `HasServersMap` excludes that.
- A late snapshot of the old round is taken for one of the new round, since ticks start again; an
  empty delta has no checksum that would notice (`client.cpp:1712`, `1789`). `Faithful`
  is about clients that took the snapshots of one round only (`rounds`). A base that is spoiled that
  way is copied from snapshot to snapshot as long as the deltas are empty, so that the first one that
  is not may be refused at any time after: `Recovers` claims nothing of such a client, unless there
  is nothing to be told apart (`Unspoiled`). An input of the old round is taken, too, and ends the
  initial rate of the new one (`server.cpp:1678`), which `src/engine/docs/snapshots.txt:53` does not foresee.
- A client whose acknowledgements stop gets to the recovery rate after the three seconds of the
  backlog (`server.cpp:1014`); `src/engine/docs/snapshots.txt:57` says one second.
- When the insert into the backup database fails, that is only logged; if the write fails as well,
  the move copies no row, reports success and the player is told the rank is saved
  (`connection_pool.cpp:231`, `349`). `RequestSpec` holds as long as `"backup"` is not in `Faults`.

- `/timeout` without an argument looks for the player's own code but stores the argument, which is
  empty: the slot is protected and cannot be claimed by its code (`ddracechat.cpp:599`).
- Teams. A member that goes to the spectators while its team is being saved may leave only tees that
  have finished: the team gets a rank although its tees have no start time (`DDRace.cpp:180`,
  `teams.cpp:337`, where nothing asks for a save). `OnFinish` records it, and `RanksHonest` says that
  it is the only such rank and never one for the run that is saved. The
  comment in `teams.h:14` says that a team with a tee that has not started cannot finish once that
  tee is gone; going to the spectators does not see to it. A locked team with a dead member is stuck
  when the last one racing disconnects. The timer of a team that cannot finish goes on killing while
  the team has no tee left. A run that a failed save or a successful load would give back is lost
  when everyone has left (`teams.cpp:1012`). A save whose copy went to the backup first reports
  success even if the insert proper is refused. Invitations and swap requests stay with a slot whose
  player has gone (`teams.cpp:1147`). The refusals of a vote or of a forbidden team in
  `AttemptJoinTeam` are printed, and then the player joins all the same (`ddracechat.cpp:959`).
- Registering. A challenge is answered although its protocol has been disabled
  (`register.cpp:393`), which lists the server until the time-out. No delete is sent when the last
  answer was not a success or a register is still under way (`register.cpp:324`): the entry stays for
  the time-out, too. That time-out is exactly twice the interval, so that one register that is lost
  may take the server off the list until the next (`main.rs:55`, `register.cpp:316`).
- A line logged by another thread after `GlobalFinish` is dropped (`log.cpp:268`).

## 6. What is left out

- In `NetServer`: the handshakes of vanilla, 0.7 and websocket clients, the values of tokens, bans
  and the clock of `Connlimit`; the numbers and chunks that `SetTimedOut` and a repeated ACCEPT put
  under a connection, which are only told apart by `try`. `NetConn` starts with a connection that
  is up. Non-vital chunks there: they share packets with vital ones and have no state. Connless
  packets and compression.
- Passwords, bans, redirects, the dummy, 0.7 clients and being dropped, in `Join`. A client that
  times out starts over with `JoinInit`.
- In `SnapSync`, how a snapshot is built and a delta encoded; a snapshot that fails
  `UnpackAndValidateSnapshot`; the second connection of the dummy; checksums that agree by chance.
- In `DbPool`, team ranks and saves; in `DbImport`, their tables.
- In `Teams`: super, pausing, the modes in which teams are forced or forbidden, `OnReset`, the codes
  of saves, the delays between commands, changes of name, the first 10^-6 seconds of a race; where a
  saved tee is and what it carries. The requests of several teams are answered in any order, although
  the worker takes them in theirs.
- In `Register`: extra headers, a change of the master's URL, the parsing of the configuration, the
  second that a shutdown waits for its deletes, a config change that only touches other settings; in
  the master, the dumps of other masters, the entries of the old protocol, locations and the files
  for clients. `Added` has no case `Obsolete` (`main.rs:382-389`): that takes an entry of the old
  protocol or of another master's dump, or a clock that steps back, since the time of a request is
  taken under the lock of the list.
- All other components of section 1, for the reasons given in `PROJECT.json`: pure encoding and
  file formats, numerical simulation, presentation, programs and libraries of others. Some of them
  are in the plan.

## 7. The plan

Done, in this order: transport, its abstraction and its proofs; job pool, its abstraction and its
proofs; database pool with its abstraction; import; joining; snapshots composed with joining;
slots and their proofs; teams and saves with the ledger of runs; asynchronous output, its
abstraction and its proofs; registering and the master's list with its proof; the proofs of the
database pool and of the import; the proofs of joining, snapshots and their composition; the proofs
of the teams and of the ledger of runs; the proofs of what has a bound in time, being listed, being
taken off the list and recovering from a storm.

Next:

1. `TakeOver`, on top of `NetConn`: `/timeout` puts the numbers and the resend ring of the new
   connection under the one that timed out (`CNetConnection::SetTimedOut`), which keeps its own
   accepted acknowledgement and the packet it was filling. What is to be said: which chunks still
   arrive once and in order, and that none is lost, whatever those two are; and under which
   conditions on them the stream goes on. It can share the run of `EventualDelivery`, since a
   connection that is never taken over is the special case.
2. The ring buffer as an allocator against a queue; bans and their expiry. Those come in place of
   shallower questions, not in addition to all of them.

## 8. Running it

In this directory, `tlc -workers 2 -config <cfg> <module>` for the pairs listed in `PROJECT.json`,
and `tlapm <module>` for `NetConnProofs`, `JobPoolProofs`, `NetServerProofs`, `DbPoolProofs`, `SnapSyncProofs`,
`TeamsProofs`, `AsyncIoProofs` and `RegisterProofs`. The longest run takes about two minutes.

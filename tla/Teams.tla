------------------------------- MODULE Teams -------------------------------
(***************************************************************************)
(* The teams of the race (CGameTeams) and the saving of a team's run       *)
(* (CSaveTeam, CScore, CScoreWorker).  A handler calls others in turn, so  *)
(* each function of the code is an operator from one state of the game to  *)
(* the next, and an action applies one to the game.                        *)
(*                                                                         *)
(* Configuration: sv_team 1, sv_rejoin_team_0, no minimal or maximal team  *)
(* size.  The clock is left out: a delay may be over at any time.          *)
(***************************************************************************)
EXTENDS Integers, FiniteSets, FiniteSetsExt

CONSTANTS
  NumSlots,     \* MAX_CLIENTS
  NumTeams,     \* the teams beside the flock
  Names,        \* the players' names
  Nobody,       \* a slot without a player
  MaxRequests,  \* bound: how often a team is saved or loaded
  Configs       \* the settings to look at, records of
                \*   clients: sv_max_clients,
                \*   on: which of sv_practice, sv_swap, sv_invite and
                \*     sv_save_games ("save") are set,
                \*   database: what it may do besides, of "refuse" a request,
                \*     "mislead" the server and "share" with other servers,
                \*   runs: bound, how many runs are begun

ASSUME TeamsAssumption ==
  /\ NumSlots \in Nat \ {0}
  /\ NumTeams \in Nat \ {0}
  /\ \A x \in Configs : x.clients \in 1 .. NumSlots /\ x.runs \in Nat
  /\ MaxRequests \in Nat
  /\ Nobody \notin Names

Slots == 1 .. NumSlots
Runs == 1 .. Max({x.runs : x \in Configs})

Flock == 0
Teams == 0 .. NumTeams
OwnTeams == 1 .. NumTeams

(* TEAMSTATE_..., in the order the code compares them *)
EMPTY == 0
OPEN == 1
STARTED == 2
UNFINISHABLE == 3
FINISHED == 4

States == EMPTY .. FINISHED

(* m_DDRaceState; "none" is a tee that has not started. *)
Races == {"dead", "none", "started", "finished"}

(* A recorded rank, with the start times of the tees that have it; whether *)
(* its run had one before, and whether its team's save was under way       *)
Rank == [run : Nat, tees : SUBSET Nat, again : BOOLEAN, saving : BOOLEAN]

Game ==
  [name : [Slots -> Names \cup {Nobody}], team : [Slots -> Teams],
   race : [Slots -> Races], time : [Slots -> Nat],
   begun : SUBSET Slots, ended : SUBSET Slots, voted : SUBSET Slots,
   swap : [Slots -> Nat], state : [Teams -> States],
   locked : SUBSET Teams, practice : SUBSET Teams, timer : SUBSET Teams,
   invited : [Teams -> SUBSET Slots], ranks : SUBSET Rank]

VARIABLES
  config,   \* one of Configs
  game,     \* the players, their tees and the teams
  result,   \* m_apSaveTeamResult: the save or load of each team under way
  rows,     \* record_saves
  past      \* history: the runs begun, practised, ranked, and where the
            \* database or an abandoned team leaves a run in doubt

vars == <<config, game, result, rows, past>>

NoResult == [kind |-> "none"]

Init ==
  /\ config \in Configs
  /\ game = [name |-> [c \in Slots |-> Nobody],     \* who is connected
             team |-> [c \in Slots |-> Flock],      \* m_Core.Team
             race |-> [c \in Slots |-> "dead"],     \* m_DDRaceState of the tee
             time |-> [c \in Slots |-> 0],          \* m_StartTime: the run
             begun |-> {},                          \* m_aTeeStarted
             ended |-> {},                          \* m_aTeeFinished
             voted |-> {},                          \* m_VotedForPractice
             swap |-> [c \in Slots |-> 0],          \* m_SwapTargetsClientID
             state |-> [t \in Teams |-> EMPTY],     \* m_aTeamState
             locked |-> {},                         \* m_aTeamLocked
             practice |-> {},                       \* m_aPractice
             timer |-> {},            \* m_aTeamUnfinishableKillTick is set
             invited |-> [t \in Teams |-> {}],      \* m_aInvited
             ranks |-> {}]                          \* history: what is ranked
  /\ result = [t \in Teams |-> NoResult]
  /\ rows = {}
  /\ past = [runs |-> 0, requests |-> 0, practised |-> {}, elsewhere |-> {}, doubt |-> {}]

(* What a save keeps of a tee, and of a team: its tees by name *)
Tees == [race : Races, time : Nat, begun : BOOLEAN, ended : BOOLEAN]
SavedOf(D) == [locked : BOOLEAN, practice : BOOLEAN, tees : [D -> Tees]]

NoTeam == [locked |-> FALSE, practice |-> FALSE, tees |-> <<>>]

(* A request under way for the players with the names D *)
ResultOf(D) ==
  [kind : {"save"}, status : {"pending", "SAVE_SUCCESS", "SAVE_FAILED"},
   saved : SavedOf(D), slots : [D -> Slots]] \cup
  [kind : {"load"}, status : {"pending", "LOAD_FAILED"},
   saved : SavedOf(D) \cup {NoTeam}, slots : [D -> Slots]] \cup
  [kind : {"load"}, status : {"selected", "LOAD_SUCCESS"},
   saved : SavedOf(D), slots : [D -> Slots]]

Past == [runs : Nat, requests : Nat, practised : SUBSET Nat,
         elsewhere : SUBSET Nat, doubt : SUBSET Nat]

TypeOK ==
  /\ config \in Configs
  /\ game \in Game
  /\ result = [t \in Teams |-> result[t]]
  /\ \A t \in Teams : result[t] = NoResult \/ \E D \in SUBSET Names : result[t] \in ResultOf(D)
  /\ \A row \in rows : \E D \in SUBSET Names : row \in SavedOf(D)
  /\ past \in Past

-----------------------------------------------------------------------------
Members(g, t) == {c \in Slots : g.team[c] = t}
Alive(g, c) == g.race[c] # "dead"
Playing(g, t) == {c \in Members(g, t) : Alive(g, c)}
Saving(t) == result[t] # NoResult

(* What a team's next members must not find is put back. *)
ResetRoundState(g, t) ==
  [g EXCEPT !.invited[t] = {},
            !.practice = @ \ {t},
            !.timer = @ \ {t},
            !.voted = @ \ Members(g, t),
            !.swap = [c \in Slots |-> IF g.team[c] = t THEN 0 ELSE @[c]]]

Empty_Stale(g, t) == [g EXCEPT !.state[t] = EMPTY, !.locked = @ \ {t}]

(* The last member leaves. *)
Empty(g, t) ==
  ResetRoundState([g EXCEPT !.state[t] = EMPTY, !.locked = @ \ {t}], t)

(* The players cs of one team go to team t, one after the other. *)
SetForceCharacterTeam(g, cs, t) ==
  LET old == g.team[CHOOSE c \in cs : TRUE]
      fresh == [g EXCEPT !.begun = @ \ cs, !.ended = @ \ cs]
      rest == IF t # old /\ old # Flock /\ Members(g, old) = cs
                THEN Empty(fresh, old)
                ELSE fresh
      moved == IF t = old
                 THEN rest
                 ELSE [rest EXCEPT
                         !.team = [c \in Slots |-> IF c \in cs THEN t ELSE @[c]],
                         !.voted = @ \ cs,
                         !.swap = [c \in Slots |-> IF c \in cs THEN 0 ELSE @[c]]]
  IN  IF moved.state[t] = EMPTY /\ t \notin moved.locked
        THEN [moved EXCEPT !.state[t] = OPEN]
        ELSE moved

SetRace(g, cs, race, time) ==
  [g EXCEPT !.race = [c \in Slots |-> IF c \in cs THEN race ELSE @[c]],
            !.time = [c \in Slots |-> IF c \in cs THEN time ELSE @[c]]]

Finish(g, cs) ==
  [g EXCEPT !.race = [c \in Slots |-> IF c \in cs THEN "finished" ELSE @[c]]]

Dead(g, cs) == SetRace(g, cs, "dead", 0)

(* A rank for the tees cs, with the time of the first of them, whether or  *)
(* not their team is being saved                                           *)
OnFinish(g, cs, saving) ==
  LET run == g.time[Min(cs)]
      rank == [run |-> run, tees |-> {g.time[c] : c \in cs},
               again |-> \E r \in g.ranks : r.run = run /\ ~r.saving,
               saving |-> saving]
  IN  [Finish(g, cs) EXCEPT !.ranks = @ \cup {rank}]

TeamFinished(g, t) == g.state[t] = STARTED /\ Members(g, t) \subseteq g.ended

CheckTeamFinished(g, t) ==
  LET players == Playing(g, t)
      done == [g EXCEPT !.begun = @ \ players, !.ended = @ \ players,
                        !.state[t] = FINISHED]
      ranked == OnFinish(done, players, Saving(t))
  IN  IF ~TeamFinished(g, t) \/ players = {} THEN g
      ELSE IF t \in g.practice THEN Finish(done, players)
      ELSE IF t \in g.locked THEN ranked
      ELSE SetForceCharacterTeam(ranked, players, Flock)

-----------------------------------------------------------------------------
(* All the team's tees but those of "except" die.  It is called for a      *)
(* locked team, one that is saving, and one that cannot finish.            *)
KillTeam(g, t, except) ==
  LET victims == Playing(g, t) \ except
      calm == [g EXCEPT !.voted = @ \ Members(g, t)]
  IN  IF Saving(t) \/ victims = {} THEN Dead(calm, victims)
      ELSE IF t \in g.locked
             THEN Dead([SetForceCharacterTeam(calm, victims, t)
                         EXCEPT !.state[t] = OPEN, !.practice = @ \ {t}], victims)
             ELSE Dead(SetForceCharacterTeam(calm, victims, Flock), victims)

(* A death takes a tee out of an unlocked team, which cannot finish any    *)
(* more if that tee had not started; in a locked team all die with it.     *)
OnCharacterDeath(g, c, byGame) ==
  LET t == g.team[c]
      again == SetForceCharacterTeam(g, {c}, t)
      left == IF g.state[t] = STARTED /\ c \notin g.begun
                THEN [g EXCEPT !.state[t] = UNFINISHABLE, !.timer = @ \cup {t}]
                ELSE g
  IN  CASE Saving(t) -> g
        [] ~Saving(t) /\ t \in g.locked /\ ~byGame ->
             IF again.state[t] = OPEN THEN again
             ELSE LET reset == [again EXCEPT !.state[t] = OPEN,
                                             !.practice = @ \ {t}]
                  IN  IF Members(g, t) = {c} THEN reset
                        ELSE KillTeam(reset, t, {c})
        [] OTHER ->
             CheckTeamFinished(SetForceCharacterTeam(left, {c}, Flock), t)

Die(g, c, byGame) ==
  IF Alive(g, c) THEN Dead(OnCharacterDeath(g, c, byGame), {c}) ELSE g

(* A new tee goes to the flock, unless its team is locked or saving; it    *)
(* takes over the race of a locked team's last tee.                        *)
Spawned(g, c) ==
  LET t == g.team[c]
      placed == IF Saving(t) \/ t \in g.locked THEN g
                  ELSE CheckTeamFinished(SetForceCharacterTeam(g, {c}, Flock), t)
      mates == Playing(placed, placed.team[c]) \ {c}
  IN  IF placed.team[c] \in placed.locked /\ mates # {}
        THEN SetRace(placed, {c}, placed.race[Max(mates)], placed.time[Max(mates)])
        ELSE SetRace(placed, {c}, "none", 0)

(* The start line, for a tee whose team is not saving; "run" is now.       *)
OnCharacterStart(g, c, run) ==
  LET t == g.team[c]
      waiting == \E m \in Members(g, t) : g.race[m] = "finished"
      here == IF waiting THEN [g EXCEPT !.race[c] = "none"]
                         ELSE [g EXCEPT !.begun = @ \cup {c}]
  IN  IF t = Flock THEN SetRace([g EXCEPT !.begun = @ \cup {c}], {c}, "started", run)
      ELSE IF g.race[c] = "finished" THEN g
      ELSE IF g.state[t] < STARTED /\ ~waiting
             THEN SetRace([here EXCEPT !.state[t] = STARTED, !.timer = @ \ {t}],
                          Playing(here, t), "started", run)
             ELSE here

OnCharacterFinish(g, c) ==
  LET t == g.team[c] IN
  IF t = Flock THEN OnFinish(g, {c}, FALSE)
  ELSE CheckTeamFinished(IF c \in g.begun THEN [g EXCEPT !.ended = @ \cup {c}]
                                          ELSE g, t)
-----------------------------------------------------------------------------
Practised(g) == {g.time[c] : c \in {d \in Slots : /\ g.race[d] = "started"
                                                  /\ g.team[d] \in g.practice}}

(* A handler that leaves the saves alone takes the game to g. *)
Becomes(g) ==
  /\ game' = g
  /\ past' = [past EXCEPT !.practised = @ \cup Practised(g)]
  /\ UNCHANGED <<config, result, rows>>

Connected(c) == game.name[c] # Nobody

(* OnClientEnter: a slot that is free gets a new player. *)
Connect(c) ==
  /\ ~Connected(c)
  /\ c <= config.clients
  /\ \E n \in Names \ {game.name[d] : d \in Slots} :
       Becomes([game EXCEPT !.name[c] = n])

(* OnClientDrop: the tee is killed by the game, then the player goes. *)
Disconnect(c) ==
  /\ Connected(c)
  /\ LET g == SetForceCharacterTeam(Die(game, c, TRUE), {c}, Flock)
     IN Becomes([g EXCEPT !.name[c] = Nobody, !.voted = @ \ {c}, !.swap[c] = 0])

Spawn(c) ==
  /\ Connected(c)
  /\ ~Alive(game, c)
  /\ Becomes(Spawned(game, c))

(* /kill, a deadly tile, a mate's hammer *)
Kill(c) ==
  /\ Alive(game, c)
  /\ Becomes(Die(game, c, FALSE))

(* DoTeamChange: to the spectators.  A player without a tee keeps its      *)
(* team; it is one who does not spawn.                                     *)
Spectate(c) ==
  /\ Alive(game, c)
  /\ LET t == game.team[c]
         g == CheckTeamFinished(SetForceCharacterTeam(game, {c}, Flock), t)
     IN Becomes(Die(g, c, TRUE))

MayJoin_Racing(c, t) ==
  /\ t \notin game.locked \/ c \in game.invited[t]
  /\ game.state[t] <= OPEN
  /\ game.team[c] # t
  /\ ~Saving(t)

MayJoin_Saving(c, t) ==
  /\ t \notin game.locked \/ c \in game.invited[t]
  /\ game.state[t] <= OPEN
  /\ game.team[c] # t
  /\ game.race[c] = "none"

MayJoin(c, t) ==
  /\ t \notin game.locked \/ c \in game.invited[t]
  /\ game.state[t] <= OPEN
  /\ game.team[c] # t
  /\ game.race[c] = "none"
  /\ game.team[c] \notin game.practice
  /\ ~Saving(t)
  /\ ~Saving(game.team[c])

(* AttemptJoinTeam, SetCharacterTeam *)
Join(c, t) ==
  /\ Alive(game, c)
  /\ MayJoin(c, t)
  /\ Becomes(SetForceCharacterTeam(game, {c}, t))

(* The start line, which kills a tee whose team is saving *)
Start(c) ==
  /\ Alive(game, c)
  /\ IF Saving(game.team[c]) THEN Becomes(Dead(game, {c}))
     ELSE LET run == past.runs + 1
              g == OnCharacterStart(game, c, run)
              new == \E d \in Slots : g.time[d] = run
          IN  /\ new => run <= config.runs
              /\ game' = g
              /\ past' = [past EXCEPT !.runs = IF new THEN run ELSE @,
                                      !.practised = @ \cup Practised(g)]
              /\ UNCHANGED <<config, result, rows>>

(* The finish line *)
Arrive(c) ==
  /\ game.race[c] = "started"
  /\ Becomes(OnCharacterFinish(game, c))

(* ConLock, ConUnlock, and the tile that unlocks *)
Lock(c) ==
  /\ Connected(c)
  /\ game.team[c] # Flock
  /\ \/ Becomes([game EXCEPT !.locked = @ \cup {game.team[c]}])
     \/ Becomes([game EXCEPT !.locked = @ \ {game.team[c]}])

(* ConInvite: the slot whose player has that name is invited. *)
Invite(c, d) ==
  /\ "invite" \in config.on
  /\ Connected(c) /\ Connected(d)
  /\ game.team[c] # Flock
  /\ d \notin game.invited[game.team[c]]
  /\ Becomes([game EXCEPT !.invited[game.team[c]] = @ \cup {d}])

Votes(g, t) == Cardinality(g.voted \cap Members(g, t))

(* ConPractice: a vote of the team, for or against *)
Practice(c) ==
  LET t == game.team[c]
      g == [game EXCEPT !.voted = IF c \in @ THEN @ \ {c} ELSE @ \cup {c}]
  IN  /\ "practice" \in config.on
      /\ Connected(c)
      /\ t # Flock
      /\ t \notin game.practice
      /\ Becomes(IF Votes(g, t) >= Cardinality(Members(g, t)) \div 2 + 1
                   THEN [g EXCEPT !.practice = @ \cup {t}] ELSE g)

MaySwap(c, d) ==
  /\ "swap" \in config.on
  /\ c # d
  /\ game.team[c] = game.team[d]
  /\ Alive(game, c) /\ Alive(game, d)
  /\ IF game.team[c] = Flock
       THEN game.race[c] = "started" /\ game.race[d] = "started"
       ELSE game.state[game.team[c]] = STARTED

Exchanged(set, c, d) == {IF x = c THEN d ELSE IF x = d THEN c ELSE x : x \in set}

(* ConSwap: a request, *)
RequestSwap(c, d) ==
  /\ MaySwap(c, d)
  /\ game.swap[d] # c
  /\ game.swap[c] # d
  /\ Becomes([game EXCEPT !.swap[c] = d])

(* or the answer to one, which comes too late or makes the tees change     *)
(* places with all they have done so far.                                  *)
Swap(c, d) ==
  LET asked == [game EXCEPT !.swap[c] = 0, !.swap[d] = 0]
      others == Playing(game, game.team[c]) \ {c, d}
  IN  /\ MaySwap(c, d)
      /\ game.swap[d] = c
      /\ \/ Becomes(asked)
         \/ Becomes([asked EXCEPT
              !.race = [@ EXCEPT ![c] = game.race[d], ![d] = game.race[c]],
              !.time = [x \in Slots |->
                          IF x = c \/ (x \in others /\ game.team[c] # Flock)
                            THEN game.time[d]
                            ELSE IF x = d THEN game.time[c] ELSE @[x]],
              !.begun = Exchanged(@, c, d), !.ended = Exchanged(@, c, d)])

(* Tick: a team that cannot finish is killed, unless it practises. *)
KillTick(t) ==
  /\ t \in game.timer
  /\ game.state[t] = UNFINISHABLE
  /\ Becomes(IF t \in game.practice THEN [game EXCEPT !.timer = @ \ {t}]
                                    ELSE KillTeam(game, t, {}))

-----------------------------------------------------------------------------
Tee(g, c) == [race |-> g.race[c], time |-> g.time[c],
              begun |-> c \in g.begun, ended |-> c \in g.ended]

Named(n) == CHOOSE c \in Slots : game.name[c] = n
NamesOf(cs) == {game.name[c] : c \in cs}

SavedTeam_Unpractised(t) ==
  [locked |-> t \in game.locked, practice |-> FALSE,
   tees |-> [n \in NamesOf(Members(game, t)) |-> Tee(game, Named(n))]]

(* CSaveTeam::Save: the team's settings, and its tees by name *)
SavedTeam(t) ==
  [locked |-> t \in game.locked, practice |-> t \in game.practice,
   tees |-> [n \in NamesOf(Members(game, t)) |-> Tee(game, Named(n))]]

(* The slot each name has in team t, as a request takes them along *)
SlotsOf(t) == [n \in NamesOf(Members(game, t)) |-> Named(n)]

RunsOf(saved) == {saved.tees[n].time : n \in DOMAIN saved.tees}

(* Bound: no more requests, and none once a run is in doubt *)
MayRequest == past.requests < MaxRequests /\ past.doubt = {}

(* CScore::SaveTeam: the team is saved and its tees die, all of which must *)
(* be alive; they stay in the team until the answer.                       *)
SaveTeam(t) ==
  /\ "save" \in config.on
  /\ MayRequest
  /\ ~Saving(t)
  /\ Members(game, t) # {}
  /\ game.state[t] = STARTED
  /\ Playing(game, t) = Members(game, t)
  /\ result' = [result EXCEPT ![t] =
                  [kind |-> "save", status |-> "pending",
                   saved |-> SavedTeam(t), slots |-> SlotsOf(t)]]
  /\ game' = Dead([game EXCEPT !.voted = @ \ Members(game, t)], Members(game, t))
  /\ past' = [past EXCEPT !.requests = @ + 1]
  /\ UNCHANGED <<config, rows>>

(* CScore::LoadTeam *)
LoadTeam(t) ==
  /\ "save" \in config.on
  /\ MayRequest
  /\ ~Saving(t)
  /\ Members(game, t) # {}
  /\ game.state[t] = OPEN
  /\ result' = [result EXCEPT ![t] = [kind |-> "load", status |-> "pending",
                                      saved |-> NoTeam, slots |-> SlotsOf(t)]]
  /\ past' = [past EXCEPT !.requests = @ + 1]
  /\ UNCHANGED <<config, game, rows>>

Answer(t, status) == [result EXCEPT ![t].status = status]

InDoubt(runs) == [past EXCEPT !.doubt = @ \cup runs]

(* CScoreWorker::SaveTeam on the worker thread.  A database that misleads  *)
(* loses the connection after it did as told.                              *)
WorkSave(t) ==
  LET saved == result[t].saved IN
  /\ result[t].kind = "save"
  /\ result[t].status = "pending"
  /\ \/ /\ rows' = rows \cup {saved}
        /\ result' = Answer(t, "SAVE_SUCCESS")
        /\ UNCHANGED past
     \/ /\ "refuse" \in config.database
        /\ result' = Answer(t, "SAVE_FAILED")
        /\ UNCHANGED <<rows, past>>
     \/ /\ "mislead" \in config.database
        /\ rows' = rows \cup {saved}
        /\ result' = Answer(t, "SAVE_FAILED")
        /\ past' = InDoubt(RunsOf(saved))
  /\ UNCHANGED <<config, game>>

MatchPlayers(saved, slots) == DOMAIN saved.tees = DOMAIN slots

(* CScoreWorker::LoadTeam reads a row; without the right one it gives up.  *)
WorkSelect(t) ==
  /\ result[t].kind = "load"
  /\ result[t].status = "pending"
  /\ \A u \in OwnTeams : Saving(u) => result[u].status # "selected"
  /\ \/ \E row \in rows :
          /\ MatchPlayers(row, result[t].slots)
          /\ result' = [result EXCEPT ![t].status = "selected", ![t].saved = row]
     \/ result' = Answer(t, "LOAD_FAILED")
  /\ UNCHANGED <<config, game, rows, past>>

(* The row counts only if this very load deletes it: other servers have    *)
(* the same database.                                                      *)
WorkDelete_Uncounted(t) ==
  LET row == result[t].saved IN
  /\ result[t].kind = "load"
  /\ result[t].status = "selected"
  /\ rows' = rows \ {row}
  /\ result' = Answer(t, "LOAD_SUCCESS")
  /\ UNCHANGED <<config, game, past>>

WorkDelete(t) ==
  LET row == result[t].saved IN
  /\ result[t].kind = "load"
  /\ result[t].status = "selected"
  /\ rows' = rows \ {row}
  /\ IF row \notin rows
       THEN result' = Answer(t, "LOAD_FAILED") /\ UNCHANGED past
       ELSE \/ result' = Answer(t, "LOAD_SUCCESS") /\ UNCHANGED past
            \/ /\ "mislead" \in config.database
               /\ result' = Answer(t, "LOAD_FAILED")
               /\ past' = InDoubt(RunsOf(row))
  /\ UNCHANGED <<config, game>>

(* Another server loads a team from the database. *)
LoadElsewhere ==
  /\ "share" \in config.database
  /\ \E row \in rows :
       /\ rows' = rows \ {row}
       /\ past' = [past EXCEPT !.elsewhere = @ \cup RunsOf(row)]
  /\ UNCHANGED <<config, game, result>>

(* CSaveTeam::Load gives the tees that are still in the team what was      *)
(* saved; one that is dead spawns.  All others are as they were.           *)
Load(g, t) ==
  LET saved == result[t].saved
      slots == result[t].slots
      back == {n \in DOMAIN saved.tees : /\ g.name[slots[n]] # Nobody
                                         /\ g.team[slots[n]] = t}
      TeeOf(c) == saved.tees[CHOOSE n \in back : slots[n] = c]
      cs == {slots[n] : n \in back}
      With(set, yes) == IF yes THEN set \cup {t} ELSE set \ {t}
  IN  [g EXCEPT
         !.state[t] = STARTED,
         !.locked = With(@, saved.locked),
         !.practice = With(@, saved.practice),
         !.race = [c \in Slots |-> IF c \in cs THEN TeeOf(c).race ELSE @[c]],
         !.time = [c \in Slots |-> IF c \in cs THEN TeeOf(c).time ELSE @[c]],
         !.begun = (@ \ cs) \cup {c \in cs : TeeOf(c).begun},
         !.ended = (@ \ cs) \cup {c \in cs : TeeOf(c).ended}]

(* ProcessSaveTeam, once the worker has answered.  When everybody has left *)
(* the team there is nobody to give the run to.                            *)
ProcessSaveTeam(t) ==
  LET status == result[t].status
      members == Members(game, t)
  IN  /\ Saving(t)
      /\ \/ /\ status = "SAVE_SUCCESS"
            /\ game' = IF members = {} THEN game
                         ELSE SetForceCharacterTeam(game, members, Flock)
            /\ UNCHANGED past
         \/ /\ status \in {"SAVE_FAILED", "LOAD_SUCCESS"}
            /\ IF members = {}
                 THEN game' = game /\ past' = InDoubt(RunsOf(result[t].saved))
                 ELSE game' = Load(game, t) /\ UNCHANGED past
         \/ status = "LOAD_FAILED" /\ UNCHANGED <<game, past>>
      /\ result' = [result EXCEPT ![t] = NoResult]
      /\ UNCHANGED <<config, rows>>

-----------------------------------------------------------------------------
Player(c) ==
  \/ Connect(c) \/ Disconnect(c) \/ Spawn(c) \/ Kill(c) \/ Spectate(c)
  \/ Start(c) \/ Arrive(c) \/ Lock(c) \/ Practice(c)
  \/ \E t \in Teams : Join(c, t)
  \/ \E d \in Slots : Invite(c, d) \/ RequestSwap(c, d) \/ Swap(c, d)

Team(t) ==
  \/ KillTick(t) \/ SaveTeam(t) \/ LoadTeam(t)
  \/ WorkSave(t) \/ WorkSelect(t) \/ WorkDelete(t) \/ ProcessSaveTeam(t)

Next ==
  \/ \E c \in Slots : Player(c)
  \/ \E t \in OwnTeams : Team(t)
  \/ LoadElsewhere

Spec == Init /\ [][Next]_vars

-----------------------------------------------------------------------------
(* A team nobody is in is as new: open to anyone, not locked, nobody       *)
(* invited, not in practice, not about to be killed.  A member is in a     *)
(* team that exists.  Who joins it next finds nothing of those before.     *)
EmptyIsFresh ==
  \A t \in OwnTeams :
    IF Members(game, t) # {} THEN game.state[t] # EMPTY
    ELSE /\ game.state[t] = EMPTY
         /\ t \notin game.locked \cup game.practice \cup game.timer
         /\ game.invited[t] = {}

(* The tees of a team that is on its way race together: all have started,  *)
(* with one start time, whoever died, swapped or came back from a save; or *)
(* none has, when the last racer of a locked team left before its dead     *)
(* mates spawned.  Nobody races in a team that has not started.            *)
OneRun ==
  \A t \in OwnTeams : ~Saving(t) =>
    LET tees == Playing(game, t) IN
    IF game.state[t] \in {STARTED, UNFINISHABLE}
      THEN \/ \A c \in tees : game.race[c] = "none"
           \/ \A c, d \in tees : game.race[c] = "started" /\ game.time[c] = game.time[d]
      ELSE game.state[t] <= OPEN => \A c \in tees : game.race[c] = "none"

(* While a save or load is under way no slot of the team changes hands:    *)
(* the saved tee of a player is never given to another one.                *)
RightTee ==
  \A t \in OwnTeams : Saving(t) =>
    \A c \in Members(game, t) : \E n \in DOMAIN result[t].slots :
      result[t].slots[n] = c /\ game.name[c] = n

(* A rank is for one run that its tees have raced together, out of         *)
(* practice, and no run gets two, but for a run in doubt.  The other       *)
(* exception is the rank a team is given while its save is under way, when *)
(* a member goes to the spectators and leaves only tees behind that have   *)
(* ended and died: it is for tees without a start time, and never takes    *)
(* the run that is being saved.                                            *)
RanksHonest ==
  \A r \in game.ranks :
    IF r.saving THEN r.tees = {0}
    ELSE r.run \notin past.doubt =>
           /\ r.tees = {r.run}
           /\ r.run \in 1 .. past.runs
           /\ r.run \notin past.practised
           /\ ~r.again

(* Where a run is: raced in the game, held by a save or load that will put *)
(* it back into the game or has not stored it yet, or in the database.     *)
RacedIn(r) == {t \in Teams : \E c \in Members(game, t) :
                 game.race[c] = "started" /\ game.time[c] = r}

Holding(res) == \/ res.kind = "save" /\ res.status = "pending"
                \/ res.status \in {"SAVE_FAILED", "LOAD_SUCCESS"}

Holders(r) == {t \in OwnTeams : /\ Saving(t)
                                /\ Holding(result[t])
                                /\ r \in RunsOf(result[t].saved)}

PlacesOf(r) ==
  {"game" : t \in RacedIn(r)} \cup {"held" : t \in Holders(r)}
  \cup {"stored" : row \in {s \in rows : r \in RunsOf(s)}}
  \cup {"elsewhere" : x \in past.elsewhere \cap {r}}

PlaceOf(r) ==
  CASE r \in past.doubt -> "doubt"
    [] r \notin past.doubt /\ Cardinality(PlacesOf(r)) > 1 -> "several"
    [] r \notin past.doubt /\ Cardinality(PlacesOf(r)) = 1 -> CHOOSE p \in PlacesOf(r) : TRUE
    [] OTHER -> IF r <= past.runs THEN "over" ELSE "none"

Ledger == INSTANCE RunLedger WITH place <- [r \in Runs |-> PlaceOf(r)]

(* The saves implement the ledger: no run is lost between the game and the *)
(* database, none exists twice, and a run that is over never comes back.   *)
LedgerSpec == Ledger!Spec
=============================================================================

---------------------------- MODULE TeamsProofs ----------------------------
(***************************************************************************)
(* The teams of the race and their saves, for any number of players, teams *)
(* and requests, any names and any settings.                               *)
(*                                                                         *)
(* A handler calls others, and between two of those calls its caller is    *)
(* half done: a tee that dies is still in its team.  So what holds of the  *)
(* game, Ok, is stated for a set ex of tees that do not count for the      *)
(* moment; each operator of Teams has a lemma that says what it does to    *)
(* Ok, and each action one that puts those together.  TeamsInv adds that   *)
(* a request still has the slots and names it was made for (Requests).     *)
(*                                                                         *)
(* The second half follows the runs.  Each is in one place, be it with a   *)
(* tee, a team, a save or a rank (RunsInv); an operator of Teams that      *)
(* leaves the saves alone keeps it there, or drops it (Tame), and a step   *)
(* of a save moves it (FollowsMove).                                       *)
(***************************************************************************)
EXTENDS Teams, TLAPS, FiniteSetTheorems, WellFoundedInduction

(* Min and Max of a set of slots are in it. *)
LEMMA MinInSet ==
  ASSUME NEW S \in SUBSET Nat, S # {}
  PROVE  Min(S) \in S /\ \A y \in S : Min(S) <= y
<1> DEFINE T == {0 .. x : x \in S}
<1>1. T \subseteq FiniteSubsetsOf(Nat) /\ T # {}
  <2>1. \A x \in S : 0 .. x \in SUBSET Nat /\ IsFiniteSet(0 .. x)
    BY FS_Interval
  <2>2. \A x \in S : 0 .. x \in FiniteSubsetsOf(Nat)
    BY <2>1 DEF FiniteSubsetsOf
  <2> QED BY <2>2
<1>2. PICK t \in T : \A u \in T : ~ (<<u, t>> \in StrictSubsetOrdering(Nat))
  BY <1>1, FS_StrictSubsetOrderingWellFounded, WFMin
<1>3. PICK x \in S : t = 0 .. x
  OBVIOUS
<1>4. ASSUME NEW y \in S, ~ x <= y
      PROVE  FALSE
  <2>1. 0 .. y \in T /\ 0 .. y \subseteq 0 .. x
    BY <1>4
  <2>2. 0 .. y # 0 .. x
    <3>1. x \in 0 .. x /\ x \notin 0 .. y
      BY <1>4
    <3> QED BY <3>1
  <2>3. 0 .. y \in SUBSET Nat /\ 0 .. x \in SUBSET Nat
    OBVIOUS
  <2>4. <<0 .. y, t>> \in StrictSubsetOrdering(Nat)
    BY <1>3, <2>1, <2>2, <2>3 DEF StrictSubsetOrdering
  <2> QED BY <1>2, <2>1, <2>4
<1>5. \A y \in S : x <= y
  BY <1>4
<1> QED BY <1>5 DEF Min

LEMMA MaxInSet ==
  ASSUME NEW n \in Nat, NEW S \in SUBSET (0 .. n), S # {}
  PROVE  Max(S) \in S
<1> DEFINE T == {n - x : x \in S}
<1>1. T \in SUBSET Nat /\ T # {}
  <2>1. \A x \in S : n - x \in Nat
    OBVIOUS
  <2> QED BY <2>1
<1>2. Min(T) \in T /\ \A u \in T : Min(T) <= u
  BY <1>1, MinInSet
<1>4. PICK x \in S : Min(T) = n - x
  BY <1>2
<1>5. \A y \in S : x >= y
  <2> TAKE y \in S
  <2>1. n - y \in T
    OBVIOUS
  <2>2. n - x <= n - y
    BY <1>2, <1>4, <2>1
  <2> QED BY <2>2
<1> QED BY <1>5 DEF Max

LEMMA MinMaxSlot ==
  ASSUME NEW S \in SUBSET Slots, S # {}
  PROVE  Min(S) \in S /\ Max(S) \in S
<1>1. S \subseteq Nat /\ S \subseteq 0 .. NumSlots /\ NumSlots \in Nat
  BY TeamsAssumption DEF Slots
<1> QED BY <1>1, MinInSet, MaxInSet

LEMMA StatesFacts ==
  /\ EMPTY \in States /\ OPEN \in States /\ STARTED \in States
  /\ UNFINISHABLE \in States /\ FINISHED \in States
  /\ \A s \in States : /\ s <= OPEN <=> s \in {EMPTY, OPEN}
                       /\ s < STARTED <=> s \in {EMPTY, OPEN}
                       /\ s \in {EMPTY, OPEN, STARTED, UNFINISHABLE, FINISHED}
  /\ STARTED \notin {EMPTY, OPEN} /\ UNFINISHABLE \notin {EMPTY, OPEN, STARTED}
  /\ FINISHED \notin {EMPTY, OPEN, STARTED, UNFINISHABLE} /\ OPEN # EMPTY
BY DEF States, EMPTY, OPEN, STARTED, UNFINISHABLE, FINISHED

LEMMA EmptyFacts ==
  ASSUME NEW g \in Game, NEW t \in Teams
  PROVE  LET h == Empty(g, t) IN
         /\ h \in Game
         /\ h.name = g.name /\ h.team = g.team /\ h.race = g.race /\ h.time = g.time
         /\ h.begun = g.begun /\ h.ended = g.ended /\ h.ranks = g.ranks
         /\ h.state = [g.state EXCEPT ![t] = EMPTY]
         /\ h.locked = g.locked \ {t} /\ h.practice = g.practice \ {t}
         /\ h.timer = g.timer \ {t} /\ h.invited = [g.invited EXCEPT ![t] = {}]
<1> DEFINE e == [g EXCEPT !.state[t] = EMPTY, !.locked = @ \ {t}]
           h == ResetRoundState(e, t)
<1>1. e \in Game
  BY StatesFacts DEF Game
<1>2. /\ e.name = g.name /\ e.team = g.team /\ e.race = g.race /\ e.time = g.time
      /\ e.begun = g.begun /\ e.ended = g.ended /\ e.ranks = g.ranks
      /\ e.practice = g.practice /\ e.timer = g.timer /\ e.invited = g.invited
      /\ e.state = [g.state EXCEPT ![t] = EMPTY] /\ e.locked = g.locked \ {t}
  BY DEF Game
<1>3. Empty(g, t) = h
  BY DEF Empty
<1> HIDE DEF e
<1>4. /\ h.name = e.name /\ h.team = e.team /\ h.race = e.race /\ h.time = e.time
      /\ h.begun = e.begun /\ h.ended = e.ended /\ h.ranks = e.ranks
      /\ h.practice = e.practice \ {t} /\ h.timer = e.timer \ {t}
      /\ h.invited = [e.invited EXCEPT ![t] = {}]
      /\ h.state = e.state /\ h.locked = e.locked
  BY <1>1 DEF ResetRoundState, Game
<1>5. h \in Game
  BY <1>1 DEF ResetRoundState, Game
<1> QED BY <1>2, <1>3, <1>4, <1>5

(* The players cs are all that is left of the team they leave. *)
Gone(g, cs, old, t) == t # old /\ old # Flock /\ Members(g, old) = cs

(* f is g after cs have moved from the team old to t, as the two branches  *)
(* of SetForceCharacterTeam have it: one leaves an empty team behind, the  *)
(* other opens one.                                                        *)
Moved(g, cs, old, t, f) ==
  /\ f \in Game
  /\ f.name = g.name /\ f.race = g.race /\ f.time = g.time /\ f.ranks = g.ranks
  /\ f.begun = g.begun \ cs /\ f.ended = g.ended \ cs
  /\ f.team = [c \in Slots |-> IF c \in cs THEN t ELSE g.team[c]]
  /\ f.locked = IF Gone(g, cs, old, t) THEN g.locked \ {old} ELSE g.locked
  /\ f.practice = IF Gone(g, cs, old, t) THEN g.practice \ {old} ELSE g.practice
  /\ f.timer = IF Gone(g, cs, old, t) THEN g.timer \ {old} ELSE g.timer
  /\ f.invited = IF Gone(g, cs, old, t) THEN [g.invited EXCEPT ![old] = {}] ELSE g.invited
  /\ \A u \in Teams :
       f.state[u] = IF u = t /\ g.state[t] = EMPTY /\ t \notin g.locked THEN OPEN
                      ELSE IF Gone(g, cs, old, t) /\ u = old THEN EMPTY
                      ELSE g.state[u]

LEMMA SetForceFacts ==
  ASSUME NEW g \in Game, NEW cs \in SUBSET Slots, cs # {}, NEW old \in Teams,
         \A c \in cs : g.team[c] = old, NEW t \in Teams
  PROVE  Moved(g, cs, old, t, SetForceCharacterTeam(g, cs, t))
<1> DEFINE gone == t # old /\ old # Flock /\ Members(g, old) = cs
           fresh == [g EXCEPT !.begun = @ \ cs, !.ended = @ \ cs]
           rest == IF gone THEN Empty(fresh, old) ELSE fresh
           moved == IF t = old
                 THEN rest
                 ELSE [rest EXCEPT
                         !.team = [c \in Slots |-> IF c \in cs THEN t ELSE @[c]],
                         !.voted = @ \ cs,
                         !.swap = [c \in Slots |-> IF c \in cs THEN 0 ELSE @[c]]]
           h == IF moved.state[t] = EMPTY /\ t \notin moved.locked
                  THEN [moved EXCEPT !.state[t] = OPEN]
                  ELSE moved
<1>1. g.team[CHOOSE c \in cs : TRUE] = old
  OBVIOUS
<1>2. SetForceCharacterTeam(g, cs, t) = h
  BY <1>1 DEF SetForceCharacterTeam
<1>3. /\ fresh \in Game
      /\ fresh.name = g.name /\ fresh.team = g.team /\ fresh.race = g.race
      /\ fresh.time = g.time /\ fresh.ranks = g.ranks
      /\ fresh.begun = g.begun \ cs /\ fresh.ended = g.ended \ cs
      /\ fresh.locked = g.locked /\ fresh.practice = g.practice /\ fresh.timer = g.timer
      /\ fresh.invited = g.invited /\ fresh.state = g.state
  BY DEF Game
<1> HIDE DEF fresh, gone
<1>4. /\ rest \in Game
      /\ rest.name = g.name /\ rest.team = g.team /\ rest.race = g.race
      /\ rest.time = g.time /\ rest.ranks = g.ranks
      /\ rest.begun = g.begun \ cs /\ rest.ended = g.ended \ cs
      /\ rest.locked = IF gone THEN g.locked \ {old} ELSE g.locked
      /\ rest.practice = IF gone THEN g.practice \ {old} ELSE g.practice
      /\ rest.timer = IF gone THEN g.timer \ {old} ELSE g.timer
      /\ rest.invited = IF gone THEN [g.invited EXCEPT ![old] = {}] ELSE g.invited
      /\ rest.state = IF gone THEN [g.state EXCEPT ![old] = EMPTY] ELSE g.state
  <2>1. CASE gone
    <3>1. rest = Empty(fresh, old)
      BY <2>1
    <3> HIDE DEF rest
    <3>2. /\ rest \in Game
          /\ rest.name = fresh.name /\ rest.team = fresh.team /\ rest.race = fresh.race
          /\ rest.time = fresh.time /\ rest.ranks = fresh.ranks
          /\ rest.begun = fresh.begun /\ rest.ended = fresh.ended
          /\ rest.locked = fresh.locked \ {old} /\ rest.practice = fresh.practice \ {old}
          /\ rest.timer = fresh.timer \ {old}
          /\ rest.invited = [fresh.invited EXCEPT ![old] = {}]
          /\ rest.state = [fresh.state EXCEPT ![old] = EMPTY]
      BY <1>3, <3>1, EmptyFacts, Zenon
    <3> QED BY <1>3, <2>1, <3>2
  <2>2. CASE ~gone
    <3>1. rest = fresh
      BY <2>2
    <3> HIDE DEF rest
    <3> QED BY <1>3, <2>2, <3>1
  <2> QED BY <2>1, <2>2
<1> HIDE DEF rest
<1>5. /\ moved \in Game
      /\ moved.name = rest.name /\ moved.race = rest.race
      /\ moved.time = rest.time /\ moved.ranks = rest.ranks
      /\ moved.begun = rest.begun /\ moved.ended = rest.ended
      /\ moved.locked = rest.locked /\ moved.practice = rest.practice
      /\ moved.timer = rest.timer /\ moved.invited = rest.invited
      /\ moved.state = rest.state
  <2>1. CASE t = old
    BY <1>4, <2>1
  <2>2. CASE t # old
    <3> DEFINE k == [c \in Slots |-> IF c \in cs THEN t ELSE rest.team[c]]
               w == [c \in Slots |-> IF c \in cs THEN 0 ELSE rest.swap[c]]
    <3>1. k \in [Slots -> Teams] /\ w \in [Slots -> Nat]
      BY <1>4 DEF Game
    <3>2. moved = [rest EXCEPT !.team = k, !.voted = @ \ cs, !.swap = w]
      BY <2>2
    <3> HIDE DEF k, w, moved
    <3>3. moved \in Game
      BY <1>4, <3>1, <3>2 DEF Game
    <3> QED BY <1>4, <3>2, <3>3 DEF Game
  <2> QED BY <2>1, <2>2
<1>6. moved.team = [c \in Slots |-> IF c \in cs THEN t ELSE g.team[c]]
  <2>1. CASE t = old
    <3>1. moved.team = g.team /\ g.team \in [Slots -> Teams]
      BY <1>4, <2>1 DEF Game
    <3> QED BY <2>1, <3>1
  <2>2. CASE t # old
    BY <1>4, <2>2 DEF Game
  <2> QED BY <2>1, <2>2
<1> HIDE DEF moved
<1>7. /\ h \in Game
      /\ h.name = moved.name /\ h.race = moved.race /\ h.team = moved.team
      /\ h.time = moved.time /\ h.ranks = moved.ranks
      /\ h.begun = moved.begun /\ h.ended = moved.ended
      /\ h.locked = moved.locked /\ h.practice = moved.practice
      /\ h.timer = moved.timer /\ h.invited = moved.invited
  BY <1>5, StatesFacts DEF Game
<1>8. ASSUME NEW u \in Teams
      PROVE  h.state[u] = IF u = t /\ moved.state[t] = EMPTY /\ t \notin moved.locked
                            THEN OPEN ELSE moved.state[u]
  BY <1>5 DEF Game
<1> HIDE DEF h
<1>9. ASSUME NEW u \in Teams
      PROVE  h.state[u] = IF u = t /\ g.state[t] = EMPTY /\ t \notin g.locked THEN OPEN
                            ELSE IF gone /\ u = old THEN EMPTY ELSE g.state[u]
  <2>1. g.state \in [Teams -> States]
    BY DEF Game
  <2>2. gone => t # old
    BY DEF gone
  <2>3. moved.state[u] = IF gone /\ u = old THEN EMPTY ELSE g.state[u]
    BY <1>4, <1>5, <2>1
  <2>4. moved.state[t] = g.state[t] /\ (t \in moved.locked <=> t \in g.locked)
    BY <1>4, <1>5, <2>1, <2>2
  <2> QED BY <1>8, <2>3, <2>4
<1>10. gone <=> Gone(g, cs, old, t)
  BY DEF gone, Gone
<1>11. Moved(g, cs, old, t, h)
  BY <1>4, <1>5, <1>6, <1>7, <1>9, <1>10 DEF Moved
<1> QED BY <1>2, <1>11

-----------------------------------------------------------------------------
(* The tees race together, or none has started. *)
Uniform(g, cs) ==
  \/ \A c \in cs : g.race[c] = "none"
  \/ \A c, d \in cs : g.race[c] = "started" /\ g.time[c] = g.time[d]

(* A team is EMPTY when nobody is in it, and then it is as new. *)
FreshTeam(g, t) ==
  /\ (\E c \in Slots : g.team[c] = t) => g.state[t] # EMPTY
  /\ (\A c \in Slots : g.team[c] # t) =>
       /\ g.state[t] = EMPTY
       /\ t \notin g.locked /\ t \notin g.practice /\ t \notin g.timer
       /\ g.invited[t] = {}

Fresh(g) == \A t \in OwnTeams : FreshTeam(g, t)

(* The tees of a team that are alive, but for those that do not count *)
Racing(g, t, ex) == {c \in Slots : g.team[c] = t /\ g.race[c] # "dead" /\ c \notin ex}

(* What a team's state, and its save or load, say of the races of its tees *)
InState(g, state, res, tees) ==
  /\ state \in {STARTED, UNFINISHABLE} => Uniform(g, tees)
  /\ state \in {EMPTY, OPEN} => \A c \in tees : g.race[c] = "none"
  /\ state = FINISHED => \A c \in tees : g.race[c] # "started"
  /\ res # NoResult => /\ \A c \in tees : g.race[c] # "started"
                       /\ res.kind = "load" => state \in {EMPTY, OPEN}

Round(g, res, ex) ==
  \A t \in OwnTeams : InState(g, g.state[t], res[t], Racing(g, t, ex))

(* Who races has a start time, who has not started has none. *)
Clocks(g) == \A c \in Slots : /\ g.race[c] = "started" => g.time[c] # 0
                              /\ g.race[c] \in {"dead", "none"} => g.time[c] = 0

(* A tee that its team has seen arrive races on until all have arrived,    *)
(* unless the team is being saved.                                         *)
Arrived(g, res) ==
  \A c \in g.ended :
    g.team[c] # Flock /\ g.race[c] # "started" => res[g.team[c]].kind = "save"

Timed(g, res) ==
  Clocks(g) /\ Arrived(g, res) /\ Flock \notin g.locked /\ Flock \notin g.practice

(* What holds of the game whenever one operator hands over to another *)
Ok(g, res, ex) ==
  /\ g \in Game
  /\ g.state[Flock] \in {EMPTY, OPEN}
  /\ Fresh(g)
  /\ Round(g, res, ex)
  /\ Timed(g, res)

(* Nobody gets into another team than the flock, and nobody spawns. *)
Kept(g, h) ==
  /\ h.name = g.name /\ \A c \in Slots : h.team[c] \in {g.team[c], Flock}
  /\ \A c \in Slots : g.race[c] = "dead" => h.race[c] = "dead"

(* The same, but for the tee of c *)
KeptBut(g, h, c) ==
  /\ h.name = g.name /\ \A k \in Slots : h.team[k] \in {g.team[k], Flock}
  /\ \A k \in Slots : g.race[k] = "dead" /\ k # c => h.race[k] = "dead"

LEMMA KeptTrans ==
  ASSUME NEW g, NEW h, NEW k, Kept(g, h), Kept(h, k)
  PROVE  Kept(g, k)
BY DEF Kept

LEMMA TeamFacts ==
  /\ Flock \in Teams /\ OwnTeams \subseteq Teams
  /\ \A t \in Teams : t \in OwnTeams <=> t # Flock
BY TeamsAssumption DEF Flock, Teams, OwnTeams

(* A change that keeps the races keeps the times. *)
LEMMA SameTimes ==
  ASSUME NEW res, NEW g, Timed(g, res), NEW h \in Game,
         h.race = g.race, h.time = g.time,
         \A c \in h.ended : c \in g.ended /\ h.team[c] = g.team[c],
         Flock \notin h.locked, Flock \notin h.practice
  PROVE  Timed(h, res)
<1>1. Clocks(h)
  BY DEF Timed, Clocks
<1>2. Arrived(h, res)
  BY DEF Timed, Arrived
<1> QED BY <1>1, <1>2 DEF Timed

LEMMA FewerRacing ==
  ASSUME NEW g, NEW h, NEW state, NEW res, NEW A, NEW B, B \subseteq A,
         InState(g, state, res, A),
         \A c \in B : h.race[c] = g.race[c] /\ h.time[c] = g.time[c]
  PROVE  InState(h, state, res, B)
<1>1. ASSUME Uniform(g, A) PROVE Uniform(h, B)
  <2>1. \A c \in B : c \in A
    OBVIOUS
  <2>2. CASE \A c \in A : g.race[c] = "none"
    BY <2>1, <2>2 DEF Uniform
  <2>3. CASE \A c, d \in A : g.race[c] = "started" /\ g.time[c] = g.time[d]
    BY <2>1, <2>3 DEF Uniform
  <2> QED BY <1>1, <2>2, <2>3 DEF Uniform
<1>2. /\ (\A c \in A : g.race[c] = "none") => \A c \in B : h.race[c] = "none"
      /\ (\A c \in A : g.race[c] # "started") => \A c \in B : h.race[c] # "started"
  <2>1. \A c \in B : c \in A /\ h.race[c] = g.race[c]
    OBVIOUS
  <2> QED BY <2>1
<1> QED BY <1>1, <1>2 DEF InState

LEMMA NotStarted ==
  ASSUME NEW h, NEW state \in {EMPTY, OPEN}, NEW res, NEW B, \A c \in B : h.race[c] = "none"
  PROVE  InState(h, state, res, B)
<1>1. state \notin {STARTED, UNFINISHABLE} /\ state # FINISHED
  BY StatesFacts
<1>2. \A c \in B : h.race[c] # "started"
  OBVIOUS
<1> QED BY <1>1, <1>2 DEF InState

LEMMA SetForceOk ==
  ASSUME NEW res, NEW ex \in SUBSET Slots, NEW g, Ok(g, res, ex),
         NEW cs \in SUBSET Slots, cs # {}, NEW old \in Teams,
         \A c \in cs : g.team[c] = old, NEW t \in Teams,
         \/ t \in {old, Flock}
         \/ /\ res[t] = NoResult /\ g.state[t] \in {EMPTY, OPEN}
            /\ \A c \in cs : g.race[c] = "none"
  PROVE  Ok(SetForceCharacterTeam(g, cs, t), res, ex)
<1>0. g \in Game
  BY DEF Ok
<1> DEFINE gone == Gone(g, cs, old, t)
           h == SetForceCharacterTeam(g, cs, t)
<1>m. Moved(g, cs, old, t, h)
  BY <1>0, SetForceFacts
<1> HIDE DEF h
<1>1. /\ h \in Game
      /\ h.race = g.race /\ h.time = g.time
      /\ h.locked = IF gone THEN g.locked \ {old} ELSE g.locked
      /\ h.practice = IF gone THEN g.practice \ {old} ELSE g.practice
      /\ h.timer = IF gone THEN g.timer \ {old} ELSE g.timer
      /\ h.invited = IF gone THEN [g.invited EXCEPT ![old] = {}] ELSE g.invited
  BY <1>m DEF Moved
<1>2. h.team = [c \in Slots |-> IF c \in cs THEN t ELSE g.team[c]]
  BY <1>m DEF Moved
<1>3. \A u \in Teams :
        h.state[u] = IF u = t /\ g.state[t] = EMPTY /\ t \notin g.locked THEN OPEN
                       ELSE IF gone /\ u = old THEN EMPTY ELSE g.state[u]
  BY <1>m DEF Moved
<1>4. gone <=> t # old /\ old # Flock /\ \A c \in Slots : g.team[c] = old => c \in cs
  BY DEF Gone, Members
<1> HIDE DEF gone
<1>5. h.state[Flock] \in {EMPTY, OPEN}
  BY <1>3, <1>4, TeamFacts DEF Ok
<1>6. Fresh(h)
  <2> SUFFICES ASSUME NEW u \in OwnTeams PROVE FreshTeam(h, u)
    BY DEF Fresh
  <2>0. u \in Teams /\ u # Flock
    BY TeamFacts
  <2>1. g.invited \in [Teams -> SUBSET Slots] /\ g.team \in [Slots -> Teams]
    BY <1>0 DEF Game
  <2>2. /\ (\E c \in Slots : g.team[c] = u) => g.state[u] # EMPTY
        /\ (\A c \in Slots : g.team[c] # u) =>
             /\ g.state[u] = EMPTY
             /\ u \notin g.locked /\ u \notin g.practice /\ u \notin g.timer
             /\ g.invited[u] = {}
    BY DEF Ok, Fresh, FreshTeam
  <2>3. CASE u = t
    <3>1. \E c \in Slots : h.team[c] = u
      BY <1>2, <2>3
    <3>2. h.state[u] # EMPTY
      BY <1>3, <1>4, <2>0, <2>2, <2>3, StatesFacts
    <3> QED BY <3>1, <3>2 DEF FreshTeam
  <2>4. CASE u # t /\ u = old
    <3>1. CASE gone
      BY <1>1, <1>2, <1>3, <1>4, <2>0, <2>1, <2>4, <3>1 DEF FreshTeam
    <3>2. CASE ~gone
      <4>1. PICK c \in Slots : g.team[c] = old /\ c \notin cs
        BY <1>4, <2>0, <2>4, <3>2
      <4> QED BY <1>2, <1>3, <2>0, <2>2, <2>4, <3>2, <4>1 DEF FreshTeam
    <3> QED BY <3>1, <3>2
  <2>5. CASE u # t /\ u # old
    <3>1. \A c \in Slots : h.team[c] = u <=> g.team[c] = u
      BY <1>2, <2>5
    <3>2. h.state[u] = g.state[u]
      BY <1>3, <2>0, <2>5
    <3>3. /\ u \in h.locked <=> u \in g.locked
          /\ u \in h.practice <=> u \in g.practice
          /\ u \in h.timer <=> u \in g.timer
          /\ h.invited[u] = g.invited[u]
      BY <1>1, <2>0, <2>1, <2>5
    <3> QED BY <2>2, <3>1, <3>2, <3>3 DEF FreshTeam
  <2> QED BY <2>3, <2>4, <2>5
<1>7. Round(h, res, ex)
  <2> SUFFICES ASSUME NEW u \in OwnTeams
               PROVE  InState(h, h.state[u], res[u], Racing(h, u, ex))
    BY DEF Round
  <2>0. u \in Teams /\ u # Flock
    BY TeamFacts
  <2>1. InState(g, g.state[u], res[u], Racing(g, u, ex))
    BY DEF Ok, Round
  <2>2. /\ u = t => h.state[u] = g.state[u] \/ (g.state[u] = EMPTY /\ h.state[u] = OPEN)
        /\ u # t => h.state[u] = g.state[u] \/ (h.state[u] = EMPTY /\ gone /\ u = old)
    BY <1>3, <1>4, <2>0
  <2>3. CASE Racing(h, u, ex) \subseteq Racing(g, u, ex)
    <3>1. CASE h.state[u] = g.state[u]
      BY <1>1, <2>1, <2>3, <3>1, FewerRacing
    <3>2. CASE g.state[u] = EMPTY /\ h.state[u] = OPEN
      <4>1. \A c \in Racing(h, u, ex) : h.race[c] = "none"
        BY <1>1, <2>1, <2>3, <3>2 DEF InState
      <4> QED BY <3>2, <4>1, NotStarted
    <3>3. CASE h.state[u] = EMPTY /\ gone /\ u = old /\ u # t
      <4>1. Racing(h, u, ex) = {}
        BY <1>2, <1>4, <3>3 DEF Racing
      <4> QED BY <3>3, <4>1, NotStarted
    <3> QED BY <2>2, <3>1, <3>2, <3>3
  <2>4. CASE ~(Racing(h, u, ex) \subseteq Racing(g, u, ex))
    <3>1. u = t /\ t # old
      BY <1>1, <1>2, <2>4 DEF Racing
    <3>2. /\ res[u] = NoResult /\ g.state[u] \in {EMPTY, OPEN}
          /\ \A c \in cs : g.race[c] = "none"
      BY <2>0, <3>1
    <3>3. h.state[u] \in {EMPTY, OPEN}
      BY <2>2, <3>1, <3>2
    <3>4. \A c \in Racing(h, u, ex) : h.race[c] = "none"
      BY <1>1, <1>2, <2>1, <3>2 DEF Racing, InState
    <3> QED BY <3>3, <3>4, NotStarted
  <2> QED BY <2>3, <2>4
<1>8. Timed(h, res)
  <2>1. Timed(g, res) /\ g.ended \in SUBSET Slots
    BY DEF Ok, Game
  <2>2. h.ended = g.ended \ cs
    BY <1>m DEF Moved
  <2>3. \A c \in h.ended : c \in g.ended /\ h.team[c] = g.team[c]
    BY <1>2, <2>1, <2>2
  <2>4. Flock \notin h.locked /\ Flock \notin h.practice
    BY <1>1, <2>1 DEF Timed
  <2> QED BY <1>1, <2>1, <2>3, <2>4, SameTimes
<1>9. Ok(h, res, ex)
  BY <1>1, <1>5, <1>6, <1>7, <1>8 DEF Ok
<1> QED BY <1>9 DEF h

-----------------------------------------------------------------------------
(* Where the runs of a game are: with a tee of the flock, with a team, or  *)
(* in a rank; and whether it is for practice.                              *)
Racers(g, ex) == {c \in Slots : g.race[c] = "started" /\ c \notin ex}

Entry(g, c) == [kind |-> IF g.team[c] = Flock THEN "tee" ELSE "team",
                of |-> IF g.team[c] = Flock THEN c ELSE g.team[c],
                run |-> g.time[c],
                practice |-> g.team[c] \in g.practice]

On(g, ex) == {Entry(g, c) : c \in Racers(g, ex)}

RankEntry(run) == [kind |-> "ranked", of |-> 0, run |-> run, practice |-> FALSE]

Ranked(g) == {RankEntry(k.run) : k \in {l \in g.ranks : ~l.saving}}

Entries(g, ex) == On(g, ex) \cup Ranked(g)

(* The run r is in two places. *)
Twice(P, r) == \E p, q \in P : p # q /\ p.run = r /\ q.run = r

(* Each run of Q was one of P, practice remains practice, and no run gets  *)
(* into two places that was in one.                                        *)
Follows(P, Q) ==
  /\ \A q \in Q : \E p \in P : p.run = q.run /\ (p.practice => q.practice)
  /\ \A r : Twice(Q, r) => Twice(P, r)

(* A rank given when the runs are in the places P: for a run that is raced *)
(* and has no rank, or, in a team that is being saved, for none.           *)
NewRank(k, P) ==
  IF k.saving THEN k.tees = {0}
  ELSE k.tees = {k.run} /\ (k.again => Twice(P, k.run))

(* The game goes from g to h, in which the tees ex and x do not count: no  *)
(* run begins, and what ranks are given are such.                          *)
Tame(g, ex, h, x) ==
  /\ Follows(Entries(g, ex), Entries(h, x))
  /\ \A c \in Racers(h, x) : \E d \in Racers(g, ex) : h.time[c] = g.time[d]
  /\ \A c \in Slots : h.time[c] = 0 \/ \E d \in Slots : h.time[c] = g.time[d]
  /\ \A k \in h.ranks : k \in g.ranks \/ NewRank(k, Entries(g, ex))

LEMMA FollowsTrans ==
  ASSUME NEW P, NEW Q, NEW R, Follows(P, Q), Follows(Q, R)
  PROVE  Follows(P, R)
<1>1. ASSUME NEW r \in R PROVE \E p \in P : p.run = r.run /\ (p.practice => r.practice)
  <2>1. PICK q \in Q : q.run = r.run /\ (q.practice => r.practice)
    BY DEF Follows
  <2>2. PICK p \in P : p.run = q.run /\ (p.practice => q.practice)
    BY DEF Follows
  <2> QED BY <2>1, <2>2
<1>2. \A r : Twice(R, r) => Twice(P, r)
  BY DEF Follows
<1> QED BY <1>1, <1>2 DEF Follows

LEMMA FollowsSubset ==
  ASSUME NEW P, NEW Q, Q \subseteq P
  PROVE  Follows(P, Q)
BY DEF Follows, Twice

LEMMA TameTrans ==
  ASSUME NEW g, NEW ex, NEW h, NEW x, NEW k, NEW y, Tame(g, ex, h, x), Tame(h, x, k, y)
  PROVE  Tame(g, ex, k, y)
<1>1. Follows(Entries(g, ex), Entries(h, x)) /\ Follows(Entries(h, x), Entries(k, y))
  BY DEF Tame
<1>2. Follows(Entries(g, ex), Entries(k, y))
  BY <1>1, FollowsTrans
<1>3. \A c \in Racers(k, y) : \E d \in Racers(g, ex) : k.time[c] = g.time[d]
  <2> TAKE c \in Racers(k, y)
  <2>1. PICK b \in Racers(h, x) : k.time[c] = h.time[b]
    BY DEF Tame
  <2>2. PICK d \in Racers(g, ex) : h.time[b] = g.time[d]
    BY DEF Tame
  <2> QED BY <2>1, <2>2
<1>4. \A c \in Slots : k.time[c] = 0 \/ \E d \in Slots : k.time[c] = g.time[d]
  <2> TAKE c \in Slots
  <2>1. CASE k.time[c] = 0
    BY <2>1
  <2>2. CASE k.time[c] # 0
    <3>1. PICK b \in Slots : k.time[c] = h.time[b]
      BY <2>2 DEF Tame
    <3> QED BY <2>2, <3>1 DEF Tame
  <2> QED BY <2>1, <2>2
<1>5. ASSUME NEW r \in k.ranks, r \notin g.ranks
      PROVE  NewRank(r, Entries(g, ex))
  <2>1. CASE r \in h.ranks
    BY <1>5, <2>1 DEF Tame
  <2>2. CASE r \notin h.ranks
    <3>1. NewRank(r, Entries(h, x))
      BY <2>2 DEF Tame
    <3> QED BY <1>1, <3>1 DEF Follows, NewRank
  <2> QED BY <2>1, <2>2
<1> QED BY <1>2, <1>3, <1>4, <1>5 DEF Tame

(* The tees that race in h do so as in g. *)
LEMMA SameRaces ==
  ASSUME NEW g, NEW ex, NEW h, NEW x,
         \A c \in Racers(h, x) : /\ c \in Racers(g, ex) /\ h.team[c] = g.team[c]
                                 /\ h.time[c] = g.time[c]
                                 /\ h.team[c] \in h.practice <=> g.team[c] \in g.practice,
         \A c \in Slots : h.time[c] = 0 \/ h.time[c] = g.time[c],
         h.ranks = g.ranks
  PROVE  Tame(g, ex, h, x)
<1>1. \A c \in Racers(h, x) : Entry(h, c) = Entry(g, c)
  <2> TAKE c \in Racers(h, x)
  <2>1. /\ h.team[c] = g.team[c] /\ h.time[c] = g.time[c]
        /\ (h.team[c] \in h.practice) = (g.team[c] \in g.practice)
    OBVIOUS
  <2> QED BY <2>1 DEF Entry
<1>2. On(h, x) \subseteq On(g, ex)
  BY <1>1 DEF On
<1>3. Follows(Entries(g, ex), Entries(h, x))
  <2>1. Entries(h, x) \subseteq Entries(g, ex)
    BY <1>2 DEF Entries, Ranked
  <2> QED BY <2>1, FollowsSubset
<1>4. \A c \in Racers(h, x) : \E d \in Racers(g, ex) : h.time[c] = g.time[d]
  OBVIOUS
<1> QED BY <1>3, <1>4 DEF Tame

(* The tees that race in h do so as some in g. *)
LEMMA SameEntries ==
  ASSUME NEW g, NEW ex, NEW h, NEW x,
         \A c \in Racers(h, x) : \E d \in Racers(g, ex) : Entry(h, c) = Entry(g, d),
         \A c \in Slots : h.time[c] = 0 \/ \E d \in Slots : h.time[c] = g.time[d],
         h.ranks = g.ranks
  PROVE  Tame(g, ex, h, x)
<1>1. On(h, x) \subseteq On(g, ex)
  BY DEF On
<1>2. Entries(h, x) \subseteq Entries(g, ex)
  BY <1>1 DEF Entries, Ranked
<1>3. Follows(Entries(g, ex), Entries(h, x))
  BY <1>2, FollowsSubset
<1>4. \A c \in Racers(h, x) : \E d \in Racers(g, ex) : h.time[c] = g.time[d]
  <2> TAKE c \in Racers(h, x)
  <2>1. PICK d \in Racers(g, ex) : Entry(h, c) = Entry(g, d)
    OBVIOUS
  <2>2. Entry(h, c).run = h.time[c] /\ Entry(g, d).run = g.time[d]
    BY DEF Entry
  <2> QED BY <2>1, <2>2
<1> QED BY <1>3, <1>4 DEF Tame

LEMMA TameSame ==
  ASSUME NEW g, NEW ex, NEW x, ex \subseteq x
  PROVE  Tame(g, ex, g, x)
<1>1. \A c \in Racers(g, x) : c \in Racers(g, ex)
  BY DEF Racers
<1> QED BY <1>1, SameRaces

(* The tees cs go from one team to another; those that race do not count.  *)
Goes(g, cs, ex, old, t) ==
  /\ g \in Game /\ cs \in SUBSET Slots /\ cs # {} /\ old \in Teams /\ t \in Teams
  /\ \A c \in cs : g.team[c] = old
  /\ t = old \/ \A c \in cs : c \in ex \/ g.race[c] # "started"

(* Tees move to another team that do not race, or do not count. *)
LEMMA SetForceTame ==
  ASSUME NEW g, NEW cs, NEW ex, NEW old, NEW t, Goes(g, cs, ex, old, t)
  PROVE  /\ Tame(g, ex, SetForceCharacterTeam(g, cs, t), ex)
         /\ SetForceCharacterTeam(g, cs, t).ended = g.ended \ cs
<1> DEFINE h == SetForceCharacterTeam(g, cs, t)
           gone == Gone(g, cs, old, t)
<1>0. g \in Game /\ cs \in SUBSET Slots /\ cs # {} /\ old \in Teams /\ t \in Teams
  BY DEF Goes
<1>1. Moved(g, cs, old, t, h)
  BY <1>0, SetForceFacts DEF Goes
<1> HIDE DEF h
<1>2. /\ h.race = g.race /\ h.time = g.time /\ h.ranks = g.ranks /\ h.ended = g.ended \ cs
      /\ h.team = [c \in Slots |-> IF c \in cs THEN t ELSE g.team[c]]
      /\ h.practice = IF gone THEN g.practice \ {old} ELSE g.practice
  BY <1>1 DEF Moved
<1>3. ASSUME NEW c \in Racers(h, ex)
      PROVE  /\ c \in Racers(g, ex) /\ h.team[c] = g.team[c]
             /\ h.team[c] \in h.practice <=> g.team[c] \in g.practice
  <2>1. c \in Slots /\ c \in Racers(g, ex) /\ g.race[c] = "started" /\ c \notin ex
    BY <1>2 DEF Racers
  <2>2. c \in cs => t = old /\ g.team[c] = old
    BY <2>1 DEF Goes
  <2>3. h.team[c] = g.team[c]
    BY <1>2, <2>1, <2>2
  <2>4. gone => g.team[c] # old
    BY <2>1, <2>2 DEF Gone, Members
  <2> QED BY <1>2, <2>1, <2>3, <2>4
<1>4. Tame(g, ex, h, ex)
  BY <1>2, <1>3, SameRaces
<1> QED BY <1>2, <1>4 DEF h

-----------------------------------------------------------------------------
(* The tees of g and h are in the same teams, which are in the same state. *)
SameTeams(g, h) ==
  /\ h.name = g.name /\ h.team = g.team /\ h.state = g.state
  /\ h.locked = g.locked /\ h.practice = g.practice /\ h.timer = g.timer
  /\ h.invited = g.invited

LEMMA SameTeamsOk ==
  ASSUME NEW res, NEW ex, NEW g, Ok(g, res, ex), NEW h \in Game, SameTeams(g, h), NEW x, Timed(h, res),
         \A c \in Slots : \/ h.race[c] = "dead"
                          \/ c \in x
                          \/ g.team[c] = Flock
                          \/ c \notin ex /\ h.race[c] = g.race[c] /\ h.time[c] = g.time[c]
  PROVE  Ok(h, res, x)
<1>1. h.state[Flock] \in {EMPTY, OPEN} /\ Fresh(h)
  BY DEF Ok, SameTeams, Fresh, FreshTeam
<1>2. ASSUME NEW t \in OwnTeams
      PROVE  InState(h, h.state[t], res[t], Racing(h, t, x))
  <2>1. InState(g, g.state[t], res[t], Racing(g, t, ex)) /\ h.state[t] = g.state[t] /\ t # Flock
    BY TeamFacts DEF Ok, Round, SameTeams
  <2>2. ASSUME NEW c \in Racing(h, t, x)
        PROVE  c \in Racing(g, t, ex) /\ h.race[c] = g.race[c] /\ h.time[c] = g.time[c]
    BY <2>1 DEF Racing, SameTeams
  <2>3. Racing(h, t, x) \subseteq Racing(g, t, ex)
    BY <2>2
  <2> QED BY <2>1, <2>2, <2>3, FewerRacing
<1> QED BY <1>1, <1>2 DEF Ok, Round

LEMMA SetRaceFacts ==
  ASSUME NEW g \in Game, NEW cs \in SUBSET Slots, NEW race \in Races, NEW time \in Nat
  PROVE  LET h == SetRace(g, cs, race, time) IN
         /\ h \in Game /\ SameTeams(g, h)
         /\ h.race = [c \in Slots |-> IF c \in cs THEN race ELSE g.race[c]]
         /\ h.time = [c \in Slots |-> IF c \in cs THEN time ELSE g.time[c]]
         /\ h.begun = g.begun /\ h.ended = g.ended /\ h.ranks = g.ranks
<1> DEFINE r == [c \in Slots |-> IF c \in cs THEN race ELSE g.race[c]]
           k == [c \in Slots |-> IF c \in cs THEN time ELSE g.time[c]]
           h == SetRace(g, cs, race, time)
<1>1. h = [g EXCEPT !.race = r, !.time = k]
  BY DEF SetRace
<1>2. r \in [Slots -> Races] /\ k \in [Slots -> Nat]
  BY DEF Game
<1>3. r = [c \in Slots |-> IF c \in cs THEN race ELSE g.race[c]]
      /\ k = [c \in Slots |-> IF c \in cs THEN time ELSE g.time[c]]
  OBVIOUS
<1> HIDE DEF r, k, h
<1>4. h \in Game
  BY <1>1, <1>2 DEF Game
<1>5. SameTeams(g, h) /\ h.race = r /\ h.time = k
      /\ h.begun = g.begun /\ h.ended = g.ended /\ h.ranks = g.ranks
  BY <1>1, <1>2 DEF SameTeams, Game
<1> QED BY <1>3, <1>4, <1>5 DEF h

LEMMA DeadOk ==
  ASSUME NEW res, NEW ex, NEW g, Ok(g, res, ex), NEW cs \in SUBSET Slots,
         \A c \in cs : c \in g.ended /\ g.team[c] # Flock => res[g.team[c]].kind = "save"
  PROVE  /\ Ok(Dead(g, cs), res, ex \ cs)
         /\ SameTeams(g, Dead(g, cs)) /\ Kept(g, Dead(g, cs))
         /\ Dead(g, cs).ended = g.ended /\ Tame(g, ex, Dead(g, cs), ex \ cs)
         /\ \A c \in cs : Dead(g, cs).race[c] = "dead"
<1>1. g \in Game /\ "dead" \in Races /\ 0 \in Nat
  BY DEF Ok, Races
<1> DEFINE h == Dead(g, cs)
<1>2. /\ h \in Game /\ SameTeams(g, h)
      /\ h.race = [c \in Slots |-> IF c \in cs THEN "dead" ELSE g.race[c]]
      /\ h.time = [c \in Slots |-> IF c \in cs THEN 0 ELSE g.time[c]]
      /\ h.ended = g.ended /\ h.ranks = g.ranks
  BY <1>1, SetRaceFacts DEF Dead
<1> HIDE DEF h
<1>3. ASSUME NEW c \in Slots
      PROVE  \/ h.race[c] = "dead"
             \/ c \in ex \ cs
             \/ c \notin ex /\ h.race[c] = g.race[c] /\ h.time[c] = g.time[c]
  BY <1>2
<1>4. Timed(h, res)
  <2>1. Timed(g, res) /\ g.ended \in SUBSET Slots
    BY <1>1 DEF Ok, Game
  <2>2. Clocks(h)
    BY <1>2, <2>1 DEF Timed, Clocks
  <2>3. Arrived(h, res)
    BY <1>2, <2>1 DEF Timed, Arrived, SameTeams
  <2> QED BY <1>2, <2>1, <2>2, <2>3 DEF Timed, SameTeams
<1>5. Ok(h, res, ex \ cs)
  BY <1>2, <1>3, <1>4, SameTeamsOk
<1>6. Kept(g, h) /\ \A c \in cs : h.race[c] = "dead"
  BY <1>2 DEF Kept, SameTeams
<1>7. Tame(g, ex, h, ex \ cs)
  <2>1. \A c \in Racers(h, ex \ cs) : /\ c \in Racers(g, ex) /\ h.team[c] = g.team[c]
                                       /\ h.time[c] = g.time[c]
    BY <1>2 DEF Racers, SameTeams
  <2>2. \A c \in Slots : h.time[c] \in {0, g.time[c]}
    BY <1>2
  <2>3. h.practice = g.practice
    BY <1>2 DEF SameTeams
  <2> QED BY <1>2, <2>1, <2>2, <2>3, SameRaces
<1> QED BY <1>2, <1>5, <1>6, <1>7 DEF h

(* The rank the tees cs get *)
RankOf(g, cs, saving) ==
  [run |-> g.time[Min(cs)], tees |-> {g.time[c] : c \in cs},
   again |-> \E k \in g.ranks : k.run = g.time[Min(cs)] /\ ~k.saving,
   saving |-> saving]

RanksOf(g, cs, saving) == g.ranks \cup {RankOf(g, cs, saving)}

(* h is g when the tees cs have finished and the ranks are these. *)
Finished(g, cs, ranks, h) ==
  /\ h \in Game /\ SameTeams(g, h)
  /\ h.race = [c \in Slots |-> IF c \in cs THEN "finished" ELSE g.race[c]]
  /\ h.time = g.time /\ h.begun = g.begun /\ h.ended = g.ended
  /\ h.ranks = ranks

LEMMA OnFinishFacts ==
  ASSUME NEW g \in Game, NEW cs \in SUBSET Slots, cs # {}, NEW saving \in BOOLEAN
  PROVE  /\ Finished(g, cs, RanksOf(g, cs, saving), OnFinish(g, cs, saving))
         /\ Finished(g, cs, g.ranks, Finish(g, cs))
<1> DEFINE r == [c \in Slots |-> IF c \in cs THEN "finished" ELSE g.race[c]]
           f == Finish(g, cs)
           run == g.time[Min(cs)]
           rank == [run |-> run, tees |-> {g.time[c] : c \in cs},
                    again |-> \E k \in g.ranks : k.run = run /\ ~k.saving,
                    saving |-> saving]
           ranks == f.ranks \cup {rank}
           h == OnFinish(g, cs, saving)
<1>1. r \in [Slots -> Races]
  BY DEF Game, Races
<1>2. f = [g EXCEPT !.race = r]
  BY DEF Finish
<1>3. rank \in Rank
  <2>1. Min(cs) \in Slots
    BY MinMaxSlot
  <2>2. g.time \in [Slots -> Nat]
    BY DEF Game
  <2>3. run \in Nat /\ {g.time[c] : c \in cs} \in SUBSET Nat
    BY <2>1, <2>2
  <2>4. (\E k \in g.ranks : k.run = run /\ ~k.saving) \in BOOLEAN
    OBVIOUS
  <2> QED BY <2>3, <2>4 DEF Rank
<1>4. h = [f EXCEPT !.ranks = ranks]
  BY DEF OnFinish
<1>5. r = [c \in Slots |-> IF c \in cs THEN "finished" ELSE g.race[c]]
  OBVIOUS
<1> HIDE DEF r, f
<1>6. /\ f \in Game /\ SameTeams(g, f) /\ f.race = r
      /\ f.time = g.time /\ f.begun = g.begun /\ f.ended = g.ended /\ f.ranks = g.ranks
  BY <1>1, <1>2 DEF SameTeams, Game
<1> HIDE DEF rank
<1>7. ranks \in SUBSET Rank
  BY <1>3, <1>6 DEF Game
<1> HIDE DEF ranks, h
<1>8. h \in Game
  BY <1>4, <1>6, <1>7 DEF Game
<1>9. /\ SameTeams(g, h) /\ h.race = r /\ h.time = g.time /\ h.begun = g.begun
      /\ h.ended = g.ended /\ h.ranks = ranks
  BY <1>4, <1>6 DEF SameTeams, Game
<1>10. ranks = RanksOf(g, cs, saving)
  BY <1>6 DEF ranks, rank, RankOf, RanksOf
<1> QED BY <1>5, <1>6, <1>8, <1>9, <1>10 DEF h, f, Finished

LEMMA SetForceKept ==
  ASSUME NEW g \in Game, NEW cs \in SUBSET Slots, cs # {}, NEW old \in Teams,
         \A c \in cs : g.team[c] = old, NEW t \in {old, Flock}
  PROVE  Kept(g, SetForceCharacterTeam(g, cs, t))
<1> DEFINE h == SetForceCharacterTeam(g, cs, t)
<1>1. Moved(g, cs, old, t, h)
  BY SetForceFacts, TeamFacts
<1> HIDE DEF h
<1>2. /\ h.name = g.name /\ h.race = g.race
      /\ h.team = [c \in Slots |-> IF c \in cs THEN t ELSE g.team[c]]
  BY <1>1 DEF Moved
<1>3. Kept(g, h)
  BY <1>2 DEF Kept
<1> QED BY <1>3 DEF h

(* A team's tees have finished. *)
LEMMA FinishedOk ==
  ASSUME NEW res, NEW ex, NEW g, Ok(g, res, ex), NEW t \in OwnTeams, g.state[t] = STARTED,
         Playing(g, t) # {}, NEW f \in Game,
         f.team = g.team, f.locked = g.locked, f.practice = g.practice,
         f.timer = g.timer, f.invited = g.invited,
         f.state = [g.state EXCEPT ![t] = FINISHED], f.time = g.time,
         f.race = [c \in Slots |-> IF c \in Playing(g, t) THEN "finished" ELSE g.race[c]],
         f.ended = g.ended \ Playing(g, t)
  PROVE  Ok(f, res, ex)
<1>0. t \in Teams /\ t # Flock /\ g.state \in [Teams -> States] /\ g.team \in [Slots -> Teams]
  BY TeamFacts DEF Ok, Game
<1>1. f.state[Flock] \in {EMPTY, OPEN}
  BY <1>0, TeamFacts DEF Ok
<1>2. \A u \in OwnTeams : f.state[u] = IF u = t THEN FINISHED ELSE g.state[u]
  BY <1>0, TeamFacts
<1>3. ASSUME NEW u \in OwnTeams PROVE FreshTeam(f, u)
  <2>1. FreshTeam(g, u)
    BY DEF Ok, Fresh
  <2>2. CASE u = t
    <3>1. f.state[u] # EMPTY
      BY <1>2, <2>2, StatesFacts
    <3>2. \E c \in Slots : f.team[c] = u
      BY <2>2 DEF Playing, Members
    <3> QED BY <3>1, <3>2 DEF FreshTeam
  <2>3. CASE u # t
    <3>1. f.state[u] = g.state[u]
      BY <1>2, <2>3
    <3> QED BY <2>1, <3>1 DEF FreshTeam
  <2> QED BY <2>2, <2>3
<1>4. ASSUME NEW u \in OwnTeams
      PROVE  InState(f, f.state[u], res[u], Racing(f, u, ex))
  <2>1. InState(g, g.state[u], res[u], Racing(g, u, ex))
    BY DEF Ok, Round
  <2>2. CASE u = t
    <3>1. f.state[u] = FINISHED
      BY <1>2, <2>2
    <3>2. \A c \in Racing(f, u, ex) : f.race[c] = "finished"
      BY <2>2 DEF Racing, Playing, Members, Alive
    <3>3. \A c \in Racing(f, u, ex) : f.race[c] # "started"
      BY <3>2
    <3>4. res[u] # NoResult => res[u].kind # "load"
      BY <2>1, <2>2, StatesFacts DEF InState
    <3>5. FINISHED \notin {EMPTY, OPEN, STARTED, UNFINISHABLE}
      BY StatesFacts
    <3> QED BY <3>1, <3>3, <3>4, <3>5 DEF InState
  <2>3. CASE u # t
    <3>1. f.state[u] = g.state[u]
      BY <1>2, <2>3
    <3>2. \A c \in Racing(f, u, ex) :
            c \in Racing(g, u, ex) /\ f.race[c] = g.race[c] /\ f.time[c] = g.time[c]
      BY <2>3 DEF Racing, Playing, Members
    <3>3. Racing(f, u, ex) \subseteq Racing(g, u, ex)
      BY <3>2
    <3> QED BY <2>1, <3>1, <3>2, <3>3, FewerRacing
  <2> QED BY <2>2, <2>3
<1>5. Timed(f, res)
  <2>1. Timed(g, res) /\ g.ended \in SUBSET Slots
    BY DEF Ok, Game
  <2>2. Clocks(f)
    BY <2>1 DEF Timed, Clocks
  <2>3. Arrived(f, res)
    BY <2>1 DEF Timed, Arrived
  <2> QED BY <2>1, <2>2, <2>3 DEF Timed
<1> QED BY <1>1, <1>3, <1>4, <1>5 DEF Ok, Fresh, Round

(* The tees cs of one entry, and no others, get a rank. *)
LEMMA RankTame ==
  ASSUME NEW g \in Game, NEW ex, NEW cs \in SUBSET Slots, NEW e, NEW h,
         cs # {}, h.ranks = RanksOf(g, cs, FALSE),
         h.team = g.team, h.time = g.time, h.practice = g.practice,
         \A c \in Slots : h.race[c] = IF c \in cs THEN "finished" ELSE g.race[c],
         \A c \in cs : c \in Racers(g, ex),
         \A c \in Racers(g, ex) : Entry(g, c) = e <=> c \in cs,
         e.kind # "ranked", ~e.practice
  PROVE  Tame(g, ex, h, ex)
<1> DEFINE run == e.run
           P == Entries(g, ex)
           Q == Entries(h, ex)
<1>1. \A c \in cs : Entry(g, c) = e /\ g.time[c] = run
  BY DEF Entry
<1>2. Min(cs) \in cs
  BY MinMaxSlot
<1>3. e \in P
  BY <1>1, <1>2 DEF Entries, On
<1>4. /\ RankOf(g, cs, FALSE).run = run /\ RankOf(g, cs, FALSE).tees = {run}
      /\ ~RankOf(g, cs, FALSE).saving
  <2>1. g.time[Min(cs)] = run
    BY <1>1, <1>2
  <2>2. {g.time[c] : c \in cs} = {run}
    BY <1>1, <1>2
  <2> QED BY <2>1, <2>2 DEF RankOf
<1>5. RankOf(g, cs, FALSE).again => Twice(P, run)
  <2> SUFFICES ASSUME NEW k \in g.ranks, k.run = run, ~k.saving PROVE Twice(P, run)
    BY <1>1, <1>2 DEF RankOf
  <2>1. RankEntry(run) \in P
    BY DEF Entries, Ranked
  <2>2. RankEntry(run).kind = "ranked" /\ RankEntry(run).run = run
    BY DEF RankEntry
  <2> QED BY <1>3, <2>1, <2>2 DEF Twice
<1>9. \A k \in h.ranks : k \in g.ranks \/ k = RankOf(g, cs, FALSE)
  BY DEF RanksOf
<1>6. ASSUME NEW c \in Racers(h, ex)
      PROVE  c \in Racers(g, ex) /\ Entry(h, c) = Entry(g, c) /\ Entry(g, c) # e
  <2>1. c \in Racers(g, ex) /\ c \notin cs
    BY DEF Racers
  <2> QED BY <2>1 DEF Entry
<1>7. \A q \in Q : q \in P \ {e} \/ q = RankEntry(run)
  <2>1. \A q \in On(h, ex) : q \in On(g, ex) \ {e}
    BY <1>6 DEF On
  <2>2. \A q \in Ranked(h) : q \in Ranked(g) \/ q = RankEntry(run)
    BY <1>4, <1>9 DEF Ranked
  <2>3. \A q \in Ranked(g) : q # e
    BY DEF Ranked, RankEntry
  <2> QED BY <2>1, <2>2, <2>3 DEF Entries
<1>8. RankEntry(run).run = run
  BY DEF RankEntry
<1>10. \A c \in Racers(h, ex) : \E d \in Racers(g, ex) : h.time[c] = g.time[d]
  BY <1>6
<1> HIDE DEF P, Q, run
<1>11. Follows(P, Q)
  <2>1. \A q \in Q : \E p \in P : p.run = q.run /\ (p.practice => q.practice)
    BY <1>3, <1>7, <1>8 DEF run
  <2>2. ASSUME NEW r, NEW q1 \in Q, NEW q2 \in Q, q1 # q2, q1.run = r, q2.run = r
        PROVE  Twice(P, r)
    <3>1. CASE q1 \in P \ {e} /\ q2 \in P \ {e}
      BY <2>2, <3>1 DEF Twice
    <3>2. CASE q1 = RankEntry(run) /\ q2 \in P \ {e}
      BY <1>3, <1>8, <2>2, <3>2 DEF Twice, run
    <3>3. CASE q1 \in P \ {e} /\ q2 = RankEntry(run)
      BY <1>3, <1>8, <2>2, <3>3 DEF Twice, run
    <3> QED BY <1>7, <2>2, <3>1, <3>2, <3>3
  <2> QED BY <2>1, <2>2 DEF Follows, Twice
<1>12. NewRank(RankOf(g, cs, FALSE), P)
  BY <1>4, <1>5 DEF NewRank
<1> QED BY <1>9, <1>10, <1>11, <1>12 DEF Tame, P, Q

(* Tees that have not started get a rank while their team is being saved.  *)
LEMMA SavingTame ==
  ASSUME NEW g \in Game, NEW ex, NEW cs \in SUBSET Slots, NEW h,
         cs # {}, h.ranks = RanksOf(g, cs, TRUE),
         h.team = g.team, h.time = g.time, h.practice = g.practice,
         \A c \in Slots : h.race[c] = IF c \in cs THEN "finished" ELSE g.race[c],
         \A c \in cs : g.time[c] = 0
  PROVE  Tame(g, ex, h, ex)
<1>1. RankOf(g, cs, TRUE).tees = {0} /\ RankOf(g, cs, TRUE).saving
  <2>1. {g.time[c] : c \in cs} = {0}
    OBVIOUS
  <2> QED BY <2>1 DEF RankOf
<1>2. NewRank(RankOf(g, cs, TRUE), Entries(g, ex))
  BY <1>1 DEF NewRank
<1>3. Ranked(h) = Ranked(g)
  BY <1>1 DEF RanksOf, Ranked
<1>4. \A c \in Racers(h, ex) : c \in Racers(g, ex) /\ Entry(h, c) = Entry(g, c)
  BY DEF Racers, Entry
<1>5. Entries(h, ex) \subseteq Entries(g, ex)
  BY <1>3, <1>4 DEF Entries, On
<1>6. Follows(Entries(g, ex), Entries(h, ex))
  BY <1>5, FollowsSubset
<1> QED BY <1>2, <1>4, <1>6 DEF Tame, RanksOf

LEMMA CheckOk ==
  ASSUME NEW ex \in SUBSET Slots, NEW g, Ok(g, result, ex), NEW t \in Teams
  PROVE  /\ Ok(CheckTeamFinished(g, t), result, ex)
         /\ Kept(g, CheckTeamFinished(g, t))
         /\ CheckTeamFinished(g, t).ended \subseteq g.ended
         /\ (t # Flock => ex \cap Members(g, t) = {}) => Tame(g, ex, CheckTeamFinished(g, t), ex)
<1> DEFINE players == Playing(g, t)
           done == [g EXCEPT !.begun = @ \ players, !.ended = @ \ players,
                             !.state[t] = FINISHED]
           finished == Finish(done, players)
           ranked == OnFinish(done, players, Saving(t))
           left == SetForceCharacterTeam(ranked, players, Flock)
           h == CheckTeamFinished(g, t)
           out == t # Flock => ex \cap Members(g, t) = {}
           All(k) == /\ Ok(k, result, ex) /\ Kept(g, k) /\ k.ended \subseteq g.ended
                     /\ out => Tame(g, ex, k, ex)
<1>0. g \in Game /\ g.team \in [Slots -> Teams] /\ g.state \in [Teams -> States]
  BY DEF Ok, Game
<1>1. All(g)
  BY SameRaces DEF Kept
<1>2. CASE ~TeamFinished(g, t) \/ players = {}
  <2>1. h = g
    BY <1>2 DEF CheckTeamFinished
  <2> QED BY <1>1, <2>1
<1>3. CASE TeamFinished(g, t) /\ players # {}
  <2>1. t \in OwnTeams /\ g.state[t] = STARTED
    BY <1>3, StatesFacts, TeamFacts DEF TeamFinished, Ok
  <2>2. players \in SUBSET Slots
    BY DEF Playing, Members
  <2>3. h = IF t \in g.practice THEN finished ELSE IF t \in g.locked THEN ranked ELSE left
    BY <1>3 DEF CheckTeamFinished
  <2> HIDE DEF players
  <2>4. /\ done \in Game /\ done.name = g.name /\ done.team = g.team
        /\ done.state = [g.state EXCEPT ![t] = FINISHED]
        /\ done.locked = g.locked /\ done.practice = g.practice
        /\ done.timer = g.timer /\ done.invited = g.invited
        /\ done.race = g.race /\ done.time = g.time
        /\ done.ended = g.ended \ players /\ done.ranks = g.ranks
    BY <1>0, <2>2, StatesFacts DEF Game
  <2> HIDE DEF done
  <2> DEFINE saving == Saving(t)
  <2>s. saving \in BOOLEAN
    BY DEF Saving
  <2>r. ranked = OnFinish(done, players, saving)
    OBVIOUS
  <2> HIDE DEF saving
  <2>g. done \in Game /\ players # {}
    BY <1>3, <2>4
  <2>f. /\ Finished(done, players, RanksOf(done, players, saving),
                    OnFinish(done, players, saving))
        /\ Finished(done, players, done.ranks, Finish(done, players))
    BY <2>2, <2>s, <2>g, OnFinishFacts, Zenon
  <2>5. /\ ranked \in Game /\ SameTeams(done, ranked)
        /\ ranked.race = [c \in Slots |-> IF c \in players THEN "finished" ELSE done.race[c]]
        /\ ranked.time = done.time /\ ranked.ended = done.ended
        /\ ranked.ranks = RanksOf(done, players, saving)
    <3> HIDE DEF ranked
    <3> QED BY <2>r, <2>f DEF Finished
  <2>6. /\ finished \in Game /\ SameTeams(done, finished)
        /\ finished.race = [c \in Slots |-> IF c \in players THEN "finished" ELSE done.race[c]]
        /\ finished.time = done.time /\ finished.ended = done.ended
        /\ finished.ranks = done.ranks
    BY <2>f DEF Finished
  <2> HIDE DEF ranked, finished
  <2>7. ASSUME NEW f \in Game, SameTeams(done, f), f.time = done.time, f.ended = done.ended,
               f.race = [c \in Slots |-> IF c \in players THEN "finished" ELSE done.race[c]]
        PROVE  /\ Ok(f, result, ex) /\ Kept(g, f) /\ f.ended \subseteq g.ended
               /\ f.ranks = g.ranks => Tame(g, ex, f, ex)
    <3>1. Ok(f, result, ex)
      <4>1. /\ f.team = g.team /\ f.locked = g.locked /\ f.practice = g.practice
            /\ f.timer = g.timer /\ f.invited = g.invited
            /\ f.state = [g.state EXCEPT ![t] = FINISHED] /\ f.time = g.time
        BY <2>4, <2>7 DEF SameTeams
      <4>2. /\ f.race = [c \in Slots |-> IF c \in Playing(g, t) THEN "finished" ELSE g.race[c]]
            /\ f.ended = g.ended \ Playing(g, t)
        BY <2>4, <2>7 DEF players
      <4>3. Playing(g, t) # {}
        BY <1>3 DEF players
      <4> QED BY <2>1, <4>1, <4>2, <4>3, FinishedOk
    <3>2. \A c \in players : g.race[c] # "dead"
      BY DEF players, Playing, Alive
    <3>3. \A c \in Slots : g.race[c] = "dead" => f.race[c] = "dead"
      BY <2>4, <2>7, <3>2
    <3>4. Kept(g, f)
      BY <2>4, <2>7, <3>3 DEF Kept, SameTeams
    <3>5. f.ended \subseteq g.ended
      BY <2>4, <2>7
    <3>6. ASSUME f.ranks = g.ranks PROVE Tame(g, ex, f, ex)
      <4>1. \A c \in Racers(f, ex) : c \in Racers(g, ex)
        BY <2>4, <2>7 DEF Racers
      <4> QED BY <2>4, <2>7, <3>6, <4>1, SameRaces DEF SameTeams
    <3> QED BY <3>1, <3>4, <3>5, <3>6
  <2>8. All(finished)
    BY <2>4, <2>6, <2>7
  <2>v. saving <=> Saving(t)
    BY DEF saving
  <2>p. ASSUME t \notin g.practice PROVE All(ranked)
    <3>1. Ok(ranked, result, ex) /\ Kept(g, ranked) /\ ranked.ended \subseteq g.ended
      BY <2>5, <2>7
    <3>a. out => t # Flock /\ Members(g, t) \subseteq g.ended /\ ex \cap Members(g, t) = {}
      BY <1>3, <2>1, TeamFacts DEF TeamFinished
    <3>b. out => \A c \in players : /\ c \in Slots /\ g.team[c] = t /\ c \notin ex
                                    /\ g.race[c] # "dead"
      BY <3>a DEF players, Playing, Members, Alive
    <3>c. InState(g, STARTED, result[t], Racing(g, t, ex))
      BY <2>1 DEF Ok, Round
    <3>d. RankOf(done, players, saving) = RankOf(g, players, saving)
      BY <2>4 DEF RankOf
    <3>e. /\ ranked.ranks = RanksOf(g, players, saving)
          /\ ranked.team = g.team /\ ranked.time = g.time /\ ranked.practice = g.practice
          /\ \A c \in Slots : ranked.race[c] = IF c \in players THEN "finished" ELSE g.race[c]
      BY <2>4, <2>5, <3>d DEF SameTeams, RanksOf
    <3>2. CASE saving /\ out
      <4>1. \A c \in players : c \in Racing(g, t, ex) /\ g.race[c] # "started"
        <5>1. \A c \in players : c \in Racing(g, t, ex)
          BY <3>2, <3>b DEF Racing
        <5>2. \A c \in Racing(g, t, ex) : g.race[c] # "started"
          BY <2>v, <3>2, <3>c DEF InState, Saving
        <5> QED BY <5>1, <5>2
      <4>2. Uniform(g, Racing(g, t, ex))
        BY <3>c DEF InState
      <4>3. \A c \in players : g.race[c] = "none"
        BY <4>1, <4>2 DEF Uniform
      <4>4. \A c \in players : g.time[c] = 0
        BY <2>2, <4>3 DEF Ok, Timed, Clocks
      <4>5. saving = TRUE
        BY <3>2, <2>s
      <4> HIDE DEF out
      <4>6. Tame(g, ex, ranked, ex)
        BY <1>0, <1>3, <2>2, <3>e, <4>4, <4>5, SavingTame
      <4> QED BY <3>1, <4>6
    <3>3. CASE ~saving /\ out
      <4>1. t # Flock /\ Members(g, t) \subseteq g.ended /\ ex \cap Members(g, t) = {}
        BY <3>3, <3>a
      <4>2. \A c \in players : c \in Slots /\ g.team[c] = t /\ g.race[c] # "dead" /\ c \notin ex
        BY <3>3, <3>b
      <4>3. \A c \in players : c \in Racing(g, t, ex) /\ g.race[c] = "started"
        <5>1. result[t].kind # "save"
          BY <2>v, <3>3 DEF Saving, NoResult
        <5>2. \A c \in players : c \in g.ended
          BY <4>1, <4>2 DEF Members
        <5>3. \A c \in players : g.race[c] = "started"
          BY <4>1, <4>2, <5>1, <5>2 DEF Ok, Timed, Arrived
        <5> QED BY <4>2, <5>3 DEF Racing
      <4>4. \A c, d \in players : g.time[c] = g.time[d]
        <5>1. Uniform(g, Racing(g, t, ex))
          BY <3>c DEF InState
        <5> QED BY <4>3, <5>1 DEF Uniform
      <4>5. PICK m \in players : TRUE
        BY <1>3
      <4> DEFINE e == Entry(g, m)
      <4>6. \A c \in players : c \in Racers(g, ex)
        BY <4>2, <4>3 DEF Racers
      <4>7. \A c \in Racers(g, ex) : Entry(g, c) = e <=> c \in players
        <5>1. ASSUME NEW c \in players PROVE Entry(g, c) = e
          <6>1. g.team[c] = t /\ g.team[m] = t /\ g.time[c] = g.time[m]
            BY <4>2, <4>4
          <6> QED BY <4>1, <6>1 DEF Entry
        <5>2. ASSUME NEW c \in Racers(g, ex), Entry(g, c) = e PROVE c \in players
          <6>1. e.kind = "team" /\ e.of = t
            BY <4>1, <4>2 DEF Entry
          <6>2. g.team[c] = t
            BY <5>2, <6>1 DEF Entry
          <6>3. c \in Slots /\ g.race[c] # "dead"
            BY DEF Racers
          <6> QED BY <6>2, <6>3 DEF players, Playing, Members, Alive
        <5> QED BY <5>1, <5>2
      <4>8. e.kind # "ranked" /\ ~e.practice
        BY <2>p, <4>1, <4>2 DEF Entry
      <4>9. saving = FALSE
        BY <3>3, <2>s
      <4> HIDE DEF e, out
      <4>11. Tame(g, ex, ranked, ex)
        BY <1>0, <1>3, <2>2, <3>e, <4>6, <4>7, <4>8, <4>9, RankTame
      <4> QED BY <3>1, <4>11
    <3> QED BY <3>1, <3>2, <3>3
  <2>9. ASSUME t \notin g.practice PROVE All(left)
    <3>1. players # {} /\ \A c \in players : ranked.team[c] = t
      BY <1>3, <2>4, <2>5 DEF players, Playing, Members, SameTeams
    <3>2. Ok(left, result, ex)
      BY <2>2, <2>9, <2>p, <3>1, SetForceOk, TeamFacts
    <3>3. Kept(ranked, left)
      BY <2>2, <2>5, <3>1, SetForceKept, TeamFacts
    <3>4. left.ended \subseteq ranked.ended /\ Tame(ranked, ex, left, ex)
      <4>2. t \in Teams /\ Flock \in Teams /\ ranked \in Game
        BY <2>1, <2>5, TeamFacts
      <4>1. Goes(ranked, players, ex, t, Flock)
        BY <2>2, <2>5, <3>1, <4>2 DEF Goes
      <4>3. Tame(ranked, ex, left, ex) /\ left.ended = ranked.ended \ players
        BY <4>1, SetForceTame, Zenon
      <4> QED BY <4>3
    <3> QED BY <2>9, <2>p, <3>2, <3>3, <3>4, KeptTrans, TameTrans
  <2>10. h = finished \/ (t \notin g.practice /\ h \in {ranked, left})
    BY <2>3
  <2> HIDE DEF All, h
  <2>11. All(h)
    BY <2>8, <2>p, <2>9, <2>10
  <2> QED BY <2>11 DEF All, h
<1> QED BY <1>2, <1>3

(* More tees may be excepted. *)
LEMMA MoreExcepted ==
  ASSUME NEW res, NEW ex, NEW g, Ok(g, res, ex), NEW x, ex \subseteq x
  PROVE  Ok(g, res, x)
<1>1. SameTeams(g, g) /\ g \in Game /\ Timed(g, res)
  BY DEF SameTeams, Ok
<1>2. \A c \in Slots : c \in x \/ c \notin ex
  OBVIOUS
<1> QED BY <1>1, <1>2, SameTeamsOk

LEMMA CalmOk ==
  ASSUME NEW res, NEW ex, NEW g, Ok(g, res, ex), NEW cs
  PROVE  /\ Ok([g EXCEPT !.voted = @ \ cs], res, ex)
         /\ SameTeams(g, [g EXCEPT !.voted = @ \ cs])
         /\ [g EXCEPT !.voted = @ \ cs].race = g.race
         /\ Kept(g, [g EXCEPT !.voted = @ \ cs])
         /\ [g EXCEPT !.voted = @ \ cs].ended = g.ended
         /\ Tame(g, ex, [g EXCEPT !.voted = @ \ cs], ex)
<1> DEFINE h == [g EXCEPT !.voted = @ \ cs]
<1>1. /\ h \in Game /\ SameTeams(g, h) /\ h.race = g.race /\ h.time = g.time
      /\ h.ended = g.ended /\ h.ranks = g.ranks
  BY DEF Ok, Game, SameTeams
<1> HIDE DEF h
<1>2. Timed(h, res)
  BY <1>1, SameTimes DEF Ok, Timed, SameTeams
<1>3. Ok(h, res, ex)
  BY <1>1, <1>2, SameTeamsOk
<1>4. Kept(g, h)
  BY <1>1 DEF Kept, SameTeams
<1>5. Tame(g, ex, h, ex)
  BY <1>1, SameRaces DEF SameTeams, Racers
<1> QED BY <1>1, <1>3, <1>4, <1>5 DEF h

(* A locked team whose tees all die is open again. *)
Reopened(g, t) == [g EXCEPT !.state[t] = OPEN, !.practice = @ \ {t}]

LEMMA ReopenedOk ==
  ASSUME NEW res, NEW ex, NEW g, Ok(g, res, ex), NEW t \in Teams,
         Members(g, t) # {}, Playing(g, t) \subseteq ex
  PROVE  /\ Ok(Reopened(g, t), res, ex)
         /\ Reopened(g, t).name = g.name /\ Reopened(g, t).team = g.team
         /\ Reopened(g, t).race = g.race /\ Kept(g, Reopened(g, t))
         /\ Reopened(g, t).ended = g.ended /\ Tame(g, ex, Reopened(g, t), ex)
<1> DEFINE h == Reopened(g, t)
<1>0. g \in Game /\ g.state \in [Teams -> States]
  BY DEF Ok, Game
<1>1. /\ h \in Game
      /\ h.name = g.name /\ h.team = g.team /\ h.race = g.race /\ h.time = g.time
      /\ h.locked = g.locked /\ h.timer = g.timer /\ h.invited = g.invited
      /\ h.ended = g.ended /\ h.ranks = g.ranks
      /\ h.practice = g.practice \ {t} /\ h.state = [g.state EXCEPT ![t] = OPEN]
  BY <1>0, StatesFacts DEF Reopened, Game
<1> HIDE DEF h
<1>2. \A u \in Teams : h.state[u] = IF u = t THEN OPEN ELSE g.state[u]
  BY <1>0, <1>1
<1>3. h.state[Flock] \in {EMPTY, OPEN}
  BY <1>2, TeamFacts DEF Ok
<1>4. ASSUME NEW u \in OwnTeams PROVE FreshTeam(h, u)
  <2>1. FreshTeam(g, u) /\ u \in Teams
    BY TeamFacts DEF Ok, Fresh
  <2>2. CASE u = t
    <3>1. h.state[u] # EMPTY
      BY <1>2, <2>1, <2>2, StatesFacts
    <3>2. \E c \in Slots : h.team[c] = u
      BY <1>1, <2>2 DEF Members
    <3> QED BY <3>1, <3>2 DEF FreshTeam
  <2>3. CASE u # t
    <3>1. h.state[u] = g.state[u] /\ (u \in h.practice <=> u \in g.practice)
      BY <1>1, <1>2, <2>1, <2>3
    <3> QED BY <1>1, <2>1, <3>1 DEF FreshTeam
  <2> QED BY <2>2, <2>3
<1>5. ASSUME NEW u \in OwnTeams
      PROVE  InState(h, h.state[u], res[u], Racing(h, u, ex))
  <2>1. InState(g, g.state[u], res[u], Racing(g, u, ex)) /\ u \in Teams
    BY TeamFacts DEF Ok, Round
  <2>2. Racing(h, u, ex) = Racing(g, u, ex)
    BY <1>1 DEF Racing
  <2>3. CASE u = t
    <3>1. Racing(h, u, ex) = {}
      BY <2>2, <2>3 DEF Racing, Playing, Members, Alive
    <3>2. h.state[u] = OPEN
      BY <1>2, <2>1, <2>3
    <3> QED BY <3>1, <3>2, NotStarted
  <2>4. CASE u # t
    <3>1. h.state[u] = g.state[u]
      BY <1>2, <2>1, <2>4
    <3> QED BY <1>1, <2>1, <2>2, <3>1, FewerRacing
  <2> QED BY <2>3, <2>4
<1>t. Timed(h, res)
  <2>1. Timed(g, res) /\ Flock \notin h.locked /\ Flock \notin h.practice
    BY <1>1 DEF Ok, Timed
  <2> QED BY <1>1, <2>1, SameTimes
<1>6. Ok(h, res, ex)
  BY <1>1, <1>3, <1>4, <1>5, <1>t DEF Ok, Fresh, Round
<1>7. Kept(g, h)
  BY <1>1 DEF Kept
<1>8. Tame(g, ex, h, ex)
  <2>1. \A c \in Racers(h, ex) :
          c \in Racers(g, ex) /\ (h.team[c] \in h.practice <=> g.team[c] \in g.practice)
    <3> TAKE c \in Racers(h, ex)
    <3>1. c \in Slots /\ h.race[c] = "started" /\ c \notin ex
      BY DEF Racers
    <3>2. c \notin Playing(g, t)
      BY <3>1
    <3>3. g.team[c] # t
      BY <1>1, <3>1, <3>2 DEF Playing, Members, Alive
    <3> QED BY <1>1, <3>1, <3>3 DEF Racers
  <2> QED BY <1>1, <2>1, SameRaces
<1> QED BY <1>1, <1>6, <1>7, <1>8 DEF h

LEMMA KillOk ==
  ASSUME NEW ex \in SUBSET Slots, NEW g, Ok(g, result, ex), NEW t \in Teams,
         NEW except \in SUBSET ex, Saving(t) => Playing(g, t) \cap ex = {}
  PROVE  /\ Ok(KillTeam(g, t, except), result, ex \ (Playing(g, t) \ except))
         /\ Kept(g, KillTeam(g, t, except))
         /\ KillTeam(g, t, except).ended \subseteq g.ended
         /\ Tame(g, ex, KillTeam(g, t, except), ex \ (Playing(g, t) \ except))
<1> DEFINE victims == Playing(g, t) \ except
           calm == [g EXCEPT !.voted = @ \ Members(g, t)]
           stay == SetForceCharacterTeam(calm, victims, t)
           open == Reopened(stay, t)
           go == SetForceCharacterTeam(calm, victims, Flock)
           h == KillTeam(g, t, except)
           All(k) == /\ Ok(k, result, ex \ victims) /\ Kept(g, k)
                     /\ k.ended \subseteq g.ended /\ Tame(g, ex, k, ex \ victims)
<1>0. g \in Game /\ g.team \in [Slots -> Teams] /\ victims \in SUBSET Slots
  BY DEF Ok, Game, Playing, Members
<1>1. /\ Ok(calm, result, ex) /\ SameTeams(g, calm) /\ calm.race = g.race
      /\ Kept(g, calm) /\ calm.ended = g.ended /\ Tame(g, ex, calm, ex)
  BY CalmOk
<1>2. \A c \in victims : g.team[c] = t
  BY DEF Playing, Members
<1>3. h = IF Saving(t) \/ victims = {} THEN Dead(calm, victims)
            ELSE IF t \in g.locked THEN Dead(open, victims) ELSE Dead(go, victims)
  BY DEF KillTeam, Reopened
<1> HIDE DEF calm
<1>4. \A c \in victims : calm.team[c] = t
  BY <1>1, <1>2 DEF SameTeams
<1>5. calm \in Game
  BY <1>1 DEF Ok
<1>6. Playing(g, t) \subseteq victims \cup ex
  OBVIOUS
<1> HIDE DEF victims
<1>7. ASSUME Saving(t) \/ victims = {} PROVE All(Dead(calm, victims))
  <2>0. ASSUME NEW c \in victims, c \in calm.ended, calm.team[c] # Flock
        PROVE  result[calm.team[c]].kind = "save"
    <3>1. Saving(t) /\ c \in Playing(g, t) /\ c \notin ex /\ calm.team[c] = t /\ t # Flock
      BY <1>4, <1>7, <2>0 DEF victims
    <3>2. c \in Racing(g, t, ex)
      BY <3>1 DEF Racing, Playing, Members, Alive
    <3>3. g.race[c] # "started"
      BY <3>1, <3>2, TeamFacts DEF Ok, Round, InState, Saving
    <3>4. c \in g.ended /\ g.team[c] = t
      BY <1>1, <1>2, <2>0
    <3>5. Arrived(g, result)
      BY DEF Ok, Timed
    <3>6. result[t].kind = "save"
      BY <3>1, <3>3, <3>4, <3>5 DEF Arrived
    <3> QED BY <3>1, <3>6
  <2>1. /\ Ok(Dead(calm, victims), result, ex \ victims)
        /\ Kept(calm, Dead(calm, victims))
        /\ Dead(calm, victims).ended = calm.ended
        /\ Tame(calm, ex, Dead(calm, victims), ex \ victims)
    BY <1>0, <1>1, <2>0, DeadOk
  <2> QED BY <1>1, <2>1, KeptTrans, TameTrans
<1>8. CASE victims # {}
  <2>1. All(Dead(go, victims))
    <3>1. Ok(go, result, ex) /\ Kept(calm, go)
      BY <1>0, <1>1, <1>4, <1>5, <1>8, SetForceOk, SetForceKept, TeamFacts
    <3>t. go.ended = calm.ended \ victims /\ Tame(calm, ex \cup victims, go, ex \cup victims)

      <4>2. Flock \in Teams
        BY TeamFacts
      <4> HIDE DEF go
      <4>3. Tame(calm, ex \cup victims, SetForceCharacterTeam(calm, victims, Flock), ex \cup victims)
            /\ SetForceCharacterTeam(calm, victims, Flock).ended = calm.ended \ victims
        <5> DEFINE big == ex \cup victims
        <5>1. Goes(calm, victims, big, t, Flock)
          BY <1>0, <1>4, <1>5, <1>8, <4>2 DEF Goes
        <5> HIDE DEF big
        <5>3. Tame(calm, big, SetForceCharacterTeam(calm, victims, Flock), big)
              /\ SetForceCharacterTeam(calm, victims, Flock).ended = calm.ended \ victims
          BY <5>1, SetForceTame, Zenon
        <5> QED BY <5>3 DEF big
      <4> QED BY <4>3 DEF go
    <3> HIDE DEF go
    <3>m. Ok(go, result, ex \cup victims)
      BY <3>1, MoreExcepted
    <3>2. /\ Ok(Dead(go, victims), result, (ex \cup victims) \ victims)
          /\ Kept(go, Dead(go, victims)) /\ Dead(go, victims).ended = go.ended
          /\ Tame(go, ex \cup victims, Dead(go, victims), (ex \cup victims) \ victims)
      <4>1. \A c \in victims : c \notin go.ended
        BY <3>t
      <4> QED BY <1>0, <3>m, <4>1, DeadOk
    <3>3. Kept(g, go)
      BY <1>1, <3>1, KeptTrans
    <3>4. (ex \cup victims) \ victims = ex \ victims
      OBVIOUS
    <3>5. Tame(calm, ex, calm, ex \cup victims)
      BY TameSame
    <3>6. Tame(g, ex, Dead(go, victims), ex \ victims)
      BY <1>1, <3>t, <3>2, <3>4, <3>5, TameTrans
    <3> QED BY <1>1, <3>t, <3>2, <3>3, <3>4, <3>6, KeptTrans
  <2>2. All(Dead(open, victims))
    <3>1. Ok(calm, result, ex \cup victims)
      BY <1>1, MoreExcepted
    <3>2. Ok(stay, result, ex \cup victims) /\ Kept(calm, stay)
      BY <1>0, <1>4, <1>5, <1>8, <3>1, SetForceOk, SetForceKept
    <3>3. Moved(calm, victims, t, t, stay)
      BY <1>0, <1>4, <1>5, <1>8, SetForceFacts
    <3>t. Tame(calm, ex \cup victims, stay, ex \cup victims)
      <4>1. Goes(calm, victims, ex \cup victims, t, t)
        BY <1>0, <1>4, <1>5, <1>8 DEF Goes
      <4> QED BY <4>1, SetForceTame, Zenon
    <3> HIDE DEF stay
    <3>4. stay.race = g.race
      BY <1>1, <3>3 DEF Moved
    <3>5. stay.team = g.team
      <4>1. stay.team = [c \in Slots |-> IF c \in victims THEN t ELSE calm.team[c]]
        BY <3>3 DEF Moved
      <4>2. calm.team = g.team
        BY <1>1 DEF SameTeams
      <4> QED BY <1>0, <1>2, <4>1, <4>2 DEF victims
    <3>6. Playing(stay, t) = Playing(g, t) /\ Members(stay, t) = Members(g, t)
      BY <3>4, <3>5 DEF Playing, Members, Alive
    <3>7. Members(stay, t) # {} /\ Playing(stay, t) \subseteq ex \cup victims
      BY <1>6, <1>8, <3>6 DEF victims, Playing
    <3>8. /\ Ok(open, result, ex \cup victims) /\ Kept(stay, open) /\ open.ended = stay.ended
          /\ Tame(stay, ex \cup victims, open, ex \cup victims)
      BY <3>2, <3>7, ReopenedOk
    <3>e. open.ended = g.ended \ victims
      BY <1>1, <3>3, <3>8 DEF Moved
    <3> HIDE DEF open
    <3>9. /\ Ok(Dead(open, victims), result, (ex \cup victims) \ victims)
          /\ Kept(open, Dead(open, victims)) /\ Dead(open, victims).ended = open.ended
          /\ Tame(open, ex \cup victims, Dead(open, victims), (ex \cup victims) \ victims)
      BY <1>0, <3>8, <3>e, DeadOk
    <3>10. (ex \cup victims) \ victims = ex \ victims
      OBVIOUS
    <3>11. Kept(g, Dead(open, victims))
      <4>1. Kept(g, stay)
        BY <1>1, <3>2, KeptTrans
      <4>2. Kept(g, open)
        BY <3>8, <4>1, KeptTrans
      <4> QED BY <3>9, <4>2, KeptTrans
    <3>12. Tame(g, ex, Dead(open, victims), ex \ victims)
      <4>1. Tame(calm, ex, calm, ex \cup victims)
        BY TameSame
      <4>2. Tame(g, ex, stay, ex \cup victims)
        BY <1>1, <3>t, <4>1, TameTrans
      <4> QED BY <3>8, <3>9, <3>10, <4>2, TameTrans
    <3> QED BY <3>e, <3>9, <3>10, <3>11, <3>12
  <2>3. \/ Saving(t) /\ h = Dead(calm, victims)
        \/ h \in {Dead(open, victims), Dead(go, victims)}
    BY <1>3, <1>8
  <2>4. All(h)
    <3> HIDE DEF All, h
    <3> QED BY <1>7, <2>1, <2>2, <2>3
  <2> QED BY <2>4 DEF victims
<1>9. CASE victims = {}
  <2>1. h = Dead(calm, victims)
    BY <1>3, <1>9
  <2> QED BY <1>7, <1>9, <2>1 DEF victims
<1> QED BY <1>8, <1>9

(* The team of a tee that had not started cannot finish any more. *)
Spoilt(g, t) == [g EXCEPT !.state[t] = UNFINISHABLE, !.timer = @ \cup {t}]

LEMMA SpoiltOk ==
  ASSUME NEW res, NEW ex, NEW g, Ok(g, res, ex), NEW t \in Teams,
         Members(g, t) # {}, g.state[t] = STARTED
  PROVE  /\ Ok(Spoilt(g, t), res, ex)
         /\ Spoilt(g, t).team = g.team /\ Kept(g, Spoilt(g, t))
         /\ Spoilt(g, t).ended = g.ended /\ Tame(g, ex, Spoilt(g, t), ex)
<1> DEFINE h == Spoilt(g, t)
<1>0. g \in Game /\ g.state \in [Teams -> States]
  BY DEF Ok, Game
<1>1. /\ h \in Game
      /\ h.name = g.name /\ h.team = g.team /\ h.race = g.race /\ h.time = g.time
      /\ h.locked = g.locked /\ h.practice = g.practice /\ h.invited = g.invited
      /\ h.ended = g.ended /\ h.ranks = g.ranks
      /\ h.timer = g.timer \cup {t} /\ h.state = [g.state EXCEPT ![t] = UNFINISHABLE]
  BY <1>0, StatesFacts DEF Spoilt, Game
<1> HIDE DEF h
<1>2. \A u \in Teams : h.state[u] = IF u = t THEN UNFINISHABLE ELSE g.state[u]
  BY <1>0, <1>1
<1>3. t # Flock
  BY StatesFacts DEF Ok
<1>4. h.state[Flock] \in {EMPTY, OPEN}
  BY <1>2, <1>3, TeamFacts DEF Ok
<1>5. ASSUME NEW u \in OwnTeams PROVE FreshTeam(h, u)
  <2>1. FreshTeam(g, u) /\ u \in Teams
    BY TeamFacts DEF Ok, Fresh
  <2>2. CASE u = t
    <3>1. h.state[u] # EMPTY
      BY <1>2, <2>1, <2>2, StatesFacts
    <3>2. \E c \in Slots : h.team[c] = u
      BY <1>1, <2>2 DEF Members
    <3> QED BY <3>1, <3>2 DEF FreshTeam
  <2>3. CASE u # t
    <3>1. h.state[u] = g.state[u] /\ (u \in h.timer <=> u \in g.timer)
      BY <1>1, <1>2, <2>1, <2>3
    <3> QED BY <1>1, <2>1, <3>1 DEF FreshTeam
  <2> QED BY <2>2, <2>3
<1>6. ASSUME NEW u \in OwnTeams
      PROVE  InState(h, h.state[u], res[u], Racing(h, u, ex))
  <2>1. InState(g, g.state[u], res[u], Racing(g, u, ex)) /\ u \in Teams
    BY TeamFacts DEF Ok, Round
  <2>2. Racing(h, u, ex) = Racing(g, u, ex)
    BY <1>1 DEF Racing
  <2>3. InState(h, g.state[u], res[u], Racing(h, u, ex))
    BY <1>1, <2>1, <2>2, FewerRacing
  <2>4. CASE u = t
    <3>1. h.state[u] = UNFINISHABLE /\ g.state[u] = STARTED
      BY <1>2, <2>1, <2>4
    <3> QED BY <2>3, <3>1, StatesFacts DEF InState
  <2>5. CASE u # t
    <3>1. h.state[u] = g.state[u]
      BY <1>2, <2>1, <2>5
    <3> QED BY <2>3, <3>1
  <2> QED BY <2>4, <2>5
<1>t. Timed(h, res)
  <2>1. Timed(g, res) /\ Flock \notin h.locked /\ Flock \notin h.practice
    BY <1>1 DEF Ok, Timed
  <2> QED BY <1>1, <2>1, SameTimes
<1>7. Ok(h, res, ex)
  BY <1>1, <1>4, <1>5, <1>6, <1>t DEF Ok, Fresh, Round
<1>8. Kept(g, h)
  BY <1>1 DEF Kept
<1>9. Tame(g, ex, h, ex)
  BY <1>1, SameRaces DEF Racers
<1> QED BY <1>1, <1>7, <1>8, <1>9 DEF h

LEMMA DeathOk ==
  ASSUME NEW g, Ok(g, result, {}), NEW c \in Slots, NEW byGame \in BOOLEAN
  PROVE  /\ Ok(OnCharacterDeath(g, c, byGame), result, {c})
         /\ Kept(g, OnCharacterDeath(g, c, byGame))
         /\ Tame(g, {c}, OnCharacterDeath(g, c, byGame), {c})
         /\ \/ Saving(g.team[c]) /\ OnCharacterDeath(g, c, byGame) = g
            \/ c \notin OnCharacterDeath(g, c, byGame).ended
<1> DEFINE t == g.team[c]
           again == SetForceCharacterTeam(g, {c}, t)
           left == IF g.state[t] = STARTED /\ c \notin g.begun THEN Spoilt(g, t) ELSE g
           reset == Reopened(again, t)
           killed == KillTeam(reset, t, {c})
           gone == SetForceCharacterTeam(left, {c}, Flock)
           out == CheckTeamFinished(gone, t)
           h == OnCharacterDeath(g, c, byGame)
           All(k) == Ok(k, result, {c}) /\ Kept(g, k) /\ Tame(g, {c}, k, {c})
           Out(k) == All(k) /\ c \notin k.ended
<1>0. g \in Game /\ t \in Teams /\ {c} \in SUBSET Slots /\ {c} # {} /\ c \in Members(g, t)
  BY DEF Ok, Game, Members
<1>1. /\ Saving(t) => h = g
      /\ ~Saving(t) /\ t \in g.locked /\ ~byGame =>
           h = IF again.state[t] = OPEN THEN again
                 ELSE IF Members(g, t) = {c} THEN reset ELSE killed
      /\ ~Saving(t) /\ ~(t \in g.locked /\ ~byGame) => h = out
  BY DEF OnCharacterDeath, Reopened, Spoilt
<1>t. \A k \in {c} : g.team[k] = t
  OBVIOUS
<1> HIDE DEF t, h
<1>2. Ok(g, result, {c})
  BY MoreExcepted
<1>3. All(g)
  BY <1>2, TameSame DEF Kept
<1>4. Out(again)
  <2>1. Goes(g, {c}, {c}, t, t)
    BY <1>0, <1>t DEF Goes
  <2>2. Tame(g, {c}, again, {c}) /\ again.ended = g.ended \ {c}
    BY <2>1, SetForceTame, Zenon
  <2> QED BY <1>0, <1>t, <1>2, <2>2, SetForceOk, SetForceKept
<1>5. again.team = g.team /\ again.race = g.race /\ Ok(again, result, {})
  <2>1. Moved(g, {c}, t, t, again)
    BY <1>0, <1>t, SetForceFacts
  <2>2. again.team = [k \in Slots |-> IF k \in {c} THEN t ELSE g.team[k]] /\ again.race = g.race
    BY <2>1 DEF Moved
  <2>3. again.team = g.team
    BY <1>0, <2>2 DEF Game, t
  <2>4. Ok(again, result, {})
    BY <1>0, <1>t, SetForceOk
  <2> QED BY <2>2, <2>3, <2>4
<1> HIDE DEF again
<1> DEFINE ex == {c} \cup Playing(again, t)
<1>6. Members(again, t) = Members(g, t) /\ Members(again, t) # {} /\ ex \in SUBSET Slots
  BY <1>0, <1>5 DEF Members, Playing
<1>7. /\ Ok(reset, result, ex) /\ Kept(again, reset)
      /\ reset.team = again.team /\ reset.race = again.race
      /\ reset.ended = again.ended /\ Tame(again, ex, reset, ex)
  <2>1. Ok(again, result, ex) /\ Playing(again, t) \subseteq ex
    BY <1>5, MoreExcepted
  <2> HIDE DEF ex
  <2>2. /\ Ok(reset, result, ex) /\ reset.name = again.name
        /\ reset.team = again.team /\ reset.race = again.race
        /\ reset.ended = again.ended /\ Tame(again, ex, reset, ex)
    BY <1>0, <1>6, <2>1, ReopenedOk
  <2> QED BY <2>2 DEF Kept
<1> HIDE DEF reset
<1>x. Tame(g, {c}, reset, ex)
  <2>1. Tame(again, {c}, again, ex)
    BY TameSame
  <2> HIDE DEF ex
  <2> QED BY <1>4, <1>7, <2>1, TameTrans
<1>8. ASSUME Members(g, t) = {c} PROVE Out(reset)
  <2>1. ex = {c}
    BY <1>6, <1>8 DEF Playing
  <2> QED BY <1>4, <1>7, <1>x, <2>1, KeptTrans
<1>9. ASSUME ~Saving(t) PROVE Out(killed)
  <2>1. Playing(reset, t) = Playing(again, t)
    BY <1>7 DEF Playing, Members, Alive
  <2>2. /\ Ok(killed, result, ex \ (Playing(reset, t) \ {c})) /\ Kept(reset, killed)
        /\ killed.ended \subseteq reset.ended
        /\ Tame(reset, ex, killed, ex \ (Playing(reset, t) \ {c}))
    <3>1. {c} \in SUBSET ex
      OBVIOUS
    <3> HIDE DEF ex, killed
    <3> QED BY <1>0, <1>6, <1>7, <1>9, <3>1, KillOk DEF killed
  <2>3. ex \ (Playing(reset, t) \ {c}) \subseteq {c}
    BY <2>1
  <2> HIDE DEF ex, killed
  <2>4. Ok(killed, result, {c})
    BY <2>2, <2>3, MoreExcepted
  <2>5. Kept(g, reset)
    BY <1>4, <1>7, KeptTrans
  <2>6. Tame(killed, ex \ (Playing(reset, t) \ {c}), killed, {c})
    BY <2>3, TameSame
  <2>7. Tame(g, {c}, killed, {c})
    BY <1>x, <2>2, <2>6, TameTrans
  <2>8. c \notin killed.ended
    BY <1>4, <1>7, <2>2
  <2> QED BY <2>2, <2>4, <2>5, <2>7, <2>8, KeptTrans
<1> HIDE DEF killed
<1>10. All(left) /\ left.team = g.team
  <2>1. g.state[t] = STARTED => All(Spoilt(g, t)) /\ Spoilt(g, t).team = g.team
    BY <1>0, <1>2, SpoiltOk
  <2> QED BY <1>2, <1>3, <2>1
<1> HIDE DEF left
<1>11. /\ Ok(gone, result, {c}) /\ Kept(left, gone)
       /\ Tame(left, {c}, gone, {c}) /\ c \notin gone.ended
       /\ t # Flock => {c} \cap Members(gone, t) = {}
  <2>1. left \in Game /\ \A k \in {c} : left.team[k] = t
    BY <1>10 DEF Ok, t
  <2>2. Goes(left, {c}, {c}, t, Flock)
    BY <1>0, <2>1, TeamFacts DEF Goes
  <2>3. Tame(left, {c}, gone, {c}) /\ gone.ended = left.ended \ {c}
    BY <2>2, SetForceTame, Zenon
  <2>4. Moved(left, {c}, t, Flock, gone)
    BY <1>0, <2>1, SetForceFacts, TeamFacts
  <2>5. gone.team[c] = Flock
    BY <2>4 DEF Moved
  <2>6. Ok(gone, result, {c}) /\ Kept(left, gone)
    BY <1>0, <1>10, <2>1, SetForceOk, SetForceKept, TeamFacts
  <2> HIDE DEF gone
  <2> QED BY <2>3, <2>5, <2>6 DEF Members
<1> HIDE DEF gone
<1>12. Out(out)
  <2>1. /\ Ok(out, result, {c}) /\ Kept(gone, out) /\ out.ended \subseteq gone.ended
        /\ Tame(gone, {c}, out, {c})
    BY <1>0, <1>11, CheckOk
  <2> HIDE DEF out
  <2>2. Kept(g, gone)
    BY <1>10, <1>11, KeptTrans
  <2>3. Tame(g, {c}, gone, {c})
    BY <1>10, <1>11, TameTrans
  <2> QED BY <1>11, <2>1, <2>2, <2>3, KeptTrans, TameTrans
<1> HIDE DEF All, out, ex
<1> QED
  <2>1. (Saving(t) /\ h = g /\ All(h)) \/ Out(h)
    <3>1. CASE Saving(t)
      BY <1>1, <1>3, <3>1
    <3>2. CASE ~Saving(t) /\ t \in g.locked /\ ~byGame
      BY <1>1, <1>4, <1>8, <1>9, <3>2
    <3>3. CASE ~Saving(t) /\ ~(t \in g.locked /\ ~byGame)
      BY <1>1, <1>12, <3>3
    <3> QED BY <3>1, <3>2, <3>3
  <2> QED BY <2>1 DEF All, h, t

LEMMA DieOk ==
  ASSUME NEW g, Ok(g, result, {}), NEW c \in Slots, NEW byGame \in BOOLEAN
  PROVE  /\ Ok(Die(g, c, byGame), result, {}) /\ Kept(g, Die(g, c, byGame))
         /\ Die(g, c, byGame).race[c] = "dead"
         /\ Tame(g, {}, Die(g, c, byGame), {}) /\ Tame(g, {c}, Die(g, c, byGame), {})
<1> DEFINE d == OnCharacterDeath(g, c, byGame)
<1>1. /\ Ok(d, result, {c}) /\ Kept(g, d) /\ Tame(g, {c}, d, {c})
      /\ (Saving(g.team[c]) /\ d = g) \/ c \notin d.ended
  BY DeathOk
<1>2. Die(g, c, byGame) = IF Alive(g, c) THEN Dead(d, {c}) ELSE g
  BY DEF Die
<1> HIDE DEF d
<1>a. ASSUME Alive(g, c), c \in d.ended, d.team[c] # Flock
      PROVE  result[d.team[c]].kind = "save"
  <2>1. d = g /\ Saving(g.team[c]) /\ g.team[c] \in OwnTeams
    BY <1>1, <1>a, TeamFacts DEF Ok, Game
  <2>2. c \in Racing(g, g.team[c], {})
    BY <1>a DEF Racing, Alive
  <2>3. g.race[c] # "started"
    BY <2>1, <2>2 DEF Ok, Round, InState, Saving
  <2> QED BY <1>a, <2>1, <2>3 DEF Ok, Timed, Arrived
<1>3. ASSUME Alive(g, c)
      PROVE  /\ Ok(Dead(d, {c}), result, {c} \ {c}) /\ Kept(d, Dead(d, {c}))
             /\ Dead(d, {c}).race[c] = "dead" /\ Tame(d, {c}, Dead(d, {c}), {c} \ {c})
  BY <1>1, <1>3, <1>a, DeadOk
<1>4. {c} \ {c} = {}
  OBVIOUS
<1>b. Tame(g, {}, g, {c}) /\ Tame(g, {}, g, {})
  BY TameSame
<1>c. Alive(g, c) => Tame(g, {c}, Dead(d, {c}), {}) /\ Tame(g, {}, Dead(d, {c}), {})
  <2>1. Alive(g, c) => Tame(g, {c}, Dead(d, {c}), {})
    BY <1>1, <1>3, <1>4, TameTrans
  <2> QED BY <1>b, <2>1, TameTrans
<1>d. ~Alive(g, c) => Tame(g, {c}, g, {})
  <2> SUFFICES ASSUME ~Alive(g, c) PROVE Tame(g, {c}, g, {})
    OBVIOUS
  <2>1. \A k \in Racers(g, {}) : k \in Racers(g, {c})
    BY DEF Racers, Alive
  <2> QED BY <2>1, SameRaces
<1>5. Alive(g, c) => Kept(g, Dead(d, {c}))
  BY <1>1, <1>3, KeptTrans
<1>6. Kept(g, g)
  BY DEF Kept
<1>7. ~Alive(g, c) => g.race[c] = "dead"
  BY DEF Alive
<1> QED BY <1>2, <1>3, <1>4, <1>5, <1>6, <1>7, <1>b, <1>c, <1>d

(* The tees of one team have other races. *)
LEMMA OneTeamOk ==
  ASSUME NEW res, NEW g, Ok(g, res, {}), NEW h \in Game, SameTeams(g, h), NEW t \in OwnTeams,
         Timed(h, res),
         \A c \in Slots : g.team[c] # t => h.race[c] = g.race[c] /\ h.time[c] = g.time[c],
         InState(h, h.state[t], res[t], Racing(h, t, {}))
  PROVE  Ok(h, res, {})
<1>1. h.state[Flock] \in {EMPTY, OPEN} /\ Fresh(h)
  BY DEF Ok, SameTeams, Fresh, FreshTeam
<1>2. ASSUME NEW u \in OwnTeams, u # t
      PROVE  InState(h, h.state[u], res[u], Racing(h, u, {}))
  <2>1. InState(g, g.state[u], res[u], Racing(g, u, {})) /\ h.state[u] = g.state[u]
    BY DEF Ok, Round, SameTeams
  <2>2. ASSUME NEW c \in Racing(h, u, {})
        PROVE  c \in Racing(g, u, {}) /\ h.race[c] = g.race[c] /\ h.time[c] = g.time[c]
    BY <1>2 DEF Racing, SameTeams
  <2>3. Racing(h, u, {}) \subseteq Racing(g, u, {})
    BY <2>2
  <2> QED BY <2>1, <2>2, <2>3, FewerRacing
<1> QED BY <1>1, <1>2 DEF Ok, Round

LEMMA NoneStarted ==
  ASSUME NEW h, NEW state, NEW res, NEW B, \A c \in B : h.race[c] = "none",
         res # NoResult /\ res.kind = "load" => state \in {EMPTY, OPEN}
  PROVE  InState(h, state, res, B)
<1>1. \A c \in B : h.race[c] # "started"
  OBVIOUS
<1> QED BY <1>1 DEF InState, Uniform

LEMMA SpawnedOk ==
  ASSUME NEW g, Ok(g, result, {}), NEW c \in Slots, g.race[c] = "dead"
  PROVE  Ok(Spawned(g, c), result, {}) /\ KeptBut(g, Spawned(g, c), c) /\ Tame(g, {}, Spawned(g, c), {})
<1> DEFINE t == g.team[c]
           gone == SetForceCharacterTeam(g, {c}, Flock)
           checked == CheckTeamFinished(gone, t)
           placed == IF Saving(t) \/ t \in g.locked THEN g ELSE checked
           u == placed.team[c]
           mates == Playing(placed, u) \ {c}
           copied == SetRace(placed, {c}, placed.race[Max(mates)], placed.time[Max(mates)])
           anew == SetRace(placed, {c}, "none", 0)
<1>0. g \in Game /\ t \in Teams /\ {c} \in SUBSET Slots /\ {c} # {} /\ {} \in SUBSET Slots
  BY DEF Ok, Game
<1>1. Spawned(g, c) = IF u \in placed.locked /\ mates # {} THEN copied ELSE anew
  BY DEF Spawned
<1>2. /\ Ok(placed, result, {}) /\ Kept(g, placed) /\ placed.race[c] = "dead"
      /\ placed.team[c] # Flock => Saving(placed.team[c]) \/ placed.team[c] \in placed.locked
      /\ Tame(g, {}, placed, {})
  <2>1. CASE Saving(t) \/ t \in g.locked
    <3>1. placed = g
      BY <2>1
    <3> HIDE DEF placed
    <3> QED BY <2>1, <3>1, TameSame DEF Kept
  <2>2. CASE ~(Saving(t) \/ t \in g.locked)
    <3>1. placed = checked
      BY <2>2
    <3>2. \A k \in {c} : g.team[k] = t
      OBVIOUS
    <3> HIDE DEF placed, t
    <3>3. Ok(gone, result, {}) /\ Kept(g, gone) /\ Moved(g, {c}, t, Flock, gone)
      BY <1>0, <3>2, SetForceOk, SetForceKept, SetForceFacts, TeamFacts
    <3>t. Tame(g, {}, gone, {})
      <4>1. Goes(g, {c}, {}, t, Flock)
        BY <1>0, <3>2, TeamFacts DEF Goes
      <4> QED BY <4>1, SetForceTame, Zenon
    <3> HIDE DEF gone
    <3>4. gone.race[c] = "dead" /\ gone.team[c] = Flock
      BY <3>3 DEF Moved
    <3>5. /\ Ok(checked, result, {}) /\ Kept(gone, checked) /\ checked.race[c] = "dead"
          /\ Tame(gone, {}, checked, {})
      BY <1>0, <3>3, <3>4, CheckOk DEF Kept
    <3> HIDE DEF checked
    <3>6. Tame(g, {}, checked, {})
      BY <3>t, <3>5, TameTrans
    <3> QED BY <3>1, <3>3, <3>4, <3>5, <3>6, KeptTrans DEF Kept
  <2> QED BY <2>1, <2>2
<1> HIDE DEF placed
<1>3. placed \in Game /\ u \in Teams
  BY <1>2 DEF Ok, Game
<1>4. ASSUME mates # {}
      PROVE  /\ Max(mates) \in mates
             /\ placed.race[Max(mates)] \in Races /\ placed.time[Max(mates)] \in Nat
  <2>1. mates \in SUBSET Slots
    BY DEF Playing, Members
  <2>2. Max(mates) \in mates
    BY <1>4, <2>1, MinMaxSlot
  <2>3. Max(mates) \in Slots
    BY <2>1, <2>2
  <2> QED BY <1>3, <2>2, <2>3 DEF Game
<1>5. u \in OwnTeams => Racing(placed, u, {}) = mates
  BY <1>2 DEF Racing, Playing, Members, Alive
<1>6. ASSUME NEW race \in Races, NEW time \in Nat, NEW h, h = SetRace(placed, {c}, race, time),
             \/ /\ u \in OwnTeams /\ mates # {}
                /\ race = placed.race[Max(mates)] /\ time = placed.time[Max(mates)]
             \/ /\ u \in OwnTeams => mates = {} \/ Saving(u)
                /\ race = "none" /\ time = 0
      PROVE  Ok(h, result, {}) /\ KeptBut(g, h, c) /\ Tame(g, {}, h, {})
  <2>1. /\ h \in Game /\ SameTeams(placed, h) /\ h.ended = placed.ended /\ h.ranks = placed.ranks
        /\ h.race = [k \in Slots |-> IF k \in {c} THEN race ELSE placed.race[k]]
        /\ h.time = [k \in Slots |-> IF k \in {c} THEN time ELSE placed.time[k]]
    BY <1>0, <1>3, <1>6, SetRaceFacts
  <2>2. h.race[c] = race /\ h.time[c] = time
        /\ \A k \in Slots : k # c => h.race[k] = placed.race[k] /\ h.time[k] = placed.time[k]
    BY <2>1
  <2>3. KeptBut(g, h, c)
    BY <1>2, <2>1, <2>2 DEF Kept, KeptBut, SameTeams
  <2>m. \/ /\ u \in OwnTeams /\ race = "none" /\ time = 0
        \/ /\ u \notin OwnTeams /\ race = "none" /\ time = 0
        \/ /\ u \in OwnTeams
           /\ \E m \in mates : race = placed.race[m] /\ time = placed.time[m]
    <3> DEFINE m == Max(mates)
    <3>1. mates # {} => m \in mates
      BY <1>4
    <3> HIDE DEF m, mates, u
    <3> QED BY <1>6, <3>1 DEF m
  <2>k. \A m \in mates : m \in Slots /\ placed.team[m] = u
    BY DEF Playing, Members
  <2>t. Timed(h, result)
    <3>1. Timed(placed, result)
      BY <1>2 DEF Ok
    <3>2. Clocks(h)
      <4>1. race = "started" => time # 0
        BY <2>m, <2>k, <3>1 DEF Timed, Clocks
      <4>2. race \in {"dead", "none"} => time = 0
        BY <2>m, <2>k, <3>1 DEF Timed, Clocks
      <4> QED BY <2>2, <3>1, <4>1, <4>2 DEF Timed, Clocks
    <3>3. Arrived(h, result)
      <4> SUFFICES ASSUME NEW k \in h.ended, h.team[k] # Flock, h.race[k] # "started"
                   PROVE  result[h.team[k]].kind = "save"
        BY DEF Arrived
      <4>1. k \in placed.ended /\ k \in Slots /\ h.team[k] = placed.team[k]
        BY <1>3, <2>1 DEF Game, SameTeams
      <4>2. placed.race[k] # "started"
        BY <1>2, <2>2, <4>1
      <4> QED BY <3>1, <4>1, <4>2 DEF Timed, Arrived
    <3> QED BY <2>1, <3>1, <3>2, <3>3 DEF Timed, SameTeams
  <2>e. Tame(g, {}, h, {})
    <3>1. ASSUME NEW k \in Racers(h, {})
          PROVE  \E d \in Racers(placed, {}) : Entry(h, k) = Entry(placed, d)
      <4>0. k \in Slots /\ h.race[k] = "started"
            /\ h.team = placed.team /\ h.practice = placed.practice
        BY <2>1 DEF Racers, SameTeams
      <4>1. CASE k # c
        <5>1. k \in Racers(placed, {}) /\ h.time[k] = placed.time[k]
          BY <2>2, <4>0, <4>1 DEF Racers
        <5>2. Entry(h, k) = Entry(placed, k)
          BY <4>0, <5>1 DEF Entry
        <5> QED BY <5>1, <5>2
      <4>2. CASE k = c
        <5>1. race = "started"
          BY <2>2, <4>0, <4>2
        <5>2. PICK m \in mates : race = placed.race[m] /\ time = placed.time[m] /\ u \in OwnTeams
          BY <2>m, <5>1
        <5>3. m \in Racers(placed, {}) /\ placed.team[m] = u /\ u # Flock
          BY <2>k, <5>1, <5>2, TeamFacts DEF Racers
        <5>4. Entry(h, k) = Entry(placed, m)
          BY <2>2, <4>0, <4>2, <5>2, <5>3 DEF Entry
        <5> QED BY <5>3, <5>4
      <4> QED BY <4>1, <4>2
    <3>2. \A k \in Slots : h.time[k] = 0 \/ \E d \in Slots : h.time[k] = placed.time[d]
      BY <2>2, <2>m, <2>k
    <3>3. Tame(placed, {}, h, {})
      BY <2>1, <3>1, <3>2, SameEntries
    <3> QED BY <1>2, <3>3, TameTrans
  <2>4. CASE u \notin OwnTeams
    <3>1. \A k \in Slots : \/ placed.team[k] = Flock
                           \/ k \notin {} /\ h.race[k] = placed.race[k] /\ h.time[k] = placed.time[k]
      BY <1>3, <2>2, <2>4, TeamFacts
    <3>2. Ok(h, result, {})
      BY <1>2, <2>1, <2>t, <3>1, SameTeamsOk
    <3> QED BY <2>3, <2>e, <3>2
  <2>5. CASE u \in OwnTeams
    <3>1. InState(placed, placed.state[u], result[u], mates)
      BY <1>2, <1>5, <2>5 DEF Ok, Round
    <3>2. \A k \in Racing(h, u, {}) : k = c \/ k \in mates
      BY <2>1, <2>2 DEF Racing, Playing, Members, Alive, SameTeams
    <3>3. \A k \in mates : k # c /\ h.race[k] = placed.race[k] /\ h.time[k] = placed.time[k]
      BY <2>2 DEF Playing, Members
    <3>4. h.state[u] = placed.state[u]
      BY <2>1 DEF SameTeams
    <3> HIDE DEF mates, u
    <3>5. result[u] # NoResult /\ result[u].kind = "load" => h.state[u] \in {EMPTY, OPEN}
      BY <3>1, <3>4 DEF InState
    <3>6. InState(h, h.state[u], result[u], Racing(h, u, {}))
      <4>1. CASE mates # {} /\ race = placed.race[Max(mates)] /\ time = placed.time[Max(mates)]
        <5> DEFINE m == Max(mates)
        <5>1. m \in mates
          BY <1>4, <4>1
        <5>2. ASSUME NEW k \in Racing(h, u, {})
              PROVE  \E j \in mates : h.race[k] = placed.race[j] /\ h.time[k] = placed.time[j]
          BY <2>2, <3>2, <3>3, <4>1, <5>1
        <5> HIDE DEF m
        <5>3. Uniform(placed, mates) => Uniform(h, Racing(h, u, {}))
          BY <5>2 DEF Uniform
        <5>4. /\ (\A j \in mates : placed.race[j] = "none")
                   => \A k \in Racing(h, u, {}) : h.race[k] = "none"
              /\ (\A j \in mates : placed.race[j] # "started")
                   => \A k \in Racing(h, u, {}) : h.race[k] # "started"
          BY <5>2
        <5> QED BY <3>1, <3>4, <5>3, <5>4 DEF InState
      <4>2. CASE mates = {} /\ race = "none"
        <5>1. \A k \in Racing(h, u, {}) : h.race[k] = "none"
          BY <2>2, <3>2, <4>2
        <5> QED BY <3>5, <5>1, NoneStarted
      <4>3. CASE Saving(u) /\ race = "none"
        <5>1. /\ result[u] # NoResult
              /\ \A k \in mates : placed.race[k] # "started"
          BY <3>1, <4>3 DEF Saving, InState
        <5>2. CASE placed.state[u] = FINISHED
          <6>1. \A k \in Racing(h, u, {}) : h.race[k] # "started"
            BY <2>2, <3>2, <3>3, <4>3, <5>1
          <6> QED BY <3>4, <3>5, <5>2, <6>1, StatesFacts DEF InState
        <5>3. CASE placed.state[u] # FINISHED
          <6>1. placed.state[u] \in {EMPTY, OPEN, STARTED, UNFINISHABLE}
            BY <1>3, <5>3, StatesFacts DEF Game
          <6>2. \A k \in mates : placed.race[k] = "none"
            BY <3>1, <5>1, <6>1 DEF InState, Uniform
          <6>3. \A k \in Racing(h, u, {}) : h.race[k] = "none"
            BY <2>2, <3>2, <3>3, <4>3, <6>2
          <6> QED BY <3>5, <6>3, NoneStarted
        <5> QED BY <5>2, <5>3
      <4> QED BY <1>6, <2>5, <4>1, <4>2, <4>3
    <3>7. \A k \in Slots : placed.team[k] # u =>
                             h.race[k] = placed.race[k] /\ h.time[k] = placed.time[k]
      BY <2>2 DEF u
    <3>8. Ok(h, result, {})
      BY <1>2, <2>1, <2>5, <2>t, <3>6, <3>7, OneTeamOk
    <3> QED BY <2>3, <2>e, <3>8
  <2> QED BY <2>4, <2>5
<1>7. CASE u \in placed.locked /\ mates # {}
  <2>0. u \in OwnTeams
    BY <1>2, <1>3, <1>7, TeamFacts DEF Ok, Timed
  <2> HIDE DEF mates, u
  <2>1. Ok(copied, result, {}) /\ KeptBut(g, copied, c) /\ Tame(g, {}, copied, {})
    BY <1>4, <1>6, <1>7, <2>0
  <2> QED BY <1>1, <1>7, <2>1
<1>8. CASE ~(u \in placed.locked /\ mates # {})
  <2>1. u \in OwnTeams => mates = {} \/ Saving(u)
    BY <1>2, <1>8, TeamFacts
  <2> HIDE DEF mates, u
  <2>2. Ok(anew, result, {}) /\ KeptBut(g, anew, c) /\ Tame(g, {}, anew, {})
    BY <1>6, <2>1 DEF Races
  <2> QED BY <1>1, <1>8, <2>2
<1> QED BY <1>7, <1>8

(* The game goes from g to h, where some tees may have started on a run.   *)
Begins(g, h, run) ==
  /\ h.ranks = g.ranks
  /\ \E x : /\ x.run = run /\ x.kind \in {"tee", "team"}
            /\ \A c \in Racers(h, {}) : \/ h.time[c] = run /\ Entry(h, c) = x
                                        \/ c \in Racers(g, {}) /\ Entry(h, c) = Entry(g, c)
  /\ \A c \in Slots : h.time[c] = g.time[c] \/ (h.time[c] = run /\ h.race[c] = "started")

LEMMA BeginsNone ==
  ASSUME NEW g, NEW h, NEW run, h.ranks = g.ranks, h.team = g.team, h.practice = g.practice,
         h.time = g.time, \A c \in Slots : h.race[c] = "started" => g.race[c] = "started"
  PROVE  Begins(g, h, run)
<1> DEFINE x == [kind |-> "tee", run |-> run]
<1>1. x.run = run /\ x.kind \in {"tee", "team"}
  OBVIOUS
<1>2. \A c \in Racers(h, {}) : c \in Racers(g, {}) /\ Entry(h, c) = Entry(g, c)
  BY DEF Racers, Entry
<1>3. \A c \in Slots : h.time[c] = g.time[c]
  OBVIOUS
<1> HIDE DEF x
<1> QED BY <1>1, <1>2, <1>3 DEF Begins

LEMMA StartOk ==
  ASSUME NEW g, Ok(g, result, {}), NEW c \in Slots, ~Saving(g.team[c]), Alive(g, c),
         NEW run \in Nat, run # 0
  PROVE  /\ Ok(OnCharacterStart(g, c, run), result, {}) /\ Kept(g, OnCharacterStart(g, c, run))
         /\ Begins(g, OnCharacterStart(g, c, run), run)
<1> DEFINE t == g.team[c]
           waiting == \E m \in Members(g, t) : g.race[m] = "finished"
           begun == [g EXCEPT !.begun = @ \cup {c}]
           again == [g EXCEPT !.race[c] = "none"]
           here == IF waiting THEN again ELSE begun
           first == SetRace(begun, {c}, "started", run)
           on == [here EXCEPT !.state[t] = STARTED, !.timer = @ \ {t}]
           all == SetRace(on, Playing(here, t), "started", run)
           h == OnCharacterStart(g, c, run)
           All(k) == Ok(k, result, {}) /\ Kept(g, k) /\ Begins(g, k, run)
<1>0. /\ g \in Game /\ t \in Teams /\ {c} \in SUBSET Slots /\ {} \in SUBSET Slots
      /\ g.state \in [Teams -> States] /\ g.team \in [Slots -> Teams] /\ g.race \in [Slots -> Races]
      /\ "started" \in Races /\ "none" \in Races
  BY DEF Ok, Game, Races
<1>1. h = IF t = Flock THEN first
            ELSE IF g.race[c] = "finished" THEN g
            ELSE IF g.state[t] < STARTED /\ ~waiting THEN all ELSE here
  BY DEF OnCharacterStart
<1>2. All(g)
  BY BeginsNone DEF Kept
<1>3. /\ begun \in Game /\ SameTeams(g, begun) /\ begun.race = g.race /\ begun.time = g.time
      /\ begun.ended = g.ended /\ begun.ranks = g.ranks
  BY <1>0 DEF Game, SameTeams
<1>4. /\ again \in Game /\ SameTeams(g, again) /\ again.time = g.time
      /\ again.race = [g.race EXCEPT ![c] = "none"]
      /\ again.ended = g.ended /\ again.ranks = g.ranks
  BY <1>0 DEF Game, SameTeams
<1> HIDE DEF begun, again
<1>t. Timed(g, result)
  BY DEF Ok
<1>5. All(begun)
  <2>1. Timed(begun, result)
    BY <1>3, <1>t, SameTimes DEF SameTeams, Timed
  <2>2. Ok(begun, result, {})
    BY <1>2, <1>3, <2>1, SameTeamsOk
  <2>3. Begins(g, begun, run)
    BY <1>3, BeginsNone DEF SameTeams
  <2> QED BY <1>3, <2>2, <2>3 DEF Kept, SameTeams
<1>6. CASE t = Flock
  <2>1. /\ first \in Game /\ SameTeams(begun, first)
        /\ first.ended = begun.ended /\ first.ranks = begun.ranks
        /\ first.race = [k \in Slots |-> IF k \in {c} THEN "started" ELSE begun.race[k]]
        /\ first.time = [k \in Slots |-> IF k \in {c} THEN run ELSE begun.time[k]]
    BY <1>0, <1>3, SetRaceFacts
  <2> HIDE DEF first
  <2>2. ASSUME NEW k \in Slots
        PROVE  \/ begun.team[k] = Flock
               \/ k \notin {} /\ first.race[k] = begun.race[k] /\ first.time[k] = begun.time[k]
    BY <1>3, <1>6, <2>1 DEF SameTeams
  <2>t. Timed(first, result)
    <3>1. Clocks(first)
      BY <1>3, <1>t, <2>1 DEF Timed, Clocks
    <3>2. Arrived(first, result)
      <4> SUFFICES ASSUME NEW k \in first.ended, first.team[k] # Flock, first.race[k] # "started"
                   PROVE  result[first.team[k]].kind = "save"
        BY DEF Arrived
      <4>1. k \in g.ended /\ k \in Slots /\ first.team[k] = g.team[k] /\ k # c
        BY <1>0, <1>3, <1>6, <2>1 DEF Game, SameTeams
      <4>2. g.race[k] # "started"
        BY <1>3, <2>1, <4>1
      <4> QED BY <1>t, <4>1, <4>2 DEF Timed, Arrived
    <3> QED BY <1>3, <1>t, <2>1, <3>1, <3>2 DEF Timed, SameTeams
  <2>3. Ok(first, result, {})
    BY <1>5, <2>1, <2>2, <2>t, SameTeamsOk
  <2>4. h = first
    BY <1>1, <1>6
  <2>5. Kept(begun, first)
    BY <1>3, <2>1 DEF Kept, SameTeams, Alive
  <2>6. Begins(g, first, run)
    <3> DEFINE x == Entry(first, c)
    <3>0. /\ first.team = g.team /\ first.practice = g.practice /\ first.ranks = g.ranks
          /\ \A k \in Slots : /\ first.race[k] = IF k = c THEN "started" ELSE g.race[k]
                              /\ first.time[k] = IF k = c THEN run ELSE g.time[k]
      BY <1>3, <2>1 DEF SameTeams
    <3>1. x.run = run /\ x.kind \in {"tee", "team"}
      BY <3>0 DEF Entry
    <3>2. ASSUME NEW k \in Racers(first, {})
          PROVE  \/ first.time[k] = run /\ Entry(first, k) = x
                 \/ k \in Racers(g, {}) /\ Entry(first, k) = Entry(g, k)
      <4>1. CASE k = c
        BY <3>0, <4>1
      <4>2. CASE k # c
        <5>1. k \in Slots /\ g.race[k] = "started" /\ first.time[k] = g.time[k]
          BY <3>0, <4>2 DEF Racers
        <5> QED BY <3>0, <5>1 DEF Racers, Entry
      <4> QED BY <4>1, <4>2
    <3>3. \A k \in Slots : first.time[k] = g.time[k] \/ (first.time[k] = run /\ first.race[k] = "started")
      BY <3>0
    <3> HIDE DEF x
    <3> QED BY <3>0, <3>1, <3>2, <3>3 DEF Begins
  <2> QED BY <1>5, <2>3, <2>4, <2>5, <2>6, KeptTrans
<1>7. CASE t # Flock /\ g.race[c] = "finished"
  BY <1>1, <1>2, <1>7
<1>8. CASE t # Flock /\ waiting /\ g.race[c] # "finished"
  <2>0. t \in OwnTeams
    BY <1>0, <1>8, TeamFacts
  <2>1. PICK m \in Members(g, t) : g.race[m] = "finished"
    BY <1>8
  <2>2. InState(g, g.state[t], result[t], Racing(g, t, {})) /\ m \in Racing(g, t, {})
    BY <2>0, <2>1 DEF Ok, Round, Racing, Members
  <2>3. g.state[t] = FINISHED
    <3>1. g.race[m] # "none" /\ g.race[m] # "started"
      BY <2>1
    <3>2. g.state[t] \in {EMPTY, OPEN, STARTED, UNFINISHABLE, FINISHED}
      BY <1>0, StatesFacts
    <3> QED BY <2>2, <3>1, <3>2 DEF InState, Uniform
  <2>4. \A k \in Slots : again.race[k] = IF k = c THEN "none" ELSE g.race[k]
    BY <1>0, <1>4
  <2>5. again.state[t] = g.state[t] /\ again.team = g.team
    BY <1>4 DEF SameTeams
  <2>6. \A k \in Racing(again, t, {}) : again.race[k] # "started"
    <3> TAKE k \in Racing(again, t, {})
    <3>1. k \in Slots /\ g.team[k] = t /\ again.race[k] # "dead"
      BY <2>5 DEF Racing
    <3>2. CASE k = c
      BY <2>4, <3>1, <3>2
    <3>3. CASE k # c
      <4>1. again.race[k] = g.race[k] /\ k \in Racing(g, t, {})
        BY <2>4, <3>1, <3>3 DEF Racing
      <4> QED BY <2>2, <2>3, <4>1 DEF InState
    <3> QED BY <3>2, <3>3
  <2>7. InState(again, again.state[t], result[t], Racing(again, t, {}))
    BY <2>2, <2>3, <2>5, <2>6, StatesFacts DEF InState
  <2>8. \A k \in Slots : g.team[k] # t =>
                           again.race[k] = g.race[k] /\ again.time[k] = g.time[k]
    BY <1>4, <2>4
  <2>n. g.race[c] = "none"
    <3>1. c \in Racing(g, t, {})
      BY DEF Racing, Alive
    <3>2. g.race[c] # "started" /\ g.race[c] \in Races
      BY <1>0, <2>2, <2>3, <3>1 DEF InState
    <3> QED BY <1>8, <3>2 DEF Races, Alive
  <2>r. again.race = g.race
    BY <1>0, <1>4, <2>n
  <2>t. Timed(again, result)
    BY <1>4, <1>t, <2>r, SameTimes DEF SameTeams, Timed
  <2>9. Ok(again, result, {})
    <3> HIDE DEF t
    <3> QED BY <1>4, <2>0, <2>7, <2>8, <2>t, OneTeamOk
  <2>10. h = again
    BY <1>1, <1>8
  <2>11. Kept(g, again)
    BY <1>4, <2>4 DEF Kept, SameTeams, Alive
  <2>12. Begins(g, again, run)
    BY <1>4, <2>r, BeginsNone DEF SameTeams
  <2> QED BY <2>9, <2>10, <2>11, <2>12
<1>9. CASE t # Flock /\ ~waiting /\ ~(g.state[t] < STARTED) /\ g.race[c] # "finished"
  <2>1. h = begun
    BY <1>1, <1>9
  <2> QED BY <1>5, <2>1
<1>10. CASE t # Flock /\ ~waiting /\ g.state[t] < STARTED /\ g.race[c] # "finished"
  <2>0. t \in OwnTeams /\ here = begun
    BY <1>0, <1>10, TeamFacts
  <2>1. h = all
    BY <1>1, <1>10
  <2>2. g.state[t] \in {EMPTY, OPEN}
    BY <1>0, <1>10, StatesFacts
  <2> HIDE DEF here, t
  <2>3. /\ on \in Game /\ on.name = g.name /\ on.team = g.team /\ on.locked = g.locked
        /\ on.practice = g.practice /\ on.invited = g.invited /\ on.timer = g.timer \ {t}
        /\ on.race = g.race /\ on.time = g.time /\ on.ended = g.ended /\ on.ranks = g.ranks
        /\ on.state = [g.state EXCEPT ![t] = STARTED]
    BY <1>0, <1>3, <2>0, StatesFacts DEF Game, SameTeams
  <2> HIDE DEF on
  <2> DEFINE ps == Playing(here, t)
  <2>4. ps \in SUBSET Slots
    BY DEF Playing, Members
  <2>5. /\ all \in Game /\ SameTeams(on, all) /\ all.ended = on.ended /\ all.ranks = on.ranks
        /\ all.race = [k \in Slots |-> IF k \in ps THEN "started" ELSE on.race[k]]
        /\ all.time = [k \in Slots |-> IF k \in ps THEN run ELSE on.time[k]]
    BY <1>0, <2>3, <2>4, SetRaceFacts
  <2> HIDE DEF all
  <2>6. \A k \in Slots : k \in ps <=> g.team[k] = t /\ g.race[k] # "dead"
    BY <1>3, <2>0 DEF Playing, Members, Alive, SameTeams
  <2> HIDE DEF ps
  <2>7. \A k \in Slots : /\ all.race[k] = IF k \in ps THEN "started" ELSE g.race[k]
                         /\ all.time[k] = IF k \in ps THEN run ELSE g.time[k]
    BY <2>3, <2>5
  <2>8. \A u \in Teams : all.state[u] = IF u = t THEN STARTED ELSE g.state[u]
    BY <1>0, <2>3, <2>5 DEF SameTeams
  <2>9. all.team = g.team /\ all.name = g.name
    BY <2>3, <2>5 DEF SameTeams
  <2>10. all.state[Flock] \in {EMPTY, OPEN}
    BY <2>0, <2>8, TeamFacts DEF Ok
  <2>11. ASSUME NEW u \in OwnTeams PROVE FreshTeam(all, u)
    <3>1. FreshTeam(g, u) /\ u \in Teams
      BY TeamFacts DEF Ok, Fresh
    <3>2. CASE u = t
      <4>1. all.state[u] # EMPTY
        BY <2>8, <3>1, <3>2, StatesFacts
      <4>2. all.team[c] = u
        BY <2>9, <3>2 DEF t
      <4> QED BY <4>1, <4>2 DEF FreshTeam
    <3>3. CASE u # t
      <4>1. all.state[u] = g.state[u]
        BY <2>8, <3>1, <3>3
      <4>2. /\ u \in all.locked <=> u \in g.locked
            /\ u \in all.practice <=> u \in g.practice
            /\ u \in all.timer <=> u \in g.timer
            /\ all.invited[u] = g.invited[u]
        BY <2>3, <2>5, <3>3 DEF SameTeams
      <4> QED BY <2>9, <3>1, <4>1, <4>2 DEF FreshTeam
    <3> QED BY <3>2, <3>3
  <2>12. ASSUME NEW u \in OwnTeams
         PROVE  InState(all, all.state[u], result[u], Racing(all, u, {}))
    <3>1. InState(g, g.state[u], result[u], Racing(g, u, {})) /\ u \in Teams
      BY TeamFacts DEF Ok, Round
    <3>2. CASE u = t
      <4>1. all.state[u] = STARTED
        BY <2>8, <3>1, <3>2
      <4>2. \A k \in Racing(all, u, {}) : k \in ps
        <5> TAKE k \in Racing(all, u, {})
        <5>1. k \in Slots /\ g.team[k] = t /\ all.race[k] # "dead"
          BY <2>9, <3>2 DEF Racing
        <5>2. CASE k \notin ps
          <6>1. g.race[k] # "dead"
            BY <2>7, <5>1, <5>2
          <6> QED BY <2>6, <5>1, <6>1
        <5> QED BY <5>2
      <4>3. \A k \in Racing(all, u, {}) : all.race[k] = "started" /\ all.time[k] = run
        BY <2>7, <4>2 DEF Racing
      <4>4. result[u] = NoResult
        BY <3>2 DEF Saving, t
      <4>5. Uniform(all, Racing(all, u, {}))
        BY <4>3 DEF Uniform
      <4>6. STARTED \notin {EMPTY, OPEN, FINISHED}
        BY StatesFacts
      <4> QED BY <4>1, <4>4, <4>5, <4>6 DEF InState
    <3>3. CASE u # t
      <4>1. all.state[u] = g.state[u]
        BY <2>8, <3>1, <3>3
      <4>2. ASSUME NEW k \in Racing(all, u, {})
            PROVE  k \in Racing(g, u, {}) /\ all.race[k] = g.race[k] /\ all.time[k] = g.time[k]
        <5>1. k \in Slots /\ g.team[k] = u /\ all.race[k] # "dead"
          BY <2>9 DEF Racing
        <5>2. k \notin ps
          BY <2>6, <3>3, <5>1
        <5>3. all.race[k] = g.race[k] /\ all.time[k] = g.time[k]
          BY <2>7, <5>1, <5>2
        <5> QED BY <5>1, <5>3 DEF Racing
      <4>3. Racing(all, u, {}) \subseteq Racing(g, u, {})
        BY <4>2
      <4> QED BY <3>1, <4>1, <4>2, <4>3, FewerRacing
    <3> QED BY <3>2, <3>3
  <2>t. Timed(all, result)
    <3>1. Clocks(all)
      BY <1>t, <2>7 DEF Timed, Clocks
    <3>2. Arrived(all, result)
      <4> SUFFICES ASSUME NEW k \in all.ended, all.team[k] # Flock, all.race[k] # "started"
                   PROVE  result[all.team[k]].kind = "save"
        BY DEF Arrived
      <4>1. k \in g.ended /\ k \in Slots /\ all.team[k] = g.team[k]
        BY <1>0, <2>3, <2>5, <2>9 DEF Game
      <4>2. g.race[k] # "started"
        BY <2>7, <4>1
      <4> QED BY <1>t, <4>1, <4>2 DEF Timed, Arrived
    <3> QED BY <1>t, <2>3, <2>5, <3>1, <3>2 DEF Timed, SameTeams
  <2>b. Begins(g, all, run)
    <3> DEFINE x == [kind |-> "team", of |-> t, run |-> run, practice |-> t \in g.practice]
    <3>0. all.ranks = g.ranks /\ all.practice = g.practice
      BY <2>3, <2>5 DEF SameTeams
    <3>1. x.run = run /\ x.kind \in {"tee", "team"}
      OBVIOUS
    <3>2. ASSUME NEW k \in Racers(all, {})
          PROVE  \/ all.time[k] = run /\ Entry(all, k) = x
                 \/ k \in Racers(g, {}) /\ Entry(all, k) = Entry(g, k)
      <4>0. k \in Slots /\ all.race[k] = "started"
        BY DEF Racers
      <4>1. CASE k \in ps
        <5>1. all.team[k] = t /\ t # Flock /\ all.time[k] = run
          BY <1>10, <2>6, <2>7, <2>9, <4>0, <4>1
        <5> QED BY <3>0, <5>1 DEF Entry
      <4>2. CASE k \notin ps
        <5>1. g.race[k] = "started" /\ all.time[k] = g.time[k] /\ all.team[k] = g.team[k]
          BY <2>7, <2>9, <4>0, <4>2
        <5> QED BY <3>0, <4>0, <5>1 DEF Racers, Entry
      <4> QED BY <4>1, <4>2
    <3>3. \A k \in Slots : all.time[k] = g.time[k] \/ (all.time[k] = run /\ all.race[k] = "started")
      BY <2>7
    <3> HIDE DEF x
    <3> QED BY <3>0, <3>1, <3>2, <3>3 DEF Begins
  <2>13. Ok(all, result, {})
    BY <2>5, <2>10, <2>11, <2>12, <2>t DEF Ok, Fresh, Round
  <2>14. \A k \in Slots : g.race[k] = "dead" => all.race[k] = "dead"
    BY <2>6, <2>7
  <2>15. Kept(g, all)
    BY <2>9, <2>14 DEF Kept
  <2> QED BY <2>1, <2>13, <2>15, <2>b
<1> QED
  <2> HIDE DEF waiting, t
  <2> QED BY <1>6, <1>7, <1>8, <1>9, <1>10, Zenon

LEMMA FinishOk ==
  ASSUME NEW g, Ok(g, result, {}), NEW c \in Slots, g.race[c] = "started"
  PROVE  /\ Ok(OnCharacterFinish(g, c), result, {}) /\ Kept(g, OnCharacterFinish(g, c))
         /\ Tame(g, {}, OnCharacterFinish(g, c), {})
<1> DEFINE t == g.team[c]
           ends == [g EXCEPT !.ended = @ \cup {c}]
           here == IF c \in g.begun THEN ends ELSE g
           alone == OnFinish(g, {c}, FALSE)
           done == CheckTeamFinished(here, t)
<1>0. g \in Game /\ t \in Teams /\ {c} \in SUBSET Slots /\ {c} # {} /\ {} \in SUBSET Slots
  BY DEF Ok, Game
<1>1. OnCharacterFinish(g, c) = IF t = Flock THEN alone ELSE done
  BY DEF OnCharacterFinish
<1>2. CASE t = Flock
  <2>1. /\ alone \in Game /\ SameTeams(g, alone) /\ alone.time = g.time
        /\ alone.race = [k \in Slots |-> IF k \in {c} THEN "finished" ELSE g.race[k]]
        /\ alone.ended = g.ended /\ alone.ranks = RanksOf(g, {c}, FALSE)
    <3>1. Finished(g, {c}, RanksOf(g, {c}, FALSE), alone)
      BY <1>0, OnFinishFacts, Zenon
    <3> HIDE DEF alone
    <3> QED BY <3>1 DEF Finished
  <2> HIDE DEF alone
  <2>t. Timed(alone, result)
    <3>0. Timed(g, result)
      BY DEF Ok
    <3>1. Clocks(alone)
      BY <2>1, <3>0 DEF Timed, Clocks
    <3>2. Arrived(alone, result)
      <4> SUFFICES ASSUME NEW k \in alone.ended, alone.team[k] # Flock, alone.race[k] # "started"
                   PROVE  result[alone.team[k]].kind = "save"
        BY DEF Arrived
      <4>1. k \in g.ended /\ k \in Slots /\ alone.team[k] = g.team[k] /\ k # c
        BY <1>0, <1>2, <2>1 DEF Game, SameTeams
      <4>2. g.race[k] # "started"
        BY <2>1, <4>1
      <4> QED BY <3>0, <4>1, <4>2 DEF Timed, Arrived
    <3> QED BY <2>1, <3>0, <3>1, <3>2 DEF Timed, SameTeams
  <2>e. Tame(g, {}, alone, {})
    <3> DEFINE e == Entry(g, c)
    <3>1. \A k \in {c} : k \in Racers(g, {})
      BY DEF Racers
    <3>2. \A k \in Racers(g, {}) : Entry(g, k) = e <=> k \in {c}
      <4> SUFFICES ASSUME NEW k \in Racers(g, {}), Entry(g, k) = Entry(g, c) PROVE k = c
        OBVIOUS
      <4>1. Entry(g, c).kind = "tee" /\ Entry(g, c).of = c
        BY <1>2 DEF Entry
      <4>2. Entry(g, k).kind = "tee" /\ Entry(g, k).of = c
        BY <4>1
      <4> QED BY <4>2 DEF Entry
    <3>3. e.kind # "ranked" /\ ~e.practice
      BY <1>2 DEF Entry, Ok, Timed
    <3>4. /\ alone.ranks = RanksOf(g, {c}, FALSE)
          /\ alone.team = g.team /\ alone.time = g.time /\ alone.practice = g.practice
          /\ \A k \in Slots : alone.race[k] = IF k \in {c} THEN "finished" ELSE g.race[k]
      BY <2>1 DEF SameTeams
    <3> HIDE DEF e
    <3> QED BY <1>0, <3>1, <3>2, <3>3, <3>4, RankTame
  <2>2. ASSUME NEW k \in Slots
        PROVE  \/ g.team[k] = Flock
               \/ k \notin {} /\ alone.race[k] = g.race[k] /\ alone.time[k] = g.time[k]
    BY <1>2, <2>1
  <2>3. Ok(alone, result, {})
    BY <2>1, <2>2, <2>t, SameTeamsOk
  <2>4. Kept(g, alone)
    BY <2>1 DEF Kept, SameTeams, Alive
  <2> QED BY <1>1, <1>2, <2>3, <2>4, <2>e
<1>3. CASE t # Flock
  <2>1. /\ ends \in Game /\ SameTeams(g, ends) /\ ends.race = g.race /\ ends.time = g.time
        /\ ends.ended = g.ended \cup {c} /\ ends.ranks = g.ranks
    BY <1>0 DEF Game, SameTeams
  <2> HIDE DEF ends
  <2>t. Timed(ends, result)
    <3>0. Timed(g, result)
      BY DEF Ok
    <3>1. Clocks(ends)
      BY <2>1, <3>0 DEF Timed, Clocks
    <3>2. Arrived(ends, result)
      BY <2>1, <3>0 DEF Timed, Arrived, SameTeams
    <3> QED BY <2>1, <3>0, <3>1, <3>2 DEF Timed, SameTeams
  <2>2. Ok(ends, result, {})
    BY <2>1, <2>t, SameTeamsOk
  <2>e. Tame(g, {}, ends, {}) /\ Tame(g, {}, g, {})
    <3>1. \A k \in Racers(ends, {}) : k \in Racers(g, {})
      BY <2>1 DEF Racers
    <3> QED BY <2>1, <3>1, SameRaces, TameSame DEF SameTeams
  <2>3. Ok(here, result, {}) /\ Kept(g, here) /\ Tame(g, {}, here, {})
    BY <2>1, <2>2, <2>e DEF Kept, SameTeams
  <2> HIDE DEF here, t
  <2>4. Ok(done, result, {}) /\ Kept(here, done) /\ Tame(here, {}, done, {})
    BY <1>0, <2>3, CheckOk
  <2> HIDE DEF done
  <2>5. Kept(g, done)
    BY <2>3, <2>4, KeptTrans
  <2>6. Tame(g, {}, done, {})
    BY <2>3, <2>4, TameTrans
  <2> QED BY <1>1, <1>3, <2>4, <2>5, <2>6
<1> QED BY <1>2, <1>3

-----------------------------------------------------------------------------
(* Changes that leave the races alone *)
LEMMA SettingsOk ==
  ASSUME NEW res, NEW ex, NEW g, Ok(g, res, ex), NEW h \in Game, NEW t \in Teams,
         t \in OwnTeams => Members(g, t) # {},
         h.team = g.team, h.state = g.state, h.race = g.race, h.time = g.time,
         h.ended = g.ended, Flock \notin h.locked, Flock \notin h.practice,
         \A u \in OwnTeams : u # t => /\ u \in h.locked <=> u \in g.locked
                                      /\ u \in h.practice <=> u \in g.practice
                                      /\ u \in h.timer <=> u \in g.timer
                                      /\ h.invited[u] = g.invited[u]
  PROVE  Ok(h, res, ex)
<1>1. h.state[Flock] \in {EMPTY, OPEN}
  BY DEF Ok
<1>2. ASSUME NEW u \in OwnTeams PROVE FreshTeam(h, u)
  <2>1. FreshTeam(g, u)
    BY DEF Ok, Fresh
  <2>2. CASE u = t
    BY <2>1, <2>2 DEF FreshTeam, Members
  <2>3. CASE u # t
    BY <2>1, <2>3 DEF FreshTeam
  <2> QED BY <2>2, <2>3
<1>3. ASSUME NEW u \in OwnTeams
      PROVE  InState(h, h.state[u], res[u], Racing(h, u, ex))
  <2>1. InState(g, g.state[u], res[u], Racing(g, u, ex)) /\ Racing(h, u, ex) = Racing(g, u, ex)
    BY DEF Ok, Round, Racing
  <2> QED BY <2>1, FewerRacing
<1>4. Timed(h, res)
  BY SameTimes DEF Ok
<1> QED BY <1>1, <1>2, <1>3, <1>4 DEF Ok, Fresh, Round

(* A team may begin to practise; practice does not end while it races. *)
LEMMA SettingsTame ==
  ASSUME NEW g, NEW h,
         h.team = g.team, h.race = g.race, h.time = g.time, h.ranks = g.ranks,
         \A t : t \in g.practice => t \in h.practice
  PROVE  Tame(g, {}, h, {})
<1> DEFINE P == Entries(g, {})
           Q == Entries(h, {})
<1>1. Racers(h, {}) = Racers(g, {})
  BY DEF Racers
<1>2. \A c, d : Entry(g, c) = Entry(g, d) => Entry(h, c) = Entry(h, d)
  <2> SUFFICES ASSUME NEW c, NEW d, Entry(g, c) = Entry(g, d)
               PROVE  Entry(h, c) = Entry(h, d)
    OBVIOUS
  <2>1. /\ Entry(g, c).kind = Entry(g, d).kind /\ Entry(g, c).of = Entry(g, d).of
        /\ g.time[c] = g.time[d]
    BY DEF Entry
  <2>2. (g.team[c] = Flock /\ g.team[d] = Flock /\ c = d) \/ (g.team[c] = g.team[d] /\ g.team[c] # Flock)
    BY <2>1 DEF Entry
  <2> QED BY <2>1, <2>2 DEF Entry
<1>3. \A c : Entry(h, c).run = Entry(g, c).run /\ (Entry(g, c).practice => Entry(h, c).practice)
  BY DEF Entry
<1>4. Ranked(h) = Ranked(g)
  BY DEF Ranked
<1>5. \A q \in Q : \/ q \in Ranked(g)
                   \/ \E c \in Racers(g, {}) : q = Entry(h, c)
  BY <1>1, <1>4 DEF Entries, On
<1>6. \A c \in Racers(g, {}) : Entry(g, c) \in P
  BY DEF Entries, On
<1>7. Ranked(g) \subseteq P
  BY DEF Entries
<1>8. \A c, d : Entry(g, c).kind # "ranked" /\ \A q \in Ranked(g) : q.kind = "ranked"
  BY DEF Entry, Ranked, RankEntry
<1> HIDE DEF P, Q
<1>9. Follows(P, Q)
  <2>1. ASSUME NEW q \in Q PROVE \E p \in P : p.run = q.run /\ (p.practice => q.practice)
    BY <1>3, <1>5, <1>6, <1>7
  <2>2. ASSUME NEW r, NEW q1 \in Q, NEW q2 \in Q, q1 # q2, q1.run = r, q2.run = r
        PROVE  Twice(P, r)
    <3>1. CASE q1 \in Ranked(g) /\ q2 \in Ranked(g)
      BY <1>7, <2>2, <3>1 DEF Twice
    <3>2. ASSUME NEW c \in Racers(g, {}), q1 = Entry(h, c), q2 \in Ranked(g) PROVE Twice(P, r)
      <4>1. Entry(g, c) # q2 /\ Entry(g, c) \in P /\ q2 \in P
        BY <1>6, <1>7, <1>8, <3>2
      <4>2. Entry(g, c).run = r /\ q2.run = r
        BY <1>3, <2>2, <3>2
      <4> QED BY <4>1, <4>2 DEF Twice
    <3>3. ASSUME NEW c \in Racers(g, {}), q2 = Entry(h, c), q1 \in Ranked(g) PROVE Twice(P, r)
      <4>1. Entry(g, c) # q1 /\ Entry(g, c) \in P /\ q1 \in P
        BY <1>6, <1>7, <1>8, <3>3
      <4>2. Entry(g, c).run = r /\ q1.run = r
        BY <1>3, <2>2, <3>3
      <4> QED BY <4>1, <4>2 DEF Twice
    <3>4. ASSUME NEW c \in Racers(g, {}), NEW d \in Racers(g, {}), q1 = Entry(h, c), q2 = Entry(h, d)
          PROVE  Twice(P, r)
      <4>1. Entry(g, c) # Entry(g, d) /\ Entry(g, c) \in P /\ Entry(g, d) \in P
        BY <1>2, <1>6, <2>2, <3>4
      <4>2. Entry(g, c).run = r /\ Entry(g, d).run = r
        BY <1>3, <2>2, <3>4
      <4> QED BY <4>1, <4>2 DEF Twice
    <3> QED BY <1>5, <3>1, <3>2, <3>3, <3>4
  <2> QED BY <2>1, <2>2 DEF Follows, Twice
<1>10. \A c \in Racers(h, {}) : \E d \in Racers(g, {}) : h.time[c] = g.time[d]
  BY <1>1
<1> QED BY <1>9, <1>10 DEF Tame, P, Q

LEMMA RequestOk ==
  ASSUME NEW res, NEW ex, NEW g, Ok(g, res, ex), NEW r,
         \A u \in OwnTeams :
           \/ r[u] = NoResult
           \/ res[u] # NoResult /\ (r[u].kind = "load" => res[u].kind = "load")
           \/ Racing(g, u, ex) = {} /\ r[u].kind # "load"
           \/ g.state[u] \in {EMPTY, OPEN},
         \A c \in g.ended : g.team[c] # Flock /\ g.race[c] # "started"
                              /\ res[g.team[c]].kind = "save" => r[g.team[c]].kind = "save"
  PROVE  Ok(g, r, ex)
<1>1. ASSUME NEW u \in OwnTeams
      PROVE  InState(g, g.state[u], r[u], Racing(g, u, ex))
  <2>1. InState(g, g.state[u], res[u], Racing(g, u, ex))
    BY DEF Ok, Round
  <2>2. CASE g.state[u] \in {EMPTY, OPEN}
    <3>1. \A c \in Racing(g, u, ex) : g.race[c] = "none"
      BY <2>1, <2>2 DEF InState
    <3> QED BY <2>2, <3>1, NotStarted
  <2>3. CASE ~(g.state[u] \in {EMPTY, OPEN})
    BY <2>1, <2>3 DEF InState
  <2> QED BY <2>2, <2>3
<1>2. Timed(g, r)
  BY DEF Ok, Timed, Arrived
<1> QED BY <1>1, <1>2 DEF Ok, Round

-----------------------------------------------------------------------------
(* The tees of a save raced together, or none had started; their clocks    *)
(* are right, and who had arrived had started.                             *)
SavedTogether(s) ==
  /\ \/ \A n \in DOMAIN s.tees : s.tees[n].race = "none"
     \/ \A m, n \in DOMAIN s.tees : s.tees[m].race = "started" /\ s.tees[m].time = s.tees[n].time
  /\ \A n \in DOMAIN s.tees : /\ s.tees[n].race = "started" => s.tees[n].time # 0
                              /\ s.tees[n].race = "none" => s.tees[n].time = 0
                              /\ s.tees[n].ended => s.tees[n].race = "started"

(* A request that has a save: its own, or the row it loads *)
HasSave(r) == r.kind = "save" \/ r.status \in {"selected", "LOAD_SUCCESS"}

(* Who is not connected has no team and no tee; names tell players apart. *)
Players(g) ==
  /\ \A c \in Slots : g.name[c] = Nobody => g.team[c] = Flock /\ g.race[c] = "dead"
  /\ \A c, d \in Slots : g.name[c] = g.name[d] /\ g.name[c] # Nobody => c = d

(* The team has nobody but the players the request was made for, and the   *)
(* save it carries is of a team that raced together.                       *)
Request(g, t, r) ==
  r # NoResult =>
    /\ \A c \in Slots : g.team[c] = t => \E n \in DOMAIN r.slots : r.slots[n] = c /\ g.name[c] = n
    /\ HasSave(r) => SavedTogether(r.saved)

Requests(g, res) == \A t \in OwnTeams : Request(g, t, res[t])

TeamsInv ==
  /\ TypeOK
  /\ Ok(game, result, {})
  /\ Players(game)
  /\ Requests(game, result)
  /\ \A row \in rows : SavedTogether(row)

LEMMA KeptPlayers ==
  ASSUME NEW g, NEW h, Kept(g, h), Players(g)
  PROVE  Players(h)
BY DEF Kept, Players

LEMMA KeptRequests ==
  ASSUME NEW g, NEW h, NEW res, Requests(g, res), h.name = g.name,
         \A c \in Slots : h.team[c] \in {g.team[c], Flock}
  PROVE  Requests(h, res)
<1> SUFFICES ASSUME NEW t \in OwnTeams PROVE Request(h, t, res[t])
  BY DEF Requests
<1>1. Request(g, t, res[t]) /\ t # Flock
  BY TeamFacts DEF Requests
<1>2. \A c \in Slots : h.team[c] = t => g.team[c] = t
  BY <1>1
<1> QED BY <1>1, <1>2 DEF Request

(* A handler that leaves the saves alone keeps the invariant. *)
LEMMA GameStep ==
  ASSUME TeamsInv, NEW h, game' = h, past' \in Past, UNCHANGED <<config, result, rows>>,
         Ok(h, result, {}), Players(h), Requests(h, result)
  PROVE  TeamsInv'
<1>1. TypeOK'
  BY DEF TeamsInv, TypeOK, Ok
<1>2. Ok(game', result', {})
  OBVIOUS
<1>3. Players(game') /\ Requests(game', result')
  OBVIOUS
<1>4. \A row \in rows' : SavedTogether(row)
  BY DEF TeamsInv
<1> QED BY <1>1, <1>2, <1>3, <1>4 DEF TeamsInv

LEMMA KeptStep ==
  ASSUME TeamsInv, NEW h, game' = h, past' \in Past, UNCHANGED <<config, result, rows>>,
         Ok(h, result, {}), Kept(game, h)
  PROVE  TeamsInv'
<1>1. Players(h)
  BY KeptPlayers DEF TeamsInv
<1>2. Requests(h, result)
  BY KeptRequests DEF TeamsInv, Kept
<1> QED BY <1>1, <1>2, GameStep

LEMMA BecomesPast ==
  ASSUME TeamsInv, NEW h \in Game, Becomes(h)
  PROVE  game' = h /\ past' \in Past /\ UNCHANGED <<config, result, rows>>
<1>1. Practised(h) \in SUBSET Nat
  BY DEF Practised, Game
<1>2. past \in Past /\ past' = [past EXCEPT !.practised = @ \cup Practised(h)]
  BY DEF Becomes, TeamsInv, TypeOK
<1> HIDE DEF Practised
<1>3. past' \in Past
  BY <1>1, <1>2 DEF Past
<1> QED BY <1>3 DEF Becomes

(* h is g after the team t has got its save back. *)
Loaded(g, h, t, saved) ==
  /\ h.ranks = g.ranks
  /\ \A c \in Racers(h, {}) :
       \/ c \in Racers(g, {}) /\ Entry(h, c) = Entry(g, c)
       \/ \E n \in DOMAIN saved.tees :
            /\ saved.tees[n].race = "started"
            /\ Entry(h, c) = [kind |-> "team", of |-> t, run |-> saved.tees[n].time,
                             practice |-> saved.practice]
  /\ \A c \in Racers(g, {}) : c \in Racers(h, {}) /\ h.time[c] = g.time[c]
  /\ \A n \in DOMAIN saved.tees : saved.tees[n].race = "started" =>
       \E c \in Racers(h, {}) : h.time[c] = saved.tees[n].time
  /\ \A c \in Slots : h.time[c] \in {0, g.time[c]} \/ c \in Racers(h, {})

(* A team gets its save back: all its members are in it. *)
LEMMA LoadOk ==
  ASSUME TeamsInv, NEW t \in OwnTeams, Members(game, t) # {}, Saving(t),
         result[t].status \in {"SAVE_FAILED", "LOAD_SUCCESS"},
         NEW res, res = [result EXCEPT ![t] = NoResult]
  PROVE  /\ Ok(Load(game, t), res, {})
         /\ Players(Load(game, t))
         /\ Requests(Load(game, t), res)
         /\ Loaded(game, Load(game, t), t, result[t].saved)
<1> DEFINE r == result[t]
           saved == r.saved
           slots == r.slots
           back == {n \in DOMAIN saved.tees : /\ game.name[slots[n]] # Nobody
                                              /\ game.team[slots[n]] = t}
           TeeOf(c) == saved.tees[CHOOSE n \in back : slots[n] = c]
           cs == {slots[n] : n \in back}
           With(set, yes) == IF yes THEN set \cup {t} ELSE set \ {t}
           race == [c \in Slots |-> IF c \in cs THEN TeeOf(c).race ELSE game.race[c]]
           time == [c \in Slots |-> IF c \in cs THEN TeeOf(c).time ELSE game.time[c]]
           locked == With(game.locked, saved.locked)
           practice == With(game.practice, saved.practice)
           begun == (game.begun \ cs) \cup {c \in cs : TeeOf(c).begun}
           ended == (game.ended \ cs) \cup {c \in cs : TeeOf(c).ended}
           h == Load(game, t)
<1>0. /\ game \in Game /\ t \in Teams /\ t # Flock /\ r # NoResult
      /\ game.state \in [Teams -> States] /\ Ok(game, result, {})
  BY TeamFacts DEF TeamsInv, Ok, Game, Saving
<1>1. PICK D \in SUBSET Names : r \in ResultOf(D)
  BY <1>0 DEF TeamsInv, TypeOK
<1>2. /\ saved.locked \in BOOLEAN /\ saved.practice \in BOOLEAN /\ saved.tees \in [D -> Tees]
      /\ slots \in [D -> Slots] /\ HasSave(r)
  <2>1. saved \in SavedOf(D) /\ slots \in [D -> Slots] /\ HasSave(r)
    BY <1>1 DEF ResultOf, HasSave
  <2> QED BY <2>1 DEF SavedOf
<1>3. /\ SavedTogether(saved)
      /\ \A c \in Slots : game.team[c] = t => \E n \in D : slots[n] = c /\ game.name[c] = n
  <2>1. Request(game, t, r)
    BY DEF TeamsInv, Requests
  <2>2. DOMAIN slots = D
    BY <1>2
  <2> HIDE DEF saved, slots
  <2> QED BY <1>0, <1>2, <2>1, <2>2 DEF Request, saved, slots
<1>4. h = [game EXCEPT !.state[t] = STARTED, !.locked = locked, !.practice = practice,
                       !.race = race, !.time = time, !.begun = begun, !.ended = ended]
  BY DEF Load
<1> HIDE DEF h, r, saved, slots
<1>5. ASSUME NEW c \in Slots
      PROVE  c \in cs <=> game.team[c] = t
  <2>1. ASSUME c \in cs PROVE game.team[c] = t
    BY <2>1
  <2>2. ASSUME game.team[c] = t PROVE c \in cs
    <3>1. PICK n \in D : slots[n] = c /\ game.name[c] = n
      BY <1>3, <2>2
    <3>2. game.name[c] # Nobody
      BY <1>0, <2>2 DEF TeamsInv, Players
    <3>3. n \in back
      BY <1>2, <2>2, <3>1, <3>2
    <3> QED BY <3>1, <3>3
  <2> QED BY <2>1, <2>2
<1>6. ASSUME NEW c \in cs PROVE \E n \in D : TeeOf(c) = saved.tees[n]
  <2>1. \E n \in back : slots[n] = c
    OBVIOUS
  <2>2. (CHOOSE n \in back : slots[n] = c) \in back
    BY <2>1
  <2>3. back \subseteq D
    BY <1>2
  <2> QED BY <2>2, <2>3
<1>7. \A c \in cs : TeeOf(c) \in Tees
  BY <1>2, <1>6
<1>8. cs \subseteq Slots
  BY <1>2
<1> HIDE DEF cs, TeeOf
<1>9. race \in [Slots -> Races] /\ time \in [Slots -> Nat]
  <2>1. \A c \in cs : TeeOf(c).race \in Races /\ TeeOf(c).time \in Nat
    BY <1>7 DEF Tees
  <2> QED BY <1>0, <2>1 DEF Game
<1>10. /\ locked \in SUBSET Teams /\ practice \in SUBSET Teams
       /\ begun \in SUBSET Slots /\ ended \in SUBSET Slots
  BY <1>0, <1>8 DEF Game
<1>11. \A u \in OwnTeams : u # t => /\ u \in locked <=> u \in game.locked
                                    /\ u \in practice <=> u \in game.practice
  OBVIOUS
<1>12. \A c \in Slots : /\ game.team[c] = t => \E n \in D : race[c] = saved.tees[n].race
                                                         /\ time[c] = saved.tees[n].time
                        /\ game.team[c] # t => race[c] = game.race[c] /\ time[c] = game.time[c]
  BY <1>5, <1>6
<1>e. \A c \in ended : \/ game.team[c] # t /\ c \in game.ended
                       \/ race[c] = "started"
  <2> SUFFICES ASSUME NEW c \in ended, ~(game.team[c] # t /\ c \in game.ended)
               PROVE  race[c] = "started"
    OBVIOUS
  <2>1. c \in Slots /\ c \in cs /\ TeeOf(c).ended
    BY <1>0, <1>5, <1>8 DEF Game
  <2>2. PICK n \in D : TeeOf(c) = saved.tees[n]
    BY <1>6, <2>1
  <2>3. DOMAIN saved.tees = D
    BY <1>2
  <2>4. TeeOf(c).race = "started"
    BY <1>3, <2>1, <2>2, <2>3 DEF SavedTogether
  <2> QED BY <2>1, <2>4
<1>f. Flock \notin locked /\ Flock \notin practice
  BY <1>0 DEF Ok, Timed
<1>p. /\ (t \in practice) = saved.practice
      /\ \A u : u # t => (u \in practice) = (u \in game.practice)
  BY <1>2
<1> HIDE DEF race, time, locked, practice, begun, ended
<1>13. /\ h \in Game
       /\ h.name = game.name /\ h.team = game.team /\ h.timer = game.timer
       /\ h.invited = game.invited /\ h.locked = locked /\ h.practice = practice
       /\ h.race = race /\ h.time = time /\ h.state = [game.state EXCEPT ![t] = STARTED]
       /\ h.ended = ended /\ h.ranks = game.ranks
  BY <1>0, <1>4, <1>9, <1>10, StatesFacts DEF Game
<1>14. \A u \in Teams : h.state[u] = IF u = t THEN STARTED ELSE game.state[u]
  BY <1>0, <1>13
<1>15. h.state[Flock] \in {EMPTY, OPEN}
  BY <1>0, <1>14, TeamFacts DEF Ok
<1>16. ASSUME NEW u \in OwnTeams PROVE FreshTeam(h, u)
  <2>1. FreshTeam(game, u) /\ u \in Teams
    BY <1>0, TeamFacts DEF Ok, Fresh
  <2>2. CASE u = t
    <3>1. h.state[u] # EMPTY
      BY <1>14, <2>1, <2>2, StatesFacts
    <3>2. \E c \in Slots : h.team[c] = u
      BY <1>13, <2>2 DEF Members
    <3> QED BY <3>1, <3>2 DEF FreshTeam
  <2>3. CASE u # t
    <3>1. h.state[u] = game.state[u]
      BY <1>14, <2>1, <2>3
    <3>2. (u \in h.locked <=> u \in game.locked) /\ (u \in h.practice <=> u \in game.practice)
      BY <1>11, <1>13, <2>3
    <3> QED BY <1>13, <2>1, <3>1, <3>2 DEF FreshTeam
  <2> QED BY <2>2, <2>3
<1>17. \A u \in OwnTeams : res[u] = IF u = t THEN NoResult ELSE result[u]
  BY TeamFacts DEF TeamsInv, TypeOK
<1>18. ASSUME NEW u \in OwnTeams
       PROVE  InState(h, h.state[u], res[u], Racing(h, u, {}))
  <2>1. InState(game, game.state[u], result[u], Racing(game, u, {})) /\ u \in Teams
    BY <1>0, TeamFacts DEF Ok, Round
  <2>2. CASE u = t
    <3>1. h.state[u] = STARTED /\ res[u] = NoResult
      BY <1>14, <1>17, <2>1, <2>2
    <3>2. \A c \in Racing(h, u, {}) :
            \E n \in D : h.race[c] = saved.tees[n].race /\ h.time[c] = saved.tees[n].time
      BY <1>12, <1>13, <2>2 DEF Racing
    <3>3. DOMAIN saved.tees = D
      BY <1>2
    <3>4. Uniform(h, Racing(h, u, {}))
      <4>1. CASE \A n \in D : saved.tees[n].race = "none"
        BY <3>2, <4>1 DEF Uniform
      <4>2. CASE \A m, n \in D : saved.tees[m].race = "started" /\ saved.tees[m].time = saved.tees[n].time
        <5>1. ASSUME NEW c \in Racing(h, u, {}), NEW d \in Racing(h, u, {})
              PROVE  h.race[c] = "started" /\ h.time[c] = h.time[d]
          BY <3>2, <4>2
        <5> QED BY <5>1 DEF Uniform
      <4> QED BY <1>3, <3>3, <4>1, <4>2 DEF SavedTogether
    <3>5. STARTED \notin {EMPTY, OPEN, FINISHED}
      BY StatesFacts
    <3> QED BY <3>1, <3>4, <3>5 DEF InState
  <2>3. CASE u # t
    <3>1. h.state[u] = game.state[u] /\ res[u] = result[u]
      BY <1>14, <1>17, <2>1, <2>3
    <3>2. \A c \in Racing(h, u, {}) :
            c \in Racing(game, u, {}) /\ h.race[c] = game.race[c] /\ h.time[c] = game.time[c]
      BY <1>12, <1>13, <2>3 DEF Racing
    <3>3. Racing(h, u, {}) \subseteq Racing(game, u, {})
      BY <3>2
    <3> QED BY <2>1, <3>1, <3>2, <3>3, FewerRacing
  <2> QED BY <2>2, <2>3
<1>t. Timed(h, res)
  <2>1. Timed(game, result) /\ DOMAIN saved.tees = D
    BY <1>0, <1>2 DEF Ok
  <2>2. ASSUME NEW c \in Slots
        PROVE  /\ h.race[c] = "started" => h.time[c] # 0
               /\ h.race[c] \in {"dead", "none"} => h.time[c] = 0
    <3>1. CASE game.team[c] # t
      BY <1>12, <1>13, <2>1, <3>1 DEF Timed, Clocks
    <3>2. CASE game.team[c] = t
      <4>1. PICK n \in D : race[c] = saved.tees[n].race /\ time[c] = saved.tees[n].time
        BY <1>12, <3>2
      <4>2. saved.tees[n].race \in {"none", "started"}
        BY <1>3, <2>1 DEF SavedTogether
      <4>3. /\ saved.tees[n].race = "started" => saved.tees[n].time # 0
            /\ saved.tees[n].race = "none" => saved.tees[n].time = 0
        BY <1>3, <2>1 DEF SavedTogether
      <4> QED BY <1>13, <4>1, <4>2, <4>3
    <3> QED BY <3>1, <3>2
  <2>3. Arrived(h, res)
    <3> SUFFICES ASSUME NEW c \in h.ended, h.team[c] # Flock, h.race[c] # "started"
                 PROVE  res[h.team[c]].kind = "save"
      BY DEF Arrived
    <3>1. c \in Slots /\ game.team[c] # t /\ c \in game.ended
      BY <1>e, <1>10, <1>13
    <3>2. game.race[c] # "started" /\ h.team[c] = game.team[c]
      BY <1>12, <1>13, <3>1
    <3>3. result[game.team[c]].kind = "save" /\ game.team[c] \in OwnTeams
      BY <1>0, <2>1, <3>1, <3>2, TeamFacts DEF Timed, Arrived, Game
    <3> QED BY <1>17, <3>1, <3>2, <3>3
  <2> QED BY <1>13, <1>f, <2>2, <2>3 DEF Timed, Clocks
<1>19. Ok(h, res, {})
  BY <1>13, <1>15, <1>16, <1>18, <1>t DEF Ok, Fresh, Round
<1>20. Players(h)
  <2>1. Players(game)
    BY DEF TeamsInv
  <2>2. \A c \in Slots : game.name[c] = Nobody => h.race[c] = game.race[c]
    BY <1>0, <1>12, <1>13, <2>1 DEF Players
  <2> QED BY <1>13, <2>1, <2>2 DEF Players
<1>21. Requests(h, res)
  <2> SUFFICES ASSUME NEW u \in OwnTeams PROVE Request(h, u, res[u])
    BY DEF Requests
  <2>1. Request(game, u, result[u])
    BY DEF TeamsInv, Requests
  <2> QED BY <1>13, <1>17, <2>1 DEF Request
<1>22. ASSUME NEW c \in Racers(h, {})
       PROVE  \/ c \in Racers(game, {}) /\ Entry(h, c) = Entry(game, c)
              \/ \E n \in DOMAIN saved.tees :
                   /\ saved.tees[n].race = "started"
                   /\ Entry(h, c) = [kind |-> "team", of |-> t, run |-> saved.tees[n].time,
                                    practice |-> saved.practice]
  <2>1. c \in Slots /\ h.race[c] = "started"
    BY <1>22 DEF Racers
  <2>2. CASE game.team[c] = t
    <3>1. PICK n \in D : race[c] = saved.tees[n].race /\ time[c] = saved.tees[n].time
      BY <1>12, <2>1, <2>2
    <3>2. DOMAIN saved.tees = D
      BY <1>2
    <3>3. Entry(h, c) = [kind |-> "team", of |-> t, run |-> saved.tees[n].time,
                         practice |-> saved.practice]
      <4>1. /\ h.team[c] = t /\ h.time[c] = saved.tees[n].time
            /\ (h.team[c] \in h.practice) = saved.practice
        BY <1>p, <1>13, <2>2, <3>1
      <4> HIDE DEF r, saved
      <4> QED BY <1>0, <4>1 DEF Entry
    <3> QED BY <1>13, <2>1, <3>1, <3>2, <3>3
  <2>3. CASE game.team[c] # t
    <3>1. h.team[c] = game.team[c] /\ h.time[c] = game.time[c] /\ h.race[c] = game.race[c]
      BY <1>12, <1>13, <2>1, <2>3
    <3>2. (h.team[c] \in h.practice) = (game.team[c] \in game.practice)
      BY <1>p, <1>13, <2>3
    <3>3. Entry(h, c) = Entry(game, c)
      BY <3>1, <3>2 DEF Entry
    <3> QED BY <2>1, <3>1, <3>3 DEF Racers
  <2> QED BY <2>2, <2>3
<1>23. ASSUME NEW c \in Racers(game, {}) PROVE c \in Racers(h, {}) /\ h.time[c] = game.time[c]
  <2>0. InState(game, game.state[t], result[t], Racing(game, t, {}))
    BY <1>0 DEF Ok, Round
  <2>1. \A k \in Racing(game, t, {}) : game.race[k] # "started"
    BY <1>0, <2>0 DEF InState, r
  <2>2. c \in Slots /\ game.team[c] # t
    BY <2>1 DEF Racers, Racing
  <2> QED BY <1>12, <1>13, <2>2 DEF Racers
<1>24. ASSUME NEW n \in DOMAIN saved.tees, saved.tees[n].race = "started"
       PROVE  \E c \in Racers(h, {}) : h.time[c] = saved.tees[n].time
  <2>1. PICK c \in Slots : game.team[c] = t
    BY DEF Members
  <2>2. PICK k \in D : race[c] = saved.tees[k].race /\ time[c] = saved.tees[k].time
    BY <1>12, <2>1
  <2>3. DOMAIN saved.tees = D
    BY <1>2
  <2>4. saved.tees[k].race = "started" /\ saved.tees[k].time = saved.tees[n].time
    BY <1>3, <1>24, <2>3 DEF SavedTogether
  <2> QED BY <1>13, <2>1, <2>2, <2>4 DEF Racers
<1>25. ASSUME NEW c \in Slots PROVE h.time[c] \in {0, game.time[c]} \/ c \in Racers(h, {})
  <2>1. CASE game.team[c] # t
    BY <1>12, <1>13, <2>1
  <2>2. CASE game.team[c] = t
    <3>1. PICK n \in D : race[c] = saved.tees[n].race /\ time[c] = saved.tees[n].time
      BY <1>12, <2>2
    <3>2. DOMAIN saved.tees = D
      BY <1>2
    <3>3. saved.tees[n].race = "started" \/ saved.tees[n].time = 0
      BY <1>3, <3>2 DEF SavedTogether
    <3> QED BY <1>13, <3>1, <3>3 DEF Racers
  <2> QED BY <2>1, <2>2
<1>26. Loaded(game, h, t, saved)
  BY <1>13, <1>22, <1>23, <1>24, <1>25 DEF Loaded
<1> QED BY <1>19, <1>20, <1>21, <1>26 DEF h, r, saved

-----------------------------------------------------------------------------
(* The handlers that change no team's races keep the invariant. *)
LEMMA ConnectStep ==
  ASSUME TeamsInv, NEW c \in Slots, Connect(c)
  PROVE  TeamsInv' /\ Tame(game, {}, game', {})
<1>1. PICK n \in Names \ {game.name[d] : d \in Slots} : Becomes([game EXCEPT !.name[c] = n])
  BY DEF Connect
<1> DEFINE h == [game EXCEPT !.name[c] = n]
<1>2. Becomes(h)
  BY <1>1
<1>3. /\ game \in Game /\ Ok(game, result, {}) /\ Players(game) /\ Requests(game, result)
      /\ Flock \notin game.locked /\ Flock \notin game.practice
  BY DEF TeamsInv, Ok, Timed
<1>4. /\ h \in Game
      /\ h.name = [game.name EXCEPT ![c] = n]
      /\ h.team = game.team /\ h.state = game.state /\ h.race = game.race /\ h.time = game.time
      /\ h.ended = game.ended /\ h.ranks = game.ranks
      /\ h.locked = game.locked /\ h.practice = game.practice /\ h.timer = game.timer
      /\ h.invited = game.invited
  BY <1>3 DEF Game
<1> HIDE DEF h
<1>5. \A d \in Slots : h.name[d] = IF d = c THEN n ELSE game.name[d]
  BY <1>3, <1>4 DEF Game
<1>6. Ok(h, result, {})
  BY <1>3, <1>4, SettingsOk, TeamFacts
<1>7. n # Nobody /\ \A d \in Slots : game.name[d] # n
  BY TeamsAssumption
<1>8. Players(h)
  BY <1>3, <1>4, <1>5, <1>7 DEF Players
<1>9. Requests(h, result)
  <2> SUFFICES ASSUME NEW t \in OwnTeams PROVE Request(h, t, result[t])
    BY DEF Requests
  <2>1. Request(game, t, result[t]) /\ t # Flock
    BY <1>3, TeamFacts DEF Requests
  <2>2. \A d \in Slots : h.team[d] = t => game.team[d] = t /\ h.name[d] = game.name[d]
    BY <1>3, <1>4, <1>5, <2>1 DEF Connect, Connected, Players
  <2> QED BY <2>1, <2>2 DEF Request
<1>10. Tame(game, {}, h, {})
  BY <1>4, SettingsTame
<1> QED BY <1>2, <1>4, <1>6, <1>8, <1>9, <1>10, BecomesPast, GameStep

LEMMA DisconnectStep ==
  ASSUME TeamsInv, NEW c \in Slots, Disconnect(c)
  PROVE  TeamsInv' /\ Tame(game, {}, game', {})
<1> DEFINE d == Die(game, c, TRUE)
           g == SetForceCharacterTeam(d, {c}, Flock)
           h == [g EXCEPT !.name[c] = Nobody, !.voted = @ \ {c}, !.swap[c] = 0]
<1>1. Becomes(h)
  BY DEF Disconnect
<1>2. Ok(game, result, {}) /\ Players(game) /\ Requests(game, result)
  BY DEF TeamsInv
<1>3. Ok(d, result, {}) /\ Kept(game, d) /\ d.race[c] = "dead" /\ Tame(game, {}, d, {})
  BY <1>2, DieOk
<1> HIDE DEF d
<1>4. d \in Game /\ d.team[c] \in Teams /\ {c} \in SUBSET Slots /\ {c} # {}
  BY <1>3 DEF Ok, Game
<1>5. /\ Ok(g, result, {}) /\ Kept(d, g) /\ Moved(d, {c}, d.team[c], Flock, g)
      /\ Tame(d, {}, g, {})
  <2> DEFINE t == d.team[c]
  <2>1. \A k \in {c} : d.team[k] = t
    OBVIOUS
  <2> HIDE DEF t
  <2>2. Ok(g, result, {}) /\ Kept(d, g) /\ Moved(d, {c}, t, Flock, g)
    BY <1>3, <1>4, <2>1, SetForceOk, SetForceKept, SetForceFacts, TeamFacts DEF t
  <2>3. Goes(d, {c}, {}, t, Flock)
    BY <1>3, <1>4, <2>1, TeamFacts DEF Goes, t
  <2>4. Tame(d, {}, g, {})
    BY <2>3, SetForceTame, Zenon
  <2> QED BY <2>2, <2>4 DEF t
<1> HIDE DEF g
<1>6. /\ g \in Game /\ g.race[c] = "dead" /\ g.team[c] = Flock /\ Kept(game, g)
      /\ Flock \notin g.locked /\ Flock \notin g.practice
  <2>1. Kept(game, g)
    BY <1>3, <1>5, KeptTrans
  <2> QED BY <1>3, <1>5, <2>1 DEF Moved, Ok, Timed
<1>7. /\ h \in Game
      /\ h.name = [g.name EXCEPT ![c] = Nobody]
      /\ h.team = g.team /\ h.state = g.state /\ h.race = g.race /\ h.time = g.time
      /\ h.ended = g.ended /\ h.ranks = g.ranks
      /\ h.locked = g.locked /\ h.practice = g.practice /\ h.timer = g.timer
      /\ h.invited = g.invited
  BY <1>6 DEF Game
<1> HIDE DEF h
<1>8. \A k \in Slots : h.name[k] = IF k = c THEN Nobody ELSE g.name[k]
  BY <1>6, <1>7 DEF Game
<1>9. Ok(h, result, {})
  BY <1>5, <1>6, <1>7, SettingsOk, TeamFacts
<1>10. Players(g) /\ Requests(g, result)
  BY <1>2, <1>6, KeptPlayers, KeptRequests DEF Kept
<1>11. Players(h)
  BY <1>6, <1>7, <1>8, <1>10 DEF Players
<1>12. Requests(h, result)
  <2> SUFFICES ASSUME NEW t \in OwnTeams PROVE Request(h, t, result[t])
    BY DEF Requests
  <2>1. Request(g, t, result[t]) /\ t # Flock
    BY <1>10, TeamFacts DEF Requests
  <2>2. \A k \in Slots : h.team[k] = t => g.team[k] = t /\ h.name[k] = g.name[k]
    BY <1>6, <1>7, <1>8, <2>1
  <2> QED BY <2>1, <2>2 DEF Request
<1>13. Tame(game, {}, h, {})
  <2>1. Tame(g, {}, h, {})
    BY <1>7, SettingsTame
  <2>2. Tame(game, {}, g, {})
    BY <1>3, <1>5, TameTrans
  <2> QED BY <2>1, <2>2, TameTrans
<1> QED BY <1>1, <1>7, <1>9, <1>11, <1>12, <1>13, BecomesPast, GameStep

LEMMA LockStep ==
  ASSUME TeamsInv, NEW c \in Slots, Lock(c)
  PROVE  TeamsInv' /\ Tame(game, {}, game', {})
<1> DEFINE t == game.team[c]
<1>1. /\ game \in Game /\ Ok(game, result, {}) /\ t \in Teams /\ Members(game, t) # {}
      /\ Flock \notin game.locked /\ Flock \notin game.practice
  BY DEF TeamsInv, Ok, Game, Members, Timed
<1>f. t # Flock
  BY DEF Lock
<1>2. PICK locked \in {game.locked \cup {t}, game.locked \ {t}} :
        Becomes([game EXCEPT !.locked = locked])
  BY DEF Lock
<1> HIDE DEF t
<1> DEFINE h == [game EXCEPT !.locked = locked]
<1>3. /\ locked \in SUBSET Teams /\ \A u \in OwnTeams : u # t => (u \in locked <=> u \in game.locked)
      /\ Flock \notin locked
  BY <1>1, <1>f DEF Game
<1>4. /\ h \in Game /\ h.name = game.name /\ h.locked = locked
      /\ h.team = game.team /\ h.state = game.state /\ h.race = game.race /\ h.time = game.time
      /\ h.practice = game.practice /\ h.timer = game.timer /\ h.invited = game.invited
      /\ h.ended = game.ended /\ h.ranks = game.ranks
  BY <1>1, <1>3 DEF Game
<1>5. Becomes(h)
  BY <1>2
<1> HIDE DEF h
<1>6. Ok(h, result, {})
  BY <1>1, <1>3, <1>4, SettingsOk
<1>7. Kept(game, h) /\ Tame(game, {}, h, {})
  BY <1>4, SettingsTame DEF Kept
<1> QED BY <1>4, <1>5, <1>6, <1>7, BecomesPast, KeptStep

LEMMA InviteStep ==
  ASSUME TeamsInv, NEW c \in Slots, NEW d \in Slots, Invite(c, d)
  PROVE  TeamsInv' /\ Tame(game, {}, game', {})
<1> DEFINE t == game.team[c]
           h == [game EXCEPT !.invited[t] = @ \cup {d}]
<1>1. /\ game \in Game /\ Ok(game, result, {}) /\ t \in Teams /\ Members(game, t) # {}
      /\ Flock \notin game.locked /\ Flock \notin game.practice
  BY DEF TeamsInv, Ok, Game, Members, Timed
<1>2. Becomes(h)
  BY DEF Invite
<1> HIDE DEF t
<1>3. /\ h \in Game /\ h.name = game.name /\ h.locked = game.locked
      /\ h.team = game.team /\ h.state = game.state /\ h.race = game.race /\ h.time = game.time
      /\ h.practice = game.practice /\ h.timer = game.timer
      /\ \A u \in OwnTeams : u # t => h.invited[u] = game.invited[u]
      /\ h.ended = game.ended /\ h.ranks = game.ranks
  BY <1>1, TeamFacts DEF Game
<1> HIDE DEF h
<1>4. Ok(h, result, {})
  BY <1>1, <1>3, SettingsOk
<1>5. Kept(game, h) /\ Tame(game, {}, h, {})
  BY <1>3, SettingsTame DEF Kept
<1> QED BY <1>2, <1>3, <1>4, <1>5, BecomesPast, KeptStep

LEMMA PracticeStep ==
  ASSUME TeamsInv, NEW c \in Slots, Practice(c)
  PROVE  TeamsInv' /\ Tame(game, {}, game', {})
<1> DEFINE t == game.team[c]
           voted == IF c \in game.voted THEN game.voted \ {c} ELSE game.voted \cup {c}
           g == [game EXCEPT !.voted = voted]
<1>1. /\ game \in Game /\ Ok(game, result, {}) /\ t \in Teams /\ Members(game, t) # {}
      /\ Flock \notin game.locked /\ Flock \notin game.practice
  BY DEF TeamsInv, Ok, Game, Members, Timed
<1>2. /\ Becomes(g) \/ Becomes([g EXCEPT !.practice = @ \cup {t}])
      /\ t # Flock
  BY DEF Practice
<1> HIDE DEF t
<1>3. voted \in SUBSET Slots
  BY <1>1 DEF Game
<1> HIDE DEF voted
<1>4. /\ g \in Game /\ g.name = game.name /\ g.locked = game.locked
      /\ g.team = game.team /\ g.state = game.state /\ g.race = game.race /\ g.time = game.time
      /\ g.practice = game.practice /\ g.timer = game.timer /\ g.invited = game.invited
      /\ g.ended = game.ended /\ g.ranks = game.ranks
  BY <1>1, <1>3 DEF Game
<1> HIDE DEF g
<1>5. PICK h : h \in {g, [g EXCEPT !.practice = @ \cup {t}]} /\ Becomes(h)
  BY <1>2
<1>6. /\ h \in Game /\ h.name = game.name /\ h.locked = game.locked
      /\ h.team = game.team /\ h.state = game.state /\ h.race = game.race /\ h.time = game.time
      /\ h.timer = game.timer /\ h.invited = game.invited
      /\ \A u \in OwnTeams : u # t => (u \in h.practice <=> u \in game.practice)
      /\ h.ended = game.ended /\ h.ranks = game.ranks
      /\ h.practice \in {game.practice, game.practice \cup {t}}
  <2>1. CASE h = g
    BY <1>4, <2>1
  <2>2. CASE h = [g EXCEPT !.practice = @ \cup {t}]
    BY <1>1, <1>4, <2>2 DEF Game
  <2> QED BY <1>5, <2>1, <2>2
<1>7. Ok(h, result, {})
  <2>1. Flock \notin h.locked /\ Flock \notin h.practice
    BY <1>1, <1>2, <1>6
  <2> QED BY <1>1, <1>6, <2>1, SettingsOk
<1>8. Kept(game, h) /\ Tame(game, {}, h, {})
  <2>1. \A u : u \in game.practice => u \in h.practice
    BY <1>6
  <2> QED BY <1>6, <2>1, SettingsTame DEF Kept
<1> QED BY <1>5, <1>6, <1>7, <1>8, BecomesPast, KeptStep

LEMMA RequestSwapStep ==
  ASSUME TeamsInv, NEW c \in Slots, NEW d \in Slots, RequestSwap(c, d)
  PROVE  TeamsInv' /\ Tame(game, {}, game', {})
<1> DEFINE h == [game EXCEPT !.swap[c] = d]
<1>1. /\ game \in Game /\ Ok(game, result, {}) /\ d \in Nat
      /\ Flock \notin game.locked /\ Flock \notin game.practice
  BY TeamsAssumption DEF TeamsInv, Ok, Slots, Timed
<1>2. Becomes(h)
  BY DEF RequestSwap
<1>3. /\ h \in Game /\ h.name = game.name /\ h.locked = game.locked
      /\ h.team = game.team /\ h.state = game.state /\ h.race = game.race /\ h.time = game.time
      /\ h.practice = game.practice /\ h.timer = game.timer /\ h.invited = game.invited
      /\ h.ended = game.ended /\ h.ranks = game.ranks
  BY <1>1 DEF Game
<1> HIDE DEF h
<1>4. Ok(h, result, {})
  BY <1>1, <1>3, SettingsOk, TeamFacts
<1>5. Kept(game, h) /\ Tame(game, {}, h, {})
  BY <1>3, SettingsTame DEF Kept
<1> QED BY <1>2, <1>3, <1>4, <1>5, BecomesPast, KeptStep

-----------------------------------------------------------------------------
(* The handlers of the race keep the invariant. *)
LEMMA SpawnStep ==
  ASSUME TeamsInv, NEW c \in Slots, Spawn(c)
  PROVE  TeamsInv' /\ Tame(game, {}, game', {})
<1> DEFINE h == Spawned(game, c)
<1>1. Becomes(h) /\ game.race[c] = "dead" /\ game.name[c] # Nobody
  BY DEF Spawn, Alive, Connected
<1>2. Ok(game, result, {}) /\ Players(game) /\ Requests(game, result)
  BY DEF TeamsInv
<1>3. Ok(h, result, {}) /\ KeptBut(game, h, c) /\ Tame(game, {}, h, {})
  BY <1>1, <1>2, SpawnedOk
<1> HIDE DEF h
<1>4. Players(h)
  BY <1>1, <1>2, <1>3 DEF Players, KeptBut
<1>5. Requests(h, result)
  BY <1>2, <1>3, KeptRequests DEF KeptBut
<1>6. h \in Game
  BY <1>3 DEF Ok
<1> QED BY <1>1, <1>3, <1>4, <1>5, <1>6, BecomesPast, GameStep

LEMMA KillStep ==
  ASSUME TeamsInv, NEW c \in Slots, Kill(c)
  PROVE  TeamsInv' /\ Tame(game, {}, game', {})
<1> DEFINE h == Die(game, c, FALSE)
<1>1. Becomes(h)
  BY DEF Kill
<1>2. Ok(h, result, {}) /\ Kept(game, h) /\ Tame(game, {}, h, {})
  BY DieOk DEF TeamsInv
<1> HIDE DEF h
<1>3. h \in Game
  BY <1>2 DEF Ok
<1> QED BY <1>1, <1>2, <1>3, BecomesPast, KeptStep

LEMMA SpectateStep ==
  ASSUME TeamsInv, NEW c \in Slots, Spectate(c)
  PROVE  TeamsInv' /\ Tame(game, {}, game', {})
<1> DEFINE t == game.team[c]
           gone == SetForceCharacterTeam(game, {c}, Flock)
           g == CheckTeamFinished(gone, t)
           h == Die(g, c, TRUE)
<1>1. Becomes(h)
  BY DEF Spectate
<1>2. /\ game \in Game /\ Ok(game, result, {}) /\ t \in Teams
      /\ {c} \in SUBSET Slots /\ {c} # {} /\ {} \in SUBSET Slots
  BY DEF TeamsInv, Ok, Game
<1>3. \A k \in {c} : game.team[k] = t
  OBVIOUS
<1> HIDE DEF t
<1>4. Ok(gone, result, {}) /\ Kept(game, gone)
  BY <1>2, <1>3, SetForceOk, SetForceKept, TeamFacts
<1>t. Tame(game, {c}, gone, {c}) /\ (t # Flock => {c} \cap Members(gone, t) = {})
  <2>1. Goes(game, {c}, {c}, t, Flock)
    BY <1>2, <1>3, TeamFacts DEF Goes
  <2>2. Tame(game, {c}, gone, {c})
    BY <2>1, SetForceTame, Zenon
  <2>3. Moved(game, {c}, t, Flock, gone)
    BY <1>2, <1>3, SetForceFacts, TeamFacts
  <2>4. gone.team[c] = Flock
    BY <2>3 DEF Moved
  <2> HIDE DEF gone
  <2> QED BY <2>2, <2>4 DEF Members
<1> HIDE DEF gone
<1>5. Ok(g, result, {}) /\ Kept(gone, g)
  BY <1>2, <1>4, CheckOk
<1>u. Tame(gone, {c}, g, {c})
  <2>1. Ok(gone, result, {c})
    BY <1>4, MoreExcepted
  <2> QED BY <1>2, <1>t, <2>1, CheckOk
<1> HIDE DEF g
<1>6. Ok(h, result, {}) /\ Kept(g, h) /\ Tame(g, {c}, h, {})
  BY <1>5, DieOk
<1> HIDE DEF h
<1>7. Kept(game, g)
  BY <1>4, <1>5, KeptTrans
<1>8. Kept(game, h)
  BY <1>6, <1>7, KeptTrans
<1>9. h \in Game
  BY <1>6 DEF Ok
<1>10. Tame(game, {}, h, {})
  <2>1. Tame(game, {}, game, {c})
    BY TameSame
  <2>2. Tame(game, {c}, h, {})
    BY <1>t, <1>u, <1>6, TameTrans
  <2> QED BY <2>1, <2>2, TameTrans
<1> QED BY <1>1, <1>6, <1>8, <1>9, <1>10, BecomesPast, KeptStep

LEMMA JoinStep ==
  ASSUME TeamsInv, NEW c \in Slots, NEW t \in Teams, Join(c, t)
  PROVE  TeamsInv' /\ Tame(game, {}, game', {})
<1> DEFINE h == SetForceCharacterTeam(game, {c}, t)
           old == game.team[c]
<1>1. Becomes(h) /\ Alive(game, c) /\ MayJoin(c, t)
  BY DEF Join
<1>2. /\ game \in Game /\ Ok(game, result, {}) /\ Players(game) /\ Requests(game, result)
      /\ old \in Teams /\ {c} \in SUBSET Slots /\ {c} # {} /\ {} \in SUBSET Slots
      /\ game.state \in [Teams -> States]
  BY DEF TeamsInv, Ok, Game
<1>3. \A k \in {c} : game.team[k] = old /\ game.race[k] = "none"
  BY <1>1 DEF MayJoin
<1>4. result[t] = NoResult /\ game.state[t] \in {EMPTY, OPEN}
  BY <1>1, <1>2, StatesFacts DEF MayJoin, Saving
<1> HIDE DEF old
<1>5. Ok(h, result, {})
  BY <1>2, <1>3, <1>4, SetForceOk
<1>6. Moved(game, {c}, old, t, h) /\ Tame(game, {}, h, {})
  <2>1. Goes(game, {c}, {}, old, t)
    BY <1>2, <1>3 DEF Goes
  <2>2. Tame(game, {}, h, {})
    BY <2>1, SetForceTame, Zenon
  <2> QED BY <1>2, <1>3, <2>2, SetForceFacts
<1> HIDE DEF h
<1>7. /\ h \in Game /\ h.name = game.name /\ h.race = game.race
      /\ \A k \in Slots : h.team[k] = IF k = c THEN t ELSE game.team[k]
  BY <1>6 DEF Moved
<1>8. game.name[c] # Nobody
  BY <1>1, <1>2 DEF Players, Alive
<1>9. Players(h)
  BY <1>2, <1>7, <1>8 DEF Players
<1>10. Requests(h, result)
  <2> SUFFICES ASSUME NEW u \in OwnTeams PROVE Request(h, u, result[u])
    BY DEF Requests
  <2>1. Request(game, u, result[u])
    BY <1>2 DEF Requests
  <2>2. CASE u = t
    BY <1>4, <2>2 DEF Request
  <2>3. CASE u # t
    <3>1. \A k \in Slots : h.team[k] = u => game.team[k] = u
      BY <1>7, <2>3
    <3> QED BY <1>7, <2>1, <3>1 DEF Request
  <2> QED BY <2>2, <2>3
<1> QED BY <1>1, <1>5, <1>6, <1>7, <1>9, <1>10, BecomesPast, GameStep

(* The game goes on, or a run begins, which is the next. *)
RunBegins ==
  /\ Begins(game, game', past.runs + 1)
  /\ past'.practised = past.practised \cup Practised(game')
  /\ past'.runs = IF \E d \in Slots : game'.time[d] = past.runs + 1
                    THEN past.runs + 1 ELSE past.runs
  /\ past'.doubt = past.doubt /\ past'.elsewhere = past.elsewhere

LEMMA StartStep ==
  ASSUME TeamsInv, NEW c \in Slots, Start(c)
  PROVE  TeamsInv' /\ (Saving(game.team[c]) => Tame(game, {}, game', {}))
                   /\ (~Saving(game.team[c]) => RunBegins)
<1>1. game \in Game /\ Ok(game, result, {}) /\ past \in Past
  BY DEF TeamsInv, TypeOK
<1>2. CASE Saving(game.team[c])
  <2> DEFINE h == Dead(game, {c})
  <2>1. Becomes(h)
    BY <1>2 DEF Start
  <2>a. ASSUME c \in game.ended, game.team[c] # Flock
        PROVE  result[game.team[c]].kind = "save"
    <3>1. game.team[c] \in OwnTeams
      BY <1>1, <2>a, TeamFacts DEF Game
    <3>2. c \in Racing(game, game.team[c], {})
      BY DEF Racing, Start, Alive
    <3>3. game.race[c] # "started"
      BY <1>1, <1>2, <3>1, <3>2 DEF Ok, Round, InState, Saving
    <3> QED BY <1>1, <2>a, <3>3 DEF Ok, Timed, Arrived
  <2>2. Ok(h, result, {} \ {c}) /\ Kept(game, h) /\ Tame(game, {}, h, {} \ {c})
    BY <1>1, <2>a, DeadOk
  <2>3. {} \ {c} = {}
    OBVIOUS
  <2> HIDE DEF h
  <2>4. Ok(h, result, {}) /\ h \in Game /\ Tame(game, {}, h, {})
    BY <2>2, <2>3 DEF Ok
  <2> QED BY <1>2, <2>1, <2>2, <2>4, BecomesPast, KeptStep
<1>3. CASE ~Saving(game.team[c])
  <2> DEFINE run == past.runs + 1
             h == OnCharacterStart(game, c, run)
             new == \E d \in Slots : h.time[d] = run
             runs == IF new THEN run ELSE past.runs
  <2>1. /\ game' = h /\ UNCHANGED <<config, result, rows>> /\ Alive(game, c)
        /\ past' = [past EXCEPT !.runs = runs, !.practised = @ \cup Practised(h)]
    BY <1>3 DEF Start
  <2>2. run \in Nat /\ past.runs \in Nat /\ run # 0
    BY <1>1 DEF Past
  <2> HIDE DEF run
  <2>3. Ok(h, result, {}) /\ Kept(game, h) /\ Begins(game, h, run)
    BY <1>1, <1>3, <2>1, <2>2, StartOk
  <2> HIDE DEF h
  <2>4. Practised(h) \in SUBSET Nat
    BY <2>3 DEF Practised, Ok, Game
  <2>5. runs \in Nat
    BY <2>2
  <2> HIDE DEF runs, Practised
  <2>6. /\ past' \in Past /\ past'.runs = runs
        /\ past'.practised = past.practised \cup Practised(h)
        /\ past'.doubt = past.doubt /\ past'.elsewhere = past.elsewhere
    BY <1>1, <2>1, <2>4, <2>5 DEF Past
  <2>7. RunBegins
    BY <2>1, <2>3, <2>6 DEF RunBegins, run, runs
  <2> QED BY <1>3, <2>1, <2>3, <2>6, <2>7, KeptStep
<1> QED BY <1>2, <1>3

LEMMA ArriveStep ==
  ASSUME TeamsInv, NEW c \in Slots, Arrive(c)
  PROVE  TeamsInv' /\ Tame(game, {}, game', {})
<1> DEFINE h == OnCharacterFinish(game, c)
<1>1. Becomes(h) /\ game.race[c] = "started"
  BY DEF Arrive
<1>2. Ok(h, result, {}) /\ Kept(game, h) /\ Tame(game, {}, h, {})
  BY <1>1, FinishOk DEF TeamsInv
<1> HIDE DEF h
<1>3. h \in Game
  BY <1>2 DEF Ok
<1> QED BY <1>1, <1>2, <1>3, BecomesPast, KeptStep

LEMMA KillTickStep ==
  ASSUME TeamsInv, NEW t \in OwnTeams, KillTick(t)
  PROVE  TeamsInv' /\ Tame(game, {}, game', {})
<1>1. /\ game \in Game /\ Ok(game, result, {}) /\ t \in Teams
      /\ Flock \notin game.locked /\ Flock \notin game.practice
  BY TeamFacts DEF TeamsInv, TypeOK, Ok, Timed
<1>2. CASE t \in game.practice
  <2> DEFINE h == [game EXCEPT !.timer = @ \ {t}]
  <2>1. Becomes(h)
    BY <1>2 DEF KillTick
  <2>2. /\ h \in Game /\ h.name = game.name /\ h.locked = game.locked
        /\ h.team = game.team /\ h.state = game.state /\ h.race = game.race /\ h.time = game.time
        /\ h.practice = game.practice /\ h.invited = game.invited
        /\ \A u \in OwnTeams : u # t => (u \in h.timer <=> u \in game.timer)
        /\ h.ended = game.ended /\ h.ranks = game.ranks
    BY <1>1 DEF Game
  <2>3. Members(game, t) # {}
    BY <1>1, <1>2 DEF Ok, Fresh, FreshTeam, Members
  <2> HIDE DEF h
  <2>4. Ok(h, result, {})
    BY <1>1, <2>2, <2>3, SettingsOk
  <2>5. Kept(game, h) /\ Tame(game, {}, h, {})
    BY <2>2, SettingsTame DEF Kept
  <2> QED BY <2>1, <2>2, <2>4, <2>5, BecomesPast, KeptStep
<1>3. CASE t \notin game.practice
  <2> DEFINE h == KillTeam(game, t, {})
  <2>1. Becomes(h)
    BY <1>3 DEF KillTick
  <2>2. /\ Ok(h, result, {} \ (Playing(game, t) \ {})) /\ Kept(game, h)
        /\ Tame(game, {}, h, {} \ (Playing(game, t) \ {}))
    <3>1. {} \in SUBSET Slots /\ {} \in SUBSET {} /\ Playing(game, t) \cap {} = {}
      OBVIOUS
    <3> QED BY <1>1, <3>1, KillOk
  <2>3. {} \ (Playing(game, t) \ {}) = {}
    OBVIOUS
  <2> HIDE DEF h
  <2>4. Ok(h, result, {}) /\ h \in Game /\ Tame(game, {}, h, {})
    BY <2>2, <2>3 DEF Ok
  <2> QED BY <2>1, <2>2, <2>4, BecomesPast, KeptStep
<1> QED BY <1>2, <1>3

(* Each run was where f says. *)
LEMMA FollowsInjection ==
  ASSUME NEW P, NEW Q, NEW f,
         \A q \in Q : f[q] \in P /\ f[q].run = q.run /\ (f[q].practice => q.practice),
         \A p, q \in Q : f[p] = f[q] => p = q
  PROVE  Follows(P, Q)
<1>1. \A q \in Q : \E p \in P : p.run = q.run /\ (p.practice => q.practice)
  OBVIOUS
<1>2. ASSUME NEW r, Twice(Q, r) PROVE Twice(P, r)
  <2>1. PICK p \in Q, q \in Q : p # q /\ p.run = r /\ q.run = r
    BY <1>2 DEF Twice
  <2>2. f[p] # f[q] /\ f[p] \in P /\ f[q] \in P /\ f[p].run = r /\ f[q].run = r
    BY <2>1
  <2> QED BY <2>2 DEF Twice
<1> QED BY <1>1, <1>2 DEF Follows

(* Two tees of the flock give each other their runs. *)
LEMMA ExchangeTame ==
  ASSUME NEW g, NEW h, NEW c \in Slots, NEW d \in Slots, c # d,
         g.team[c] = Flock, g.team[d] = Flock, Flock \notin g.practice,
         g.race[c] = "started", g.race[d] = "started",
         h.team = g.team, h.practice = g.practice, h.ranks = g.ranks,
         \A x \in Slots : h.race[x] = g.race[x],
         \A x \in Slots : h.time[x] = IF x = c THEN g.time[d] ELSE IF x = d THEN g.time[c]
                                        ELSE g.time[x]
  PROVE  Tame(g, {}, h, {})
<1> DEFINE P == Entries(g, {})
           Q == Entries(h, {})
           f == [q \in Q |-> IF q = Entry(h, c) THEN Entry(g, d)
                               ELSE IF q = Entry(h, d) THEN Entry(g, c) ELSE q]
<1>1. /\ Entry(g, c) = [kind |-> "tee", of |-> c, run |-> g.time[c], practice |-> FALSE]
      /\ Entry(g, d) = [kind |-> "tee", of |-> d, run |-> g.time[d], practice |-> FALSE]
      /\ Entry(h, c) = [kind |-> "tee", of |-> c, run |-> g.time[d], practice |-> FALSE]
      /\ Entry(h, d) = [kind |-> "tee", of |-> d, run |-> g.time[c], practice |-> FALSE]
  <2>1. ASSUME NEW k, NEW x \in Slots, NEW run, k.team[x] = Flock, Flock \notin k.practice, k.time[x] = run
        PROVE  Entry(k, x) = [kind |-> "tee", of |-> x, run |-> run, practice |-> FALSE]
    <3>1. (k.team[x] \in k.practice) = FALSE
      BY <2>1
    <3> QED BY <2>1, <3>1 DEF Entry
  <2>2. h.time[c] = g.time[d] /\ h.time[d] = g.time[c]
    OBVIOUS
  <2>3. /\ Entry(g, c) = [kind |-> "tee", of |-> c, run |-> g.time[c], practice |-> FALSE]
        /\ Entry(g, d) = [kind |-> "tee", of |-> d, run |-> g.time[d], practice |-> FALSE]
    BY <2>1
  <2>4. Entry(h, c) = [kind |-> "tee", of |-> c, run |-> g.time[d], practice |-> FALSE]
    BY <2>1, <2>2
  <2>5. Entry(h, d) = [kind |-> "tee", of |-> d, run |-> g.time[c], practice |-> FALSE]
    BY <2>1, <2>2
  <2> QED BY <2>3, <2>4, <2>5
<1>2. Entry(g, c) \in P /\ Entry(g, d) \in P
  BY DEF Entries, On, Racers
<1>3. ASSUME NEW q \in Q, q # Entry(h, c), q # Entry(h, d)
      PROVE  q \in P /\ ~(q.kind = "tee" /\ q.of \in {c, d})
  <2>1. CASE q \in Ranked(h)
    <3>1. q \in Ranked(g) /\ q.kind = "ranked"
      BY <2>1 DEF Ranked, RankEntry
    <3> QED BY <3>1 DEF Entries
  <2>2. CASE q \in On(h, {})
    <3>1. PICK x \in Slots : h.race[x] = "started" /\ q = Entry(h, x)
      BY <2>2 DEF On, Racers
    <3>2. x # c /\ x # d
      BY <1>3, <3>1
    <3>3. h.time[x] = g.time[x] /\ g.race[x] = "started"
      BY <3>1, <3>2
    <3>4. q = Entry(g, x)
      BY <3>1, <3>3 DEF Entry
    <3>5. q.kind = "tee" => q.of = x
      BY <3>1 DEF Entry
    <3> QED BY <3>2, <3>3, <3>4, <3>5 DEF Entries, On, Racers
  <2> QED BY <2>1, <2>2 DEF Entries
<1> HIDE DEF P, Q
<1>4. \A q \in Q : f[q] \in P /\ f[q].run = q.run /\ (f[q].practice => q.practice)
  <2> TAKE q \in Q
  <2>1. CASE q = Entry(h, c)
    BY <1>1, <1>2, <2>1
  <2>2. CASE q = Entry(h, d)
    BY <1>1, <1>2, <2>2
  <2>3. CASE q # Entry(h, c) /\ q # Entry(h, d)
    BY <1>3, <2>3
  <2> QED BY <2>1, <2>2, <2>3
<1>5. ASSUME NEW p \in Q, NEW q \in Q, f[p] = f[q] PROVE p = q
  <2>1. \A k \in Q : k # Entry(h, c) /\ k # Entry(h, d) =>
          f[k] = k /\ k # Entry(g, c) /\ k # Entry(g, d)
    BY <1>1, <1>3
  <2>2. \A k \in Q : /\ k = Entry(h, c) => f[k] = Entry(g, d)
                     /\ k = Entry(h, d) => f[k] = Entry(g, c)
    BY <1>1
  <2>3. Entry(g, c) # Entry(g, d)
    BY <1>1
  <2> HIDE DEF f
  <2> QED BY <1>5, <2>1, <2>2, <2>3
<1> HIDE DEF f
<1>6. Follows(P, Q)
  BY <1>4, <1>5, FollowsInjection
<1>7. \A x \in Racers(h, {}) : \E y \in Racers(g, {}) : h.time[x] = g.time[y]
  BY DEF Racers
<1>8. \A x \in Slots : \E y \in Slots : h.time[x] = g.time[y]
  OBVIOUS
<1> QED BY <1>6, <1>7, <1>8 DEF Tame, P, Q

LEMMA SwapStep ==
  ASSUME TeamsInv, NEW c \in Slots, NEW d \in Slots, Swap(c, d)
  PROVE  TeamsInv' /\ Tame(game, {}, game', {})
<1> DEFINE t == game.team[c]
           asked == [game EXCEPT !.swap[c] = 0, !.swap[d] = 0]
           others == Playing(game, t) \ {c, d}
           race == [game.race EXCEPT ![c] = game.race[d], ![d] = game.race[c]]
           time == [x \in Slots |-> IF x = c \/ (x \in others /\ t # Flock) THEN game.time[d]
                                      ELSE IF x = d THEN game.time[c] ELSE game.time[x]]
           begun == Exchanged(game.begun, c, d)
           ended == Exchanged(game.ended, c, d)
           h == [asked EXCEPT !.race = race, !.time = time, !.begun = begun, !.ended = ended]
<1>1. /\ game \in Game /\ Ok(game, result, {}) /\ t \in Teams
      /\ game.race \in [Slots -> Races] /\ game.time \in [Slots -> Nat]
      /\ game.ended \in SUBSET Slots /\ Timed(game, result)
  BY DEF TeamsInv, Ok, Game
<1>2. /\ asked \in Game /\ SameTeams(game, asked)
      /\ asked.race = game.race /\ asked.time = game.time
      /\ asked.begun = game.begun /\ asked.ended = game.ended /\ asked.ranks = game.ranks
  BY <1>1 DEF Game, SameTeams
<1>3. Becomes(asked) \/ Becomes(h)
  <2>1. h = [asked EXCEPT
              !.race = [@ EXCEPT ![c] = game.race[d], ![d] = game.race[c]],
              !.time = [x \in Slots |->
                          IF x = c \/ (x \in others /\ game.team[c] # Flock)
                            THEN game.time[d]
                            ELSE IF x = d THEN game.time[c] ELSE @[x]],
              !.begun = Exchanged(@, c, d), !.ended = Exchanged(@, c, d)]
    BY <1>2
  <2> QED BY <2>1 DEF Swap
<1>4. /\ c # d /\ game.team[d] = t /\ game.race[c] # "dead" /\ game.race[d] # "dead"
      /\ t # Flock => game.state[t] = STARTED
      /\ t = Flock => game.race[c] = "started" /\ game.race[d] = "started"
  BY DEF Swap, MaySwap, Alive
<1> HIDE DEF asked
<1>5. Ok(asked, result, {}) /\ Kept(game, asked) /\ Tame(game, {}, asked, {})
  <2>1. Timed(asked, result)
    BY <1>1, <1>2, SameTimes DEF SameTeams, Timed
  <2>2. Tame(game, {}, asked, {})
    BY <1>2, SettingsTame DEF SameTeams
  <2> QED BY <1>1, <1>2, <2>1, <2>2, SameTeamsOk DEF Kept, SameTeams
<1>6. race \in [Slots -> Races] /\ time \in [Slots -> Nat]
  BY <1>1
<1>7. begun \in SUBSET Slots /\ ended \in SUBSET Slots
  BY <1>1 DEF Exchanged, Game
<1>8. \A x \in Slots :
        /\ race[x] = IF x = d THEN game.race[c] ELSE IF x = c THEN game.race[d] ELSE game.race[x]
        /\ time[x] = IF x = c \/ (x \in others /\ t # Flock) THEN game.time[d]
                       ELSE IF x = d THEN game.time[c] ELSE game.time[x]
  <2> HIDE DEF others, t
  <2> TAKE x \in Slots
  <2>1. race[x] = IF x = d THEN game.race[c] ELSE IF x = c THEN game.race[d] ELSE game.race[x]
    BY <1>1
  <2>2. time[x] = IF x = c \/ (x \in others /\ t # Flock) THEN game.time[d]
                    ELSE IF x = d THEN game.time[c] ELSE game.time[x]
    OBVIOUS
  <2> QED BY <2>1, <2>2
<1>9. \A x \in ended : \/ x \in game.ended
                     \/ (x = c /\ d \in game.ended) \/ (x = d /\ c \in game.ended)
  BY DEF Exchanged
<1> HIDE DEF race, time, begun, ended
<1>10. /\ h \in Game /\ SameTeams(game, h) /\ h.race = race /\ h.time = time
       /\ h.ended = ended /\ h.ranks = game.ranks
  BY <1>2, <1>6, <1>7 DEF Game, SameTeams
<1> HIDE DEF h
(* Two tees of a team that has started race alike. *)
<1>11. /\ game.race[c] = game.race[d]
       /\ t # Flock => \A x \in Slots : time[x] = game.time[x]
  <2>1. CASE t = Flock
    BY <1>4, <2>1
  <2>2. CASE t # Flock
    <3>1. t \in OwnTeams /\ game.state[t] = STARTED
      BY <1>1, <1>4, <2>2, TeamFacts
    <3>2. Uniform(game, Racing(game, t, {}))
      BY <1>1, <3>1 DEF Ok, Round, InState
    <3>3. c \in Racing(game, t, {}) /\ d \in Racing(game, t, {}) /\ others \subseteq Racing(game, t, {})
      BY <1>4 DEF Racing, Playing, Members, Alive
    <3>4. game.race[c] = game.race[d] /\ \A x \in Racing(game, t, {}) : game.time[x] = game.time[d]
      <4>1. CASE \A x \in Racing(game, t, {}) : game.race[x] = "none"
        <5>1. \A x \in Racing(game, t, {}) : x \in Slots /\ game.time[x] = 0
          BY <1>1, <4>1 DEF Timed, Clocks, Racing
        <5> QED BY <3>3, <4>1, <5>1
      <4>2. CASE \A x, y \in Racing(game, t, {}) :
                   game.race[x] = "started" /\ game.time[x] = game.time[y]
        BY <3>3, <4>2
      <4> QED BY <3>2, <4>1, <4>2 DEF Uniform
    <3> HIDE DEF t, others
    <3> QED BY <1>8, <3>3, <3>4
  <2> QED BY <2>1, <2>2
<1>12. \A x \in Slots : h.race[x] = game.race[x]
  BY <1>8, <1>10, <1>11
<1>13. t = Flock => \A x \in Slots : h.time[x] = IF x = c THEN game.time[d]
                                                 ELSE IF x = d THEN game.time[c] ELSE game.time[x]
  BY <1>8, <1>10
<1>14. t # Flock => \A x \in Slots : h.time[x] = game.time[x]
  BY <1>10, <1>11
<1>15. Kept(game, h)
  <2>1. \A x \in Slots : game.race[x] = "dead" => h.race[x] = "dead"
    BY <1>12
  <2> QED BY <1>10, <2>1 DEF Kept, SameTeams
<1>16. Timed(h, result)
  <2>1. Clocks(h)
    <3>1. Clocks(game)
      BY <1>1 DEF Timed
    <3>2. CASE t = Flock
      BY <1>4, <1>12, <1>13, <3>1, <3>2 DEF Clocks
    <3>3. CASE t # Flock
      BY <1>12, <1>14, <3>1, <3>3 DEF Clocks
    <3> QED BY <3>2, <3>3
  <2>2. Arrived(h, result)
    <3> SUFFICES ASSUME NEW x \in ended, game.team[x] # Flock, game.race[x] # "started"
                 PROVE  result[game.team[x]].kind = "save"
      BY <1>7, <1>10, <1>12 DEF Arrived, SameTeams
    <3>1. CASE x \in game.ended
      BY <1>1, <3>1 DEF Timed, Arrived
    <3>2. CASE x = c /\ d \in game.ended
      BY <1>1, <1>4, <1>11, <3>2 DEF Timed, Arrived
    <3>3. CASE x = d /\ c \in game.ended
      BY <1>1, <1>4, <1>11, <3>3 DEF Timed, Arrived
    <3> QED BY <1>9, <3>1, <3>2, <3>3
  <2> QED BY <1>1, <1>10, <2>1, <2>2 DEF Timed, SameTeams
<1>17. Ok(h, result, {})
  <2>1. \A x \in Slots : \/ game.team[x] = Flock
                         \/ x \notin {} /\ h.race[x] = game.race[x] /\ h.time[x] = game.time[x]
    BY <1>4, <1>12, <1>13, <1>14
  <2> QED BY <1>1, <1>10, <1>16, <2>1, SameTeamsOk
<1>18. Tame(game, {}, h, {})
  <2>0. h.team = game.team /\ h.practice = game.practice /\ h.ranks = game.ranks
    BY <1>10 DEF SameTeams
  <2>1. CASE t = Flock
    <3>1. Flock \notin game.practice
      BY <1>1 DEF Timed
    <3> QED BY <1>4, <1>12, <1>13, <2>0, <2>1, <3>1, ExchangeTame
  <2>2. CASE t # Flock
    <3>1. \A x \in Racers(h, {}) : x \in Racers(game, {})
      BY <1>12 DEF Racers
    <3> QED BY <1>12, <1>14, <2>0, <2>2, <3>1, SameRaces DEF Racers
  <2> QED BY <2>1, <2>2
<1>19. asked \in Game
  BY <1>2
<1> QED BY <1>3, <1>5, <1>10, <1>15, <1>17, <1>18, <1>19, BecomesPast, KeptStep

-----------------------------------------------------------------------------
(* A request is made: each member is named once, with its slot. *)
LEMMA NamedMembers ==
  ASSUME TeamsInv, NEW t \in OwnTeams
  PROVE  /\ NamesOf(Members(game, t)) \in SUBSET Names
         /\ \A c \in Members(game, t) : Named(game.name[c]) = c
         /\ \A n \in NamesOf(Members(game, t)) :
              Named(n) \in Members(game, t) /\ game.name[Named(n)] = n
<1>1. Players(game) /\ game.name \in [Slots -> Names \cup {Nobody}]
  BY DEF TeamsInv, TypeOK, Game
<1>2. \A c \in Members(game, t) : c \in Slots /\ game.name[c] # Nobody /\ game.name[c] \in Names
  BY <1>1, TeamFacts DEF Members, Players
<1>3. ASSUME NEW c \in Members(game, t) PROVE Named(game.name[c]) = c
  <2>1. \A d \in Slots : game.name[d] = game.name[c] => d = c
    BY <1>1, <1>2, <1>3 DEF Players
  <2>2. \E d \in Slots : game.name[d] = game.name[c]
    BY <1>2, <1>3
  <2>3. Named(game.name[c]) \in Slots /\ game.name[Named(game.name[c])] = game.name[c]
    BY <2>2 DEF Named
  <2> QED BY <2>1, <2>3
<1> QED BY <1>2, <1>3 DEF NamesOf

LEMMA RequestStep ==
  ASSUME TeamsInv, NEW t \in OwnTeams, NEW D \in SUBSET Names, NEW r \in ResultOf(D),
         result' = [result EXCEPT ![t] = r], UNCHANGED config,
         NEW h, game' = h, Ok(h, [result EXCEPT ![t] = r], {}), Kept(game, h),
         Request(h, t, r), past' \in Past,
         \A row \in rows' : SavedTogether(row) /\ \E C \in SUBSET Names : row \in SavedOf(C)
  PROVE  TeamsInv'
<1>1. h \in Game /\ t \in Teams
  BY TeamFacts DEF Ok
<1>2. \A u \in Teams : result'[u] = IF u = t THEN r ELSE result[u]
  BY <1>1 DEF TeamsInv, TypeOK
<1>3. result' = [u \in Teams |-> result'[u]]
  <2>1. result = [u \in Teams |-> result[u]]
    BY DEF TeamsInv, TypeOK
  <2> QED BY <1>1, <2>1
<1>4. \A u \in Teams : result'[u] = NoResult \/ \E C \in SUBSET Names : result'[u] \in ResultOf(C)
  BY <1>2 DEF TeamsInv, TypeOK
<1>5. TypeOK'
  BY <1>1, <1>3, <1>4 DEF TeamsInv, TypeOK
<1>6. Ok(game', result', {})
  OBVIOUS
<1>7. Players(game')
  BY KeptPlayers DEF TeamsInv
<1>8. Requests(game', result')
  <2>1. Requests(h, result)
    BY KeptRequests DEF TeamsInv, Kept
  <2>2. ASSUME NEW u \in OwnTeams PROVE Request(h, u, result'[u])
    BY <1>2, <2>1, TeamFacts DEF Requests
  <2> QED BY <2>2 DEF Requests
<1> QED BY <1>5, <1>6, <1>7, <1>8 DEF TeamsInv

LEMMA SaveTeamStep ==
  ASSUME TeamsInv, NEW t \in OwnTeams, SaveTeam(t)
  PROVE  TeamsInv' /\ Tame(game, {}, game', {}) /\ Racing(game', t, {}) = {}
<1> DEFINE D == NamesOf(Members(game, t))
           tees == [n \in D |-> Tee(game, Named(n))]
           saved == [locked |-> t \in game.locked, practice |-> t \in game.practice, tees |-> tees]
           slots == [n \in D |-> Named(n)]
           r == [kind |-> "save", status |-> "pending", saved |-> saved, slots |-> slots]
           calm == [game EXCEPT !.voted = @ \ Members(game, t)]
           h == Dead(calm, Members(game, t))
           res == [result EXCEPT ![t] = r]
<1>0. /\ game \in Game /\ Ok(game, result, {}) /\ past \in Past /\ t \in Teams
      /\ Members(game, t) \in SUBSET Slots
  BY TeamFacts DEF TeamsInv, TypeOK, Members
<1>1. /\ result' = res /\ game' = h /\ UNCHANGED <<config, rows>>
      /\ past' = [past EXCEPT !.requests = @ + 1]
      /\ game.state[t] = STARTED /\ Playing(game, t) = Members(game, t) /\ result[t] = NoResult
  BY DEF SaveTeam, SavedTeam, SlotsOf, Saving
<1>2. /\ D \in SUBSET Names
      /\ \A c \in Members(game, t) : Named(game.name[c]) = c
      /\ \A n \in D : Named(n) \in Members(game, t) /\ game.name[Named(n)] = n
  BY NamedMembers
<1>d. \A c \in Members(game, t) : game.name[c] \in D
  BY DEF NamesOf
<1> HIDE DEF D
<1>3. slots \in [D -> Slots]
  BY <1>0, <1>2
<1>4. \A c \in Slots : Tee(game, c) \in Tees
  BY <1>0 DEF Tee, Tees, Game
<1>5. tees \in [D -> Tees]
  BY <1>0, <1>2, <1>4
<1>6. SavedTogether(saved)
  <2>1. Uniform(game, Racing(game, t, {}))
    BY <1>0, <1>1 DEF Ok, Round, InState
  <2>2. \A n \in D : Named(n) \in Racing(game, t, {})
    BY <1>1, <1>2 DEF Racing, Playing, Members, Alive
  <2>3. \A n \in D : /\ saved.tees[n].race = game.race[Named(n)]
                     /\ saved.tees[n].time = game.time[Named(n)]
    BY DEF Tee
  <2>4. DOMAIN saved.tees = D
    OBVIOUS
  <2>e. \A n \in D : saved.tees[n].ended = (Named(n) \in game.ended)
    BY DEF Tee
  <2> HIDE DEF saved
  <2>c. \A n \in D : /\ saved.tees[n].race = "started" => saved.tees[n].time # 0
                     /\ saved.tees[n].race = "none" => saved.tees[n].time = 0
                     /\ saved.tees[n].ended => saved.tees[n].race = "started"
    <3>1. Clocks(game) /\ Arrived(game, result)
      BY <1>0 DEF Ok, Timed
    <3>2. \A n \in D : Named(n) \in Slots /\ game.team[Named(n)] = t
      BY <1>2 DEF Members
    <3>3. t # Flock /\ result[t].kind # "save"
      BY <1>1, TeamFacts DEF NoResult
    <3>4. \A n \in D : Named(n) \in game.ended => game.race[Named(n)] = "started"
      BY <3>1, <3>2, <3>3 DEF Arrived
    <3> QED BY <2>3, <2>e, <3>1, <3>2, <3>4 DEF Clocks
  <2>5. CASE \A c \in Racing(game, t, {}) : game.race[c] = "none"
    BY <2>2, <2>3, <2>4, <2>5, <2>c DEF SavedTogether
  <2>6. CASE \A c, d \in Racing(game, t, {}) : game.race[c] = "started" /\ game.time[c] = game.time[d]
    <3>1. ASSUME NEW m \in D, NEW n \in D
          PROVE  saved.tees[m].race = "started" /\ saved.tees[m].time = saved.tees[n].time
      BY <2>2, <2>3, <2>6
    <3> QED BY <2>4, <2>c, <3>1 DEF SavedTogether
  <2> QED BY <2>1, <2>5, <2>6 DEF Uniform
<1> HIDE DEF tees, slots
<1>7. r \in ResultOf(D) /\ r.saved = saved /\ r.slots = slots /\ r.kind = "save"
  BY <1>3, <1>5 DEF ResultOf, SavedOf
<1> HIDE DEF saved, r
<1>8. /\ Ok(calm, result, {}) /\ Kept(game, calm) /\ calm.race = game.race /\ SameTeams(game, calm)
      /\ calm.ended = game.ended /\ Tame(game, {}, calm, {})
  BY <1>0, CalmOk
<1> HIDE DEF calm
<1> DEFINE ms == Members(game, t)
<1>ms. ms \in SUBSET Slots /\ \A c \in ms : calm.team[c] = t
  BY <1>0, <1>8 DEF SameTeams, Members
(* Nobody of the team counts any more when it is being saved. *)
<1>m. Ok(calm, res, ms) /\ res[t].kind = "save" /\ Tame(game, {}, calm, ms)
  <2>1. \A u \in OwnTeams : res[u] = IF u = t THEN r ELSE result[u]
    BY TeamFacts DEF TeamsInv, TypeOK
  <2>2. Ok(calm, result, ms)
    BY <1>8, MoreExcepted
  <2>3. Racing(calm, t, ms) = {}
    BY <1>8 DEF Racing, SameTeams, Members
  <2> HIDE DEF res, ms
  <2>4. \A u \in OwnTeams : \/ res[u] = NoResult
                            \/ result[u] # NoResult /\ (res[u].kind = "load" => result[u].kind = "load")
                            \/ Racing(calm, u, ms) = {} /\ res[u].kind # "load"
    BY <1>7, <2>1, <2>3
  <2>5. \A c \in calm.ended : calm.team[c] # Flock /\ calm.race[c] # "started"
                                /\ result[calm.team[c]].kind = "save" => res[calm.team[c]].kind = "save"
    <3>1. \A c \in calm.ended : calm.team[c] # Flock => calm.team[c] \in OwnTeams
      BY <1>8, TeamFacts DEF Ok, Game
    <3> QED BY <1>7, <2>1, <3>1
  <2>6. Tame(calm, {}, calm, ms)
    BY TameSame
  <2>7. Tame(game, {}, calm, ms)
    BY <1>8, <2>6, TameTrans
  <2> QED BY <1>7, <2>1, <2>2, <2>4, <2>5, <2>7, RequestOk
<1>9. /\ Ok(h, res, ms \ ms) /\ Kept(calm, h) /\ SameTeams(calm, h)
      /\ Tame(calm, ms, h, ms \ ms)
      /\ \A c \in ms : h.race[c] = "dead"
  <2> HIDE DEF ms, res
  <2>1. \A c \in ms : c \in calm.ended /\ calm.team[c] # Flock => res[calm.team[c]].kind = "save"
    BY <1>ms, <1>m
  <2>2. /\ Ok(Dead(calm, ms), res, ms \ ms) /\ SameTeams(calm, Dead(calm, ms))
        /\ Tame(calm, ms, Dead(calm, ms), ms \ ms)
        /\ Kept(calm, Dead(calm, ms)) /\ \A c \in ms : Dead(calm, ms).race[c] = "dead"
    BY <1>ms, <1>m, <2>1, DeadOk
  <2> QED BY <2>2 DEF ms
<1>10. ms \ ms = {}
  OBVIOUS
<1> HIDE DEF h
<1>11. Kept(game, h)
  BY <1>8, <1>9, KeptTrans
<1>12. Racing(h, t, {}) = {}
  BY <1>8, <1>9 DEF Racing, SameTeams, Members
<1>13. Ok(h, res, {}) /\ Tame(game, {}, h, {})
  BY <1>9, <1>10, <1>m, TameTrans
<1>14. Request(h, t, r)
  <2>1. \A c \in Slots : h.team[c] = t => c \in Members(game, t) /\ h.name[c] = game.name[c]
    BY <1>8, <1>9 DEF SameTeams, Members
  <2>2. \A c \in Slots : h.team[c] = t => \E n \in D : slots[n] = c /\ h.name[c] = n
    BY <1>2, <1>d, <2>1 DEF slots
  <2>3. DOMAIN r.slots = D
    BY <1>3, <1>7
  <2> QED BY <1>6, <1>7, <2>2, <2>3 DEF Request
<1>15. past' \in Past
  BY <1>0, <1>1 DEF Past
<1>16. \A row \in rows' : SavedTogether(row) /\ \E C \in SUBSET Names : row \in SavedOf(C)
  BY <1>1 DEF TeamsInv, TypeOK
<1> QED BY <1>1, <1>2, <1>7, <1>11, <1>12, <1>13, <1>14, <1>15, <1>16, RequestStep

LEMMA LoadTeamStep ==
  ASSUME TeamsInv, NEW t \in OwnTeams, LoadTeam(t)
  PROVE  TeamsInv'
<1> DEFINE D == NamesOf(Members(game, t))
           slots == [n \in D |-> Named(n)]
           r == [kind |-> "load", status |-> "pending", saved |-> NoTeam, slots |-> slots]
           res == [result EXCEPT ![t] = r]
<1>0. /\ game \in Game /\ Ok(game, result, {}) /\ past \in Past /\ t \in Teams
      /\ Members(game, t) \in SUBSET Slots
  BY TeamFacts DEF TeamsInv, TypeOK, Members
<1>1. /\ result' = res /\ UNCHANGED <<config, game, rows>>
      /\ past' = [past EXCEPT !.requests = @ + 1]
      /\ game.state[t] = OPEN
  BY DEF LoadTeam, SlotsOf
<1>2. /\ D \in SUBSET Names
      /\ \A c \in Members(game, t) : Named(game.name[c]) = c
      /\ \A n \in D : Named(n) \in Members(game, t) /\ game.name[Named(n)] = n
  BY NamedMembers
<1>d. \A c \in Members(game, t) : game.name[c] \in D
  BY DEF NamesOf
<1> HIDE DEF D
<1>3. slots \in [D -> Slots]
  BY <1>0, <1>2
<1>4. \A c \in Members(game, t) : slots[game.name[c]] = c
  BY <1>2, <1>d
<1> HIDE DEF slots
<1>5. r \in ResultOf(D)
  BY <1>3 DEF ResultOf
<1>6. r.slots = slots /\ r.kind = "load" /\ r.status = "pending"
  OBVIOUS
<1> HIDE DEF r
<1>7. Ok(game, res, {})
  <2>1. \A u \in OwnTeams : res[u] = IF u = t THEN r ELSE result[u]
    BY TeamFacts DEF TeamsInv, TypeOK
  <2> HIDE DEF res
  <2>2. \A u \in OwnTeams : \/ res[u] = NoResult
                            \/ result[u] # NoResult /\ (res[u].kind = "load" => result[u].kind = "load")
                            \/ game.state[u] \in {EMPTY, OPEN}
    BY <1>1, <2>1
  <2>3. result[t].kind # "save"
    BY DEF LoadTeam, Saving, NoResult
  <2>4. \A c \in game.ended : game.team[c] # Flock => game.team[c] \in OwnTeams
    BY <1>0, TeamFacts DEF Game
  <2>5. \A c \in game.ended : game.team[c] # Flock /\ game.race[c] # "started"
                                /\ result[game.team[c]].kind = "save" => res[game.team[c]].kind = "save"
    BY <2>1, <2>3, <2>4
  <2> QED BY <1>0, <2>2, <2>5, RequestOk
<1>8. Request(game, t, r)
  <2>1. \A c \in Slots : game.team[c] = t => \E n \in D : slots[n] = c /\ game.name[c] = n
    BY <1>d, <1>4 DEF Members
  <2>2. DOMAIN r.slots = D /\ ~HasSave(r)
    BY <1>3, <1>6 DEF HasSave
  <2> QED BY <1>6, <2>1, <2>2 DEF Request
<1>9. past' \in Past
  BY <1>0, <1>1 DEF Past
<1>10. \A row \in rows' : SavedTogether(row) /\ \E C \in SUBSET Names : row \in SavedOf(C)
  BY <1>1 DEF TeamsInv, TypeOK
<1>11. Kept(game, game) /\ game' = game
  BY <1>1 DEF Kept
<1> QED BY <1>1, <1>2, <1>5, <1>7, <1>8, <1>9, <1>10, <1>11, RequestStep

-----------------------------------------------------------------------------
(* The worker answers a request, *)
LEMMA RunsTyped ==
  ASSUME NEW D, NEW saved \in SavedOf(D)
  PROVE  RunsOf(saved) \in SUBSET Nat
<1>1. saved.tees \in [D -> Tees]
  BY DEF SavedOf
<1> QED BY <1>1 DEF RunsOf, Tees

LEMMA DoubtTyped ==
  ASSUME TeamsInv, NEW D, NEW saved \in SavedOf(D)
  PROVE  InDoubt(RunsOf(saved)) \in Past
<1>1. past \in Past /\ RunsOf(saved) \in SUBSET Nat
  BY RunsTyped DEF TeamsInv, TypeOK
<1> QED BY <1>1 DEF InDoubt, Past

LEMMA AnswerStep ==
  ASSUME TeamsInv, NEW t \in OwnTeams, result[t] # NoResult,
         NEW D \in SUBSET Names, NEW r \in ResultOf(D),
         r.kind = result[t].kind, r.slots = result[t].slots,
         HasSave(r) => SavedTogether(r.saved),
         result' = [result EXCEPT ![t] = r], UNCHANGED <<config, game>>, past' \in Past,
         \A row \in rows' : SavedTogether(row) /\ \E C \in SUBSET Names : row \in SavedOf(C)
  PROVE  TeamsInv'
<1> DEFINE res == [result EXCEPT ![t] = r]
<1>1. Ok(game, result, {}) /\ Requests(game, result)
  BY DEF TeamsInv
<1>2. \A u \in OwnTeams : res[u] = IF u = t THEN r ELSE result[u]
  BY TeamFacts DEF TeamsInv, TypeOK
<1>3. Ok(game, res, {})
  <2> HIDE DEF res
  <2>1. \A u \in OwnTeams : \/ res[u] = NoResult
                            \/ result[u] # NoResult /\ (res[u].kind = "load" => result[u].kind = "load")
    BY <1>2
  <2>2. \A c \in game.ended : game.team[c] # Flock => game.team[c] \in OwnTeams
    BY <1>1, TeamFacts DEF Ok, Game
  <2>3. \A c \in game.ended : game.team[c] # Flock /\ game.race[c] # "started"
                                /\ result[game.team[c]].kind = "save" => res[game.team[c]].kind = "save"
    BY <1>2, <2>2
  <2> QED BY <1>1, <2>1, <2>3, RequestOk
<1>4. Request(game, t, r)
  BY <1>1 DEF Requests, Request
<1>5. Kept(game, game) /\ game' = game /\ UNCHANGED config
  BY DEF Kept
<1> QED BY <1>3, <1>4, <1>5, RequestStep

LEMMA WithStatus ==
  ASSUME NEW D, NEW r \in ResultOf(D), NEW status,
         \/ r.kind = "save" /\ status \in {"SAVE_SUCCESS", "SAVE_FAILED"}
         \/ r.kind = "load" /\ status = "LOAD_FAILED"
         \/ r.kind = "load" /\ r.status = "selected" /\ status = "LOAD_SUCCESS"
  PROVE  LET a == [r EXCEPT !.status = status]
         IN  /\ a \in ResultOf(D)
             /\ a.kind = r.kind /\ a.slots = r.slots /\ a.saved = r.saved /\ a.status = status
<1>1. CASE r.kind = "save" /\ status \in {"SAVE_SUCCESS", "SAVE_FAILED"}
  BY <1>1 DEF ResultOf
<1>2. CASE r.kind = "load" /\ status = "LOAD_FAILED"
  BY <1>2 DEF ResultOf
<1>3. CASE r.kind = "load" /\ r.status = "selected" /\ status = "LOAD_SUCCESS"
  BY <1>3 DEF ResultOf
<1> QED BY <1>1, <1>2, <1>3

LEMMA StatusStep ==
  ASSUME TeamsInv, NEW t \in OwnTeams, result[t].kind \in {"save", "load"}, NEW status,
         \/ result[t].kind = "save" /\ status \in {"SAVE_SUCCESS", "SAVE_FAILED"}
         \/ result[t].kind = "load" /\ status = "LOAD_FAILED"
         \/ result[t].kind = "load" /\ result[t].status = "selected" /\ status = "LOAD_SUCCESS",
         result' = Answer(t, status), UNCHANGED <<config, game>>, past' \in Past,
         \A row \in rows' : SavedTogether(row) /\ \E C \in SUBSET Names : row \in SavedOf(C)
  PROVE  TeamsInv'
<1> DEFINE r == result[t]
           a == [r EXCEPT !.status = status]
<1>1. r # NoResult /\ t \in Teams
  BY TeamFacts DEF NoResult
<1>2. PICK D \in SUBSET Names : r \in ResultOf(D)
  BY <1>1 DEF TeamsInv, TypeOK
<1>3. /\ a \in ResultOf(D)
      /\ a.kind = r.kind /\ a.slots = r.slots /\ a.saved = r.saved /\ a.status = status
  BY <1>2, WithStatus
<1>4. result' = [result EXCEPT ![t] = a]
  BY DEF Answer
<1> HIDE DEF a
<1>5. HasSave(a) => HasSave(r)
  BY <1>3 DEF HasSave
<1>6. HasSave(r) => SavedTogether(r.saved)
  BY <1>1 DEF TeamsInv, Requests, Request
<1>7. HasSave(a) => SavedTogether(a.saved)
  BY <1>3, <1>5, <1>6
<1> QED BY <1>1, <1>3, <1>4, <1>7, AnswerStep

LEMMA WorkSaveStep ==
  ASSUME TeamsInv, NEW t \in OwnTeams, WorkSave(t)
  PROVE  TeamsInv'
<1> DEFINE r == result[t]
<1>1. r.kind = "save" /\ r # NoResult /\ t \in Teams
  BY TeamFacts DEF WorkSave, NoResult
<1>2. PICK D \in SUBSET Names : r \in ResultOf(D)
  BY <1>1 DEF TeamsInv, TypeOK
<1>3. r.saved \in SavedOf(D) /\ SavedTogether(r.saved)
  <2>1. r.saved \in SavedOf(D)
    BY <1>1, <1>2 DEF ResultOf
  <2> QED BY <1>1, <2>1 DEF TeamsInv, Requests, Request, HasSave
<1>4. \A row \in rows \cup {r.saved} :
        SavedTogether(row) /\ \E C \in SUBSET Names : row \in SavedOf(C)
  BY <1>3 DEF TeamsInv, TypeOK
<1>5. past \in Past /\ InDoubt(RunsOf(r.saved)) \in Past
  BY <1>3, DoubtTyped DEF TeamsInv, TypeOK
<1>6. PICK status \in {"SAVE_SUCCESS", "SAVE_FAILED"} :
        /\ result' = Answer(t, status)
        /\ rows' \subseteq rows \cup {r.saved}
        /\ past' \in {past, InDoubt(RunsOf(r.saved))}
        /\ UNCHANGED <<config, game>>
  BY DEF WorkSave
<1>7. \A row \in rows' : SavedTogether(row) /\ \E C \in SUBSET Names : row \in SavedOf(C)
  BY <1>4, <1>6
<1>8. past' \in Past
  BY <1>5, <1>6
<1> QED BY <1>1, <1>6, <1>7, <1>8, StatusStep

LEMMA WorkSelectStep ==
  ASSUME TeamsInv, NEW t \in OwnTeams, WorkSelect(t)
  PROVE  TeamsInv'
<1> DEFINE r == result[t]
<1>1. /\ r.kind = "load" /\ r # NoResult /\ t \in Teams
      /\ UNCHANGED <<config, game, rows, past>>
  BY TeamFacts DEF WorkSelect, NoResult
<1>2. past' \in Past
  BY <1>1 DEF TeamsInv, TypeOK
<1>3. \A row \in rows' : SavedTogether(row) /\ \E C \in SUBSET Names : row \in SavedOf(C)
  BY <1>1 DEF TeamsInv, TypeOK
<1>4. CASE result' = Answer(t, "LOAD_FAILED")
  BY <1>1, <1>2, <1>3, <1>4, StatusStep
<1>5. CASE \E row \in rows :
             /\ MatchPlayers(row, result[t].slots)
             /\ result' = [result EXCEPT ![t].status = "selected", ![t].saved = row]
  <2>1. PICK row \in rows :
          /\ MatchPlayers(row, r.slots)
          /\ result' = [result EXCEPT ![t].status = "selected", ![t].saved = row]
    BY <1>5
  <2>2. PICK D \in SUBSET Names : r \in ResultOf(D)
    BY <1>1 DEF TeamsInv, TypeOK
  <2>3. PICK C \in SUBSET Names : row \in SavedOf(C)
    BY DEF TeamsInv, TypeOK
  <2>4. r.slots \in [D -> Slots]
    BY <2>2 DEF ResultOf
  <2>5. row.tees \in [C -> Tees]
    BY <2>3 DEF SavedOf
  <2>6. C = D
    BY <2>1, <2>4, <2>5 DEF MatchPlayers
  <2> DEFINE a == [r EXCEPT !.status = "selected", !.saved = row]
  <2>7. /\ a \in ResultOf(D) /\ a.kind = r.kind /\ a.slots = r.slots /\ a.saved = row
    BY <1>1, <2>2, <2>3, <2>6 DEF ResultOf
  <2>8. result' = [result EXCEPT ![t] = a]
    <3>1. result = [u \in Teams |-> result[u]]
      BY DEF TeamsInv, TypeOK
    <3> QED BY <1>1, <2>1, <3>1
  <2> HIDE DEF a
  <2>9. SavedTogether(row)
    BY DEF TeamsInv
  <2> QED BY <1>1, <1>2, <1>3, <2>7, <2>8, <2>9, AnswerStep
<1> QED BY <1>4, <1>5 DEF WorkSelect

LEMMA WorkDeleteStep ==
  ASSUME TeamsInv, NEW t \in OwnTeams, WorkDelete(t)
  PROVE  TeamsInv'
<1> DEFINE r == result[t]
<1>1. /\ r.kind = "load" /\ r.status = "selected" /\ r # NoResult /\ t \in Teams
      /\ UNCHANGED <<config, game>> /\ rows' = rows \ {r.saved}
  BY TeamFacts DEF WorkDelete, NoResult
<1>2. PICK D \in SUBSET Names : r \in ResultOf(D)
  BY <1>1 DEF TeamsInv, TypeOK
<1>3. r.saved \in SavedOf(D)
  BY <1>1, <1>2 DEF ResultOf
<1>4. \A row \in rows' : SavedTogether(row) /\ \E C \in SUBSET Names : row \in SavedOf(C)
  BY <1>1 DEF TeamsInv, TypeOK
<1>5. past \in Past /\ InDoubt(RunsOf(r.saved)) \in Past
  BY <1>3, DoubtTyped DEF TeamsInv, TypeOK
<1>6. PICK status \in {"LOAD_SUCCESS", "LOAD_FAILED"} :
        result' = Answer(t, status) /\ past' \in {past, InDoubt(RunsOf(r.saved))}
  BY DEF WorkDelete
<1>7. past' \in Past
  BY <1>5, <1>6
<1> QED BY <1>1, <1>4, <1>6, <1>7, StatusStep

LEMMA LoadElsewhereStep ==
  ASSUME TeamsInv, LoadElsewhere
  PROVE  TeamsInv'
<1>1. PICK row \in rows :
        rows' = rows \ {row} /\ past' = [past EXCEPT !.elsewhere = @ \cup RunsOf(row)]
  BY DEF LoadElsewhere
<1>2. UNCHANGED <<config, game, result>>
  BY DEF LoadElsewhere
<1>3. PICK D \in SUBSET Names : row \in SavedOf(D)
  BY DEF TeamsInv, TypeOK
<1>4. RunsOf(row) \in SUBSET Nat /\ past \in Past
  BY <1>3, RunsTyped DEF TeamsInv, TypeOK
<1>5. past' \in Past
  BY <1>1, <1>4 DEF Past
<1>6. TypeOK'
  BY <1>1, <1>2, <1>5 DEF TeamsInv, TypeOK
<1>7. Ok(game', result', {}) /\ Players(game') /\ Requests(game', result')
  BY <1>2 DEF TeamsInv
<1>8. \A s \in rows' : SavedTogether(s)
  BY <1>1 DEF TeamsInv
<1> QED BY <1>6, <1>7, <1>8 DEF TeamsInv

(* and the game takes the answer. *)
LEMMA ProcessSaveTeamStep ==
  ASSUME TeamsInv, NEW t \in OwnTeams, ProcessSaveTeam(t)
  PROVE  /\ TeamsInv'
         /\ \/ /\ Tame(game, {}, game', {})
               /\ IF Holding(result[t]) THEN past' = InDoubt(RunsOf(result[t].saved))
                                        ELSE past' = past
            \/ /\ result[t].status \in {"SAVE_FAILED", "LOAD_SUCCESS"} /\ past' = past
               /\ Loaded(game, game', t, result[t].saved)
<1> DEFINE r == result[t]
           members == Members(game, t)
           gone == SetForceCharacterTeam(game, members, Flock)
           res == [result EXCEPT ![t] = NoResult]
<1>0. /\ game \in Game /\ Ok(game, result, {}) /\ Players(game) /\ Requests(game, result)
      /\ past \in Past /\ t \in Teams /\ r # NoResult /\ members \in SUBSET Slots
  BY TeamFacts DEF TeamsInv, TypeOK, ProcessSaveTeam, Saving, Members
<1>1. result' = res /\ UNCHANGED <<config, rows>>
  BY DEF ProcessSaveTeam
<1>2. \A u \in Teams : res[u] = IF u = t THEN NoResult ELSE result[u]
  BY DEF TeamsInv, TypeOK
<1>3. res = [u \in Teams |-> res[u]]
  <2>1. result = [u \in Teams |-> result[u]]
    BY DEF TeamsInv, TypeOK
  <2> QED BY <1>0, <2>1
<1> HIDE DEF res
<1>4. ASSUME NEW h, Ok(h, res, {}), Players(h), Requests(h, res), game' = h, past' \in Past
      PROVE  TeamsInv'
  <2>1. TypeOK'
    <3>1. config' \in Configs /\ game' \in Game /\ past' \in Past
      BY <1>1, <1>4 DEF TeamsInv, TypeOK, Ok
    <3>2. \A u \in Teams : result'[u] = NoResult \/ \E D \in SUBSET Names : result'[u] \in ResultOf(D)
      BY <1>1, <1>2 DEF TeamsInv, TypeOK
    <3>3. \A row \in rows' : \E D \in SUBSET Names : row \in SavedOf(D)
      BY <1>1 DEF TeamsInv, TypeOK
    <3> QED BY <1>1, <1>3, <3>1, <3>2, <3>3 DEF TypeOK
  <2>2. Ok(game', result', {}) /\ Players(game') /\ Requests(game', result')
    BY <1>1, <1>4
  <2>3. \A row \in rows' : SavedTogether(row)
    BY <1>1 DEF TeamsInv
  <2> QED BY <2>1, <2>2, <2>3 DEF TeamsInv
<1>5. ASSUME NEW h, Ok(h, result, {}),
             r.kind # "save" \/ \A c \in Slots : h.team[c] # t
      PROVE Ok(h, res, {})
  <2>1. \A u \in OwnTeams : \/ res[u] = NoResult
                            \/ result[u] # NoResult /\ (res[u].kind = "load" => result[u].kind = "load")
    BY <1>2, TeamFacts
  <2>2. \A c \in h.ended : c \in Slots /\ h.team[c] \in Teams
    BY <1>5 DEF Ok, Game
  <2>3. \A c \in h.ended : h.team[c] # Flock /\ h.race[c] # "started"
                             /\ result[h.team[c]].kind = "save" => res[h.team[c]].kind = "save"
    BY <1>2, <1>5, <2>2
  <2> QED BY <1>5, <2>1, <2>3, RequestOk
<1>6. ASSUME NEW h, Requests(h, result) PROVE Requests(h, res)
  BY <1>2, <1>6, TeamFacts DEF Requests, Request
<1>7. CASE /\ game' = game /\ past' \in Past /\ (r.kind # "save" \/ members = {})
           /\ past' = IF Holding(r) THEN InDoubt(RunsOf(r.saved)) ELSE past
  <2>1. r.kind # "save" \/ \A c \in Slots : game.team[c] # t
    BY <1>7 DEF Members
  <2>2. Tame(game, {}, game, {})
    BY TameSame
  <2> QED BY <1>0, <1>4, <1>5, <1>6, <1>7, <2>1, <2>2
<1>8. CASE game' = gone /\ past' = past /\ ~Holding(r) /\ members # {}
  <2>1. /\ \A c \in members : game.team[c] = t /\ game.race[c] # "started"
        /\ \A c \in Slots : game.team[c] = t => c \in members
    <3>1. InState(game, game.state[t], r, Racing(game, t, {}))
      BY <1>0 DEF Ok, Round
    <3>2. \A c \in Racing(game, t, {}) : game.race[c] # "started"
      BY <1>0, <3>1 DEF InState
    <3> QED BY <3>2 DEF Members, Racing
  <2> HIDE DEF members
  <2>2. Ok(gone, result, {}) /\ Kept(game, gone)
    BY <1>0, <1>8, <2>1, SetForceOk, SetForceKept, TeamFacts
  <2>4. Goes(game, members, {}, t, Flock)
    BY <1>0, <1>8, <2>1, TeamFacts DEF Goes
  <2>5. Tame(game, {}, gone, {})
    BY <2>4, SetForceTame, Zenon
  <2>6. Moved(game, members, t, Flock, gone)
    BY <1>0, <1>8, <2>1, SetForceFacts, TeamFacts
  <2>7. \A c \in Slots : gone.team[c] # t
    BY <2>1, <2>6, TeamFacts DEF Moved
  <2> HIDE DEF gone
  <2>3. Players(gone) /\ Requests(gone, result)
    BY <1>0, <2>2, KeptPlayers, KeptRequests DEF Kept
  <2> QED BY <1>0, <1>4, <1>5, <1>6, <1>8, <2>2, <2>3, <2>5, <2>7
<1>9. CASE /\ game' = Load(game, t) /\ past' = past /\ members # {}
           /\ r.status \in {"SAVE_FAILED", "LOAD_SUCCESS"}
  <2>1. Saving(t)
    BY <1>0 DEF Saving
  <2>2. /\ Ok(Load(game, t), res, {}) /\ Players(Load(game, t)) /\ Requests(Load(game, t), res)
        /\ Loaded(game, Load(game, t), t, r.saved)
    BY <1>9, <2>1, LoadOk DEF res
  <2> QED BY <1>0, <1>4, <1>9, <2>2
<1>10. ASSUME r.status \in {"SAVE_FAILED", "LOAD_SUCCESS"} PROVE InDoubt(RunsOf(r.saved)) \in Past
  <2>1. PICK D \in SUBSET Names : r \in ResultOf(D)
    BY <1>0 DEF TeamsInv, TypeOK
  <2>2. r.saved \in SavedOf(D)
    BY <1>10, <2>1 DEF ResultOf
  <2> QED BY <2>2, DoubtTyped
<1>l. r.status = "LOAD_FAILED" => r.kind # "save"
  <2>1. PICK D \in SUBSET Names : r \in ResultOf(D)
    BY <1>0 DEF TeamsInv, TypeOK
  <2> QED BY <2>1 DEF ResultOf
<1>h. Holding(r) <=> r.status \in {"SAVE_FAILED", "LOAD_SUCCESS"}
  <2>1. r.status # "pending"
    BY DEF ProcessSaveTeam
  <2> QED BY <2>1 DEF Holding
<1>11. \/ /\ game' = game /\ past' \in Past /\ (r.kind # "save" \/ members = {})
          /\ past' = IF Holding(r) THEN InDoubt(RunsOf(r.saved)) ELSE past
       \/ game' = gone /\ past' = past /\ ~Holding(r) /\ members # {}
       \/ /\ game' = Load(game, t) /\ past' = past /\ members # {}
          /\ r.status \in {"SAVE_FAILED", "LOAD_SUCCESS"}
  <2> HIDE DEF members, gone
  <2> QED BY <1>0, <1>10, <1>l, <1>h DEF ProcessSaveTeam, members, gone
<1> QED BY <1>7, <1>8, <1>9, <1>11

-----------------------------------------------------------------------------
LEMMA TeamsInit == Init => TeamsInv
<1> SUFFICES ASSUME Init PROVE TeamsInv
  OBVIOUS
<1>1. /\ game.name = [c \in Slots |-> Nobody] /\ game.team = [c \in Slots |-> Flock]
      /\ game.race = [c \in Slots |-> "dead"] /\ game.time = [c \in Slots |-> 0]
      /\ game.state = [t \in Teams |-> EMPTY] /\ game.locked = {} /\ game.practice = {}
      /\ game.timer = {} /\ game.invited = [t \in Teams |-> {}] /\ game.ended = {}
  BY DEF Init
<1>2. game \in Game
  BY TeamFacts, StatesFacts DEF Init, Game, Races
<1>3. result = [t \in Teams |-> NoResult] /\ rows = {} /\ config \in Configs
  BY DEF Init
<1>4. past \in Past
  BY DEF Init, Past
<1>5. TypeOK
  BY <1>2, <1>3, <1>4 DEF TypeOK
<1>6. \A t \in Teams : game.state[t] = EMPTY /\ game.invited[t] = {} /\ result[t] = NoResult
  BY <1>1, <1>3
<1>7. \A c \in Slots : game.team[c] = Flock /\ game.race[c] = "dead" /\ game.name[c] = Nobody
  BY <1>1
<1>8. Fresh(game)
  BY <1>1, <1>6, <1>7, TeamFacts DEF Fresh, FreshTeam
<1>9. ASSUME NEW t \in OwnTeams
      PROVE  InState(game, game.state[t], result[t], Racing(game, t, {}))
  <2>1. Racing(game, t, {}) = {}
    BY <1>7 DEF Racing
  <2>2. game.state[t] \in {EMPTY, OPEN}
    BY <1>6, TeamFacts
  <2> QED BY <2>1, <2>2, NotStarted
<1>t. Timed(game, result)
  BY <1>1 DEF Timed, Clocks, Arrived
<1>10. Ok(game, result, {})
  BY <1>2, <1>6, <1>8, <1>9, <1>t, TeamFacts DEF Ok, Round
<1>11. Players(game)
  BY <1>7 DEF Players
<1>12. Requests(game, result)
  BY <1>6, TeamFacts DEF Requests, Request
<1> QED BY <1>3, <1>5, <1>10, <1>11, <1>12 DEF TeamsInv

LEMMA TeamsStep == TeamsInv /\ [Next]_vars => TeamsInv'
<1> SUFFICES ASSUME TeamsInv, [Next]_vars PROVE TeamsInv'
  OBVIOUS
<1>1. CASE UNCHANGED vars
  <2>1. UNCHANGED <<config, game, result, rows, past>>
    BY <1>1 DEF vars
  <2>2. TypeOK'
    BY <2>1 DEF TeamsInv, TypeOK
  <2> QED BY <2>1, <2>2 DEF TeamsInv
<1>2. ASSUME NEW c \in Slots, Player(c) PROVE TeamsInv'
  <2>1. CASE \E t \in Teams : Join(c, t)
    BY <2>1, JoinStep
  <2>2. CASE \E d \in Slots : Invite(c, d) \/ RequestSwap(c, d) \/ Swap(c, d)
    BY <2>2, InviteStep, RequestSwapStep, SwapStep
  <2>3. CASE Connect(c) \/ Disconnect(c) \/ Spawn(c) \/ Kill(c) \/ Spectate(c)
    BY <2>3, ConnectStep, DisconnectStep, SpawnStep, KillStep, SpectateStep
  <2>4. CASE Start(c) \/ Arrive(c) \/ Lock(c) \/ Practice(c)
    BY <2>4, StartStep, ArriveStep, LockStep, PracticeStep
  <2> QED BY <1>2, <2>1, <2>2, <2>3, <2>4 DEF Player
<1>3. ASSUME NEW t \in OwnTeams, Team(t) PROVE TeamsInv'
  <2>1. CASE KillTick(t) \/ SaveTeam(t) \/ LoadTeam(t) \/ ProcessSaveTeam(t)
    BY <2>1, KillTickStep, SaveTeamStep, LoadTeamStep, ProcessSaveTeamStep
  <2>2. CASE WorkSave(t) \/ WorkSelect(t) \/ WorkDelete(t)
    BY <2>2, WorkSaveStep, WorkSelectStep, WorkDeleteStep
  <2> QED BY <1>3, <2>1, <2>2 DEF Team
<1> QED BY <1>1, <1>2, <1>3, LoadElsewhereStep DEF Next

LEMMA TeamsInvariant == Spec => []TeamsInv
BY TeamsInit, TeamsStep, PTL DEF Spec

(* The players, teams, requests and saves keep their types (CGameTeams,    *)
(* CSaveTeam).                                                             *)
THEOREM TeamsTypeCorrect == Spec => []TypeOK
<1>1. TeamsInv => TypeOK
  BY DEF TeamsInv
<1> QED BY <1>1, TeamsInvariant, PTL

(* A team nobody is in is as new, whoever left it and how (EmptyIsFresh:   *)
(* CGameTeams::SetForceCharacterTeam and its ResetRoundState).             *)
THEOREM FreshTheorem == Spec => []EmptyIsFresh
<1>1. TeamsInv => EmptyIsFresh
  BY DEF TeamsInv, Ok, Fresh, FreshTeam, EmptyIsFresh, Members
<1> QED BY <1>1, TeamsInvariant, PTL

(* A team on its way races together, from one start, also after deaths,    *)
(* swaps and saves, however many players and teams there are (OneRun:      *)
(* CGameTeams::OnCharacterStart, OnCharacterDeath, CSaveTeam::Load).       *)
THEOREM OneRunTheorem == Spec => []OneRun
<1>1. ASSUME TeamsInv, NEW t \in OwnTeams
      PROVE  IF game.state[t] \in {STARTED, UNFINISHABLE}
               THEN Uniform(game, Playing(game, t))
               ELSE game.state[t] <= OPEN => \A c \in Playing(game, t) : game.race[c] = "none"
  <2>1. Playing(game, t) = Racing(game, t, {})
    BY DEF Playing, Members, Alive, Racing
  <2>2. InState(game, game.state[t], result[t], Racing(game, t, {}))
    BY <1>1 DEF TeamsInv, Ok, Round
  <2>3. game.state[t] \in States
    BY <1>1, TeamFacts DEF TeamsInv, TypeOK, Game
  <2>4. game.state[t] <= OPEN <=> game.state[t] \in {EMPTY, OPEN}
    BY <2>3, StatesFacts
  <2> QED BY <2>1, <2>2, <2>4 DEF InState
<1>2. TeamsInv => OneRun
  BY <1>1 DEF OneRun, Uniform
<1> QED BY <1>2, TeamsInvariant, PTL

(* A save or load is never applied to a slot that has changed hands since  *)
(* it was asked for (RightTee: CScorePlayerResult and CSaveTeam::Load).    *)
THEOREM RightTeeTheorem == Spec => []RightTee
<1>1. TeamsInv => RightTee
  BY DEF TeamsInv, Requests, Request, RightTee, Saving, Members
<1> QED BY <1>1, TeamsInvariant, PTL

-----------------------------------------------------------------------------
(* Where the runs of the saves are: held by a request, in the database, or *)
(* with another server, which may do with it what it likes.                *)
SaveEntry(kind, of, run, s) == [kind |-> kind, of |-> of, run |-> run, practice |-> s.practice]

SaveEntries(kind, of, s) ==
  {SaveEntry(kind, of, s.tees[n].time, s) : n \in {m \in DOMAIN s.tees : s.tees[m].race = "started"}}

HoldingTeams(res) == {t \in OwnTeams : res[t] # NoResult /\ Holding(res[t])}

Held(res) == UNION {SaveEntries("held", t, res[t].saved) : t \in HoldingTeams(res)}

Stored(rs) == UNION {SaveEntries("stored", s, s) : s \in rs}

AwayEntry(run) == [kind |-> "elsewhere", of |-> 0, run |-> run, practice |-> TRUE]

Elsewhere(p) == {AwayEntry(r) : r \in p.elsewhere \ {0}}

Saves(res, rs, p) == Held(res) \cup Stored(rs) \cup Elsewhere(p)

HonestRank(k, doubt) ==
  IF k.saving THEN k.tees = {0} ELSE k.run \in doubt \/ (k.tees = {k.run} /\ ~k.again)

(* Each run that is not in doubt is in one of the places P, and has begun; *)
(* one that was practised is still for practice; the ranks are honest.     *)
Placed(P, ranks, p) ==
  /\ \A r : Twice(P, r) => r \in p.doubt
  /\ \A e \in P : e.run \in 1 .. p.runs /\ (e.run \in p.practised => e.run \in p.doubt \/ e.practice)
  /\ p.practised \subseteq 0 .. p.runs
  /\ \A k \in ranks : HonestRank(k, p.doubt)

RunsInv == Placed(Entries(game, {}) \cup Saves(result, rows, past), game.ranks, past)

GameKinds == {"tee", "team", "ranked"}

LEMMA KindsFacts ==
  /\ \A g, ex : \A e \in Entries(g, ex) : e.kind \in GameKinds
  /\ \A res, rs, p : \A e \in Saves(res, rs, p) : e.kind \notin GameKinds
<1>1. ASSUME NEW g, NEW ex, NEW e \in Entries(g, ex) PROVE e.kind \in GameKinds
  <2>1. CASE e \in On(g, ex)
    <3>1. PICK c \in Racers(g, ex) : e = Entry(g, c)
      BY <2>1 DEF On
    <3> QED BY <3>1 DEF Entry, GameKinds
  <2>2. CASE e \in Ranked(g)
    BY <2>2 DEF Ranked, RankEntry, GameKinds
  <2> QED BY <2>1, <2>2 DEF Entries
<1>2. ASSUME NEW res, NEW rs, NEW p, NEW e \in Saves(res, rs, p) PROVE e.kind \notin GameKinds
  <2>1. \A kind, of, s : \A k \in SaveEntries(kind, of, s) : k.kind = kind
    BY DEF SaveEntries, SaveEntry
  <2>2. CASE e \in Held(res)
    BY <2>1, <2>2 DEF Held, GameKinds
  <2>3. CASE e \in Stored(rs)
    BY <2>1, <2>3 DEF Stored, GameKinds
  <2>4. CASE e \in Elsewhere(p)
    BY <2>4 DEF Elsewhere, AwayEntry, GameKinds
  <2> QED BY <2>2, <2>3, <2>4 DEF Saves
<1> QED BY <1>1, <1>2

(* A save is of one run, if of any. *)
LEMMA SaveEntryFacts ==
  ASSUME NEW kind, NEW of, NEW s, SavedTogether(s)
  PROVE  /\ \A p, q \in SaveEntries(kind, of, s) : p = q
         /\ \A p \in SaveEntries(kind, of, s) :
              /\ p = SaveEntry(kind, of, p.run, s)
              /\ p.run \in RunsOf(s) /\ p.run # 0
              /\ \A k, o : SaveEntry(k, o, p.run, s) \in SaveEntries(k, o, s)
         /\ \A r \in RunsOf(s) : r = 0 \/ SaveEntry(kind, of, r, s) \in SaveEntries(kind, of, s)
<1> DEFINE N == {m \in DOMAIN s.tees : s.tees[m].race = "started"}
<1>1. \A m, n \in N : s.tees[m].time = s.tees[n].time
  <2>1. CASE \A n \in DOMAIN s.tees : s.tees[n].race = "none"
    BY <2>1
  <2>2. CASE \A m, n \in DOMAIN s.tees : s.tees[m].race = "started" /\ s.tees[m].time = s.tees[n].time
    BY <2>2
  <2> QED BY <2>1, <2>2 DEF SavedTogether
<1>2. \A n \in N : s.tees[n].time # 0 /\ s.tees[n].time \in RunsOf(s)
  BY DEF SavedTogether, RunsOf
<1>3. \A r \in RunsOf(s) : r = 0 \/ \E n \in N : s.tees[n].time = r
  <2> TAKE r \in RunsOf(s)
  <2>1. PICK n \in DOMAIN s.tees : r = s.tees[n].time
    BY DEF RunsOf
  <2>2. s.tees[n].race = "none" \/ s.tees[n].race = "started"
    BY DEF SavedTogether
  <2> QED BY <2>1, <2>2 DEF SavedTogether
<1>4. \A k, o : SaveEntries(k, o, s) = {SaveEntry(k, o, s.tees[n].time, s) : n \in N}
  BY DEF SaveEntries
<1> HIDE DEF N
<1>5. \A p, q \in SaveEntries(kind, of, s) : p = q
  BY <1>1, <1>4
<1>6. ASSUME NEW p \in SaveEntries(kind, of, s)
      PROVE  /\ p = SaveEntry(kind, of, p.run, s)
             /\ p.run \in RunsOf(s) /\ p.run # 0
             /\ \A k, o : SaveEntry(k, o, p.run, s) \in SaveEntries(k, o, s)
  <2>1. PICK n \in N : p = SaveEntry(kind, of, s.tees[n].time, s)
    BY <1>4
  <2>2. p.run = s.tees[n].time
    BY <2>1 DEF SaveEntry
  <2> QED BY <1>2, <1>4, <2>1, <2>2
<1> QED BY <1>3, <1>4, <1>5, <1>6

(* The game goes on while the saves stay, or some go. *)
LEMMA FollowsUnion ==
  ASSUME NEW A, NEW B, Follows(A, B), NEW O, NEW S, S \subseteq O,
         \A e \in A : e.kind \in GameKinds, \A e \in B : e.kind \in GameKinds,
         \A e \in O : e.kind \notin GameKinds
  PROVE  Follows(A \cup O, B \cup S)
<1>1. \A q \in B \cup S : \E p \in A \cup O : p.run = q.run /\ (p.practice => q.practice)
  BY DEF Follows
<1>2. ASSUME NEW r, NEW p \in B \cup S, NEW q \in B \cup S, p # q, p.run = r, q.run = r
      PROVE  Twice(A \cup O, r)
  <2>1. ASSUME NEW b \in B, NEW o \in O, b.run = r, o.run = r PROVE Twice(A \cup O, r)
    <3>1. PICK a \in A : a.run = r
      BY <2>1 DEF Follows
    <3>2. a # o
      OBVIOUS
    <3> QED BY <2>1, <3>1, <3>2 DEF Twice
  <2>2. CASE p \in B /\ q \in B
    <3>1. Twice(B, r)
      BY <1>2, <2>2 DEF Twice
    <3>2. Twice(A, r)
      BY <3>1 DEF Follows
    <3> QED BY <3>2 DEF Twice
  <2>3. CASE p \in S /\ q \in S
    BY <1>2, <2>3 DEF Twice
  <2> QED BY <1>2, <2>1, <2>2, <2>3
<1>3. \A r : Twice(B \cup S, r) => Twice(A \cup O, r)
  BY <1>2 DEF Twice
<1> QED BY <1>1, <1>3 DEF Follows

(* A run moves from the place m to n. *)
LEMMA FollowsMove ==
  ASSUME NEW P, NEW Q, NEW m \in P, NEW n, n.run = m.run, m.practice => n.practice,
         \A q \in Q : q = n \/ (q \in P /\ q # m)
  PROVE  Follows(P, Q)
<1>1. \A q \in Q : \E p \in P : p.run = q.run /\ (p.practice => q.practice)
  OBVIOUS
<1>2. ASSUME NEW r, NEW p \in Q, NEW q \in Q, p # q, p.run = r, q.run = r
      PROVE  Twice(P, r)
  <2>1. CASE p = n
    BY <1>2, <2>1 DEF Twice
  <2>2. CASE q = n
    BY <1>2, <2>2 DEF Twice
  <2>3. CASE p # n /\ q # n
    BY <1>2, <2>3 DEF Twice
  <2> QED BY <2>1, <2>2, <2>3
<1> QED BY <1>1, <1>2 DEF Follows, Twice

(* Each run was somewhere before, and none that is not in doubt gets into  *)
(* two places: then all are still placed.                                  *)
PlacedNext(P, ranks, p, Q, R, q) ==
  /\ \A e \in Q : \E d \in P : d.run = e.run /\ (d.practice => e.practice)
  /\ \A r : Twice(Q, r) => Twice(P, r) \/ r \in q.doubt
  /\ q.runs = p.runs /\ p.doubt \subseteq q.doubt
  /\ \A r \in q.practised : r \in p.practised \/ \E e \in Q : e.run = r /\ e.practice
  /\ \A k \in R : k \in ranks \/ NewRank(k, P)

LEMMA PlacedStep ==
  ASSUME NEW P, NEW ranks, NEW p, NEW Q, NEW R, NEW q,
         Placed(P, ranks, p), PlacedNext(P, ranks, p, Q, R, q)
  PROVE  Placed(Q, R, q)
<1>0. /\ \A e \in Q : \E d \in P : d.run = e.run /\ (d.practice => e.practice)
      /\ \A r : Twice(Q, r) => Twice(P, r) \/ r \in q.doubt
      /\ q.runs = p.runs /\ p.doubt \subseteq q.doubt
      /\ \A r \in q.practised : r \in p.practised \/ \E e \in Q : e.run = r /\ e.practice
      /\ \A k \in R : k \in ranks \/ NewRank(k, P)
  BY DEF PlacedNext
<1>1. \A r : Twice(Q, r) => r \in q.doubt
  BY <1>0 DEF Placed
<1>2. ASSUME NEW e \in Q
      PROVE  e.run \in 1 .. q.runs /\ (e.run \in q.practised => e.run \in q.doubt \/ e.practice)
  <2>1. PICK d \in P : d.run = e.run /\ (d.practice => e.practice)
    BY <1>0
  <2>2. e.run \in 1 .. q.runs /\ (e.run \in p.practised => e.run \in q.doubt \/ e.practice)
    BY <1>0, <2>1 DEF Placed
  <2>3. ASSUME NEW c \in Q, c.run = e.run, c.practice PROVE e.run \in q.doubt \/ e.practice
    BY <1>1, <2>3 DEF Twice
  <2> QED BY <1>0, <2>2, <2>3
<1>3. q.practised \subseteq 0 .. q.runs
  <2>1. \A r \in 1 .. q.runs : r \in 0 .. q.runs
    OBVIOUS
  <2> QED BY <1>0, <1>2, <2>1 DEF Placed
<1>4. \A k \in R : HonestRank(k, q.doubt)
  BY <1>0 DEF Placed, NewRank, HonestRank
<1> QED BY <1>1, <1>2, <1>3, <1>4 DEF Placed

(* What was practised is being raced, and for practice. *)
LEMMA PractisedFacts ==
  ASSUME NEW g, NEW S
  PROVE  \A r \in Practised(g) : \E e \in Entries(g, {}) \cup S : e.run = r /\ e.practice
<1> TAKE r \in Practised(g)
<1>1. PICK c \in Slots : g.race[c] = "started" /\ g.team[c] \in g.practice /\ r = g.time[c]
  BY DEF Practised
<1>2. Entry(g, c) \in Entries(g, {})
  BY <1>1 DEF Entries, On, Racers
<1>3. Entry(g, c).run = r /\ Entry(g, c).practice
  BY <1>1 DEF Entry
<1> QED BY <1>2, <1>3

(* The game goes on, and what the saves hold stays or goes. *)
LEMMA GameRuns ==
  ASSUME RunsInv, Tame(game, {}, game', {}),
         Saves(result', rows', past') \subseteq Saves(result, rows, past),
         past'.runs = past.runs, past.doubt \subseteq past'.doubt,
         past'.practised \subseteq past.practised \cup Practised(game')
  PROVE  RunsInv'
<1> DEFINE P == Entries(game, {}) \cup Saves(result, rows, past)
           Q == Entries(game', {}) \cup Saves(result', rows', past')
<1>1. Follows(Entries(game, {}), Entries(game', {}))
  BY DEF Tame
<1>2. Follows(P, Q)
  BY <1>1, KindsFacts, FollowsUnion, Zenon
<1>3. \A r \in Practised(game') : \E e \in Q : e.run = r /\ e.practice
  BY PractisedFacts
<1>4. \A k \in game'.ranks : k \in game.ranks \/ NewRank(k, P)
  BY DEF Tame, NewRank, Twice
<1>5. Placed(P, game.ranks, past)
  BY DEF RunsInv
<1> HIDE DEF P, Q
<1>6. Placed(Q, game'.ranks, past')
  <2>1. \A e \in Q : \E d \in P : d.run = e.run /\ (d.practice => e.practice)
    BY <1>2 DEF Follows
  <2>2. \A r : Twice(Q, r) => Twice(P, r) \/ r \in past'.doubt
    BY <1>2 DEF Follows
  <2>3. \A r \in past'.practised : r \in past.practised \/ \E e \in Q : e.run = r /\ e.practice
    BY <1>3
  <2>4. PlacedNext(P, game.ranks, past, Q, game'.ranks, past')
    BY <1>4, <2>1, <2>2, <2>3 DEF PlacedNext
  <2> QED BY <1>5, <2>4, PlacedStep, Zenon
<1> QED BY <1>6 DEF RunsInv, Q

(* A run that nobody races changes its place. *)
LEMMA MoveRuns ==
  ASSUME RunsInv,
         NEW P, P = Entries(game, {}) \cup Saves(result, rows, past),
         NEW Q, Q = Entries(game', {}) \cup Saves(result', rows', past'),
         Follows(P, Q), game'.ranks = game.ranks,
         past'.runs = past.runs, past.doubt \subseteq past'.doubt,
         past'.practised = past.practised
  PROVE  RunsInv'
<1>1. Placed(P, game.ranks, past)
  BY DEF RunsInv
<1>2. Placed(Q, game'.ranks, past')
  <2>1. \A e \in Q : \E d \in P : d.run = e.run /\ (d.practice => e.practice)
    BY DEF Follows
  <2>2. \A r : Twice(Q, r) => Twice(P, r) \/ r \in past'.doubt
    BY DEF Follows
  <2>3. \A r \in past'.practised : r \in past.practised
    OBVIOUS
  <2>4. PlacedNext(P, game.ranks, past, Q, game'.ranks, past')
    BY <2>1, <2>2, <2>3 DEF PlacedNext
  <2> QED BY <1>1, <2>4, PlacedStep
<1> QED BY <1>2 DEF RunsInv

(* A run begins, and it is the only one with its number. *)
LEMMA StartRuns ==
  ASSUME TeamsInv, RunsInv, RunBegins, UNCHANGED <<result, rows>>
  PROVE  RunsInv'
<1> DEFINE S == Saves(result, rows, past)
           P == Entries(game, {}) \cup S
           Q == Entries(game', {}) \cup S
           run == past.runs + 1
           new == \E d \in Slots : game'.time[d] = run
<1>1. /\ past.runs \in Nat /\ run \in Nat
      /\ past'.runs = IF new THEN run ELSE past.runs
      /\ past'.practised = past.practised \cup Practised(game')
      /\ past'.doubt = past.doubt /\ past'.elsewhere = past.elsewhere
      /\ game'.ranks = game.ranks
  BY DEF TeamsInv, TypeOK, Past, RunBegins, Begins
<1>2. Saves(result', rows', past') = S
  BY <1>1 DEF Saves, Elsewhere
<1>3. Placed(P, game.ranks, past)
  BY DEF RunsInv
<1>4. PICK x : /\ x.run = run
               /\ \A c \in Racers(game', {}) :
                    \/ game'.time[c] = run /\ Entry(game', c) = x
                    \/ c \in Racers(game, {}) /\ Entry(game', c) = Entry(game, c)
  BY DEF RunBegins, Begins
<1>5. ASSUME NEW e \in Q PROVE e \in P \/ (e = x /\ new)
  <2>1. CASE e \in S \/ e \in Ranked(game')
    BY <1>1, <2>1 DEF Entries, Ranked
  <2>2. CASE e \in On(game', {})
    <3>1. PICK c \in Racers(game', {}) : e = Entry(game', c)
      BY <2>2 DEF On
    <3>2. c \in Slots
      BY <3>1 DEF Racers
    <3>3. CASE game'.time[c] = run /\ Entry(game', c) = x
      BY <3>1, <3>2, <3>3
    <3>4. CASE c \in Racers(game, {}) /\ Entry(game', c) = Entry(game, c)
      BY <3>1, <3>4 DEF Entries, On
    <3> QED BY <1>4, <3>3, <3>4
  <2> QED BY <2>1, <2>2 DEF Entries
<1>6. \A r \in Practised(game') : \E e \in Q : e.run = r /\ e.practice
  BY PractisedFacts
<1> HIDE DEF P, Q, new, run, S
<1>7. \A e \in P : e.run # run /\ e.run \in 1 .. past.runs
  <2>1. \A e \in P : e.run \in 1 .. past.runs
    BY <1>3 DEF Placed
  <2> QED BY <1>1, <2>1 DEF run
<1>8. \A r : Twice(Q, r) => r \in past.doubt
  <2> SUFFICES ASSUME NEW r, NEW p \in Q, NEW q \in Q, p # q, p.run = r, q.run = r
               PROVE  r \in past.doubt
    BY DEF Twice
  <2>1. CASE p \in P /\ q \in P
    <3>1. Twice(P, r)
      BY <2>1 DEF Twice
    <3> QED BY <1>3, <3>1 DEF Placed
  <2>2. CASE ~(p \in P /\ q \in P)
    BY <1>4, <1>5, <1>7, <2>2
  <2> QED BY <2>1, <2>2
<1>9. ASSUME NEW e \in Q
      PROVE  e.run \in 1 .. past'.runs /\ (e.run \in past'.practised => e.run \in past'.doubt \/ e.practice)
  <2>1. e.run \in 1 .. past'.runs
    <3>1. CASE e \in P
      BY <1>1, <1>7, <3>1 DEF run
    <3>2. CASE e = x /\ new
      <4>1. e.run = run /\ past'.runs = run
        BY <1>1, <1>4, <3>2
      <4> QED BY <1>1, <4>1 DEF run
    <3> QED BY <1>5, <3>1, <3>2
  <2>2. ASSUME NEW c \in Q, c.run = e.run, c.practice PROVE e.run \in past.doubt \/ e.practice
    BY <1>8, <2>2 DEF Twice
  <2>3. ASSUME e.run \in past.practised PROVE e.run \in past.doubt \/ e.practice
    <3>1. e.run # run
      BY <1>1, <1>3, <2>3 DEF Placed, run
    <3>2. e \in P
      BY <1>4, <1>5, <3>1
    <3> QED BY <1>3, <2>3, <3>2 DEF Placed
  <2> QED BY <1>1, <1>6, <2>1, <2>2, <2>3
<1>10. past'.practised \subseteq 0 .. past'.runs
  <2>1. \A r \in past.practised : r \in 0 .. past'.runs
    BY <1>1, <1>3 DEF Placed, run
  <2>2. \A r \in Practised(game') : r \in 1 .. past'.runs
    BY <1>6, <1>9
  <2>3. \A r \in 1 .. past'.runs : r \in 0 .. past'.runs
    OBVIOUS
  <2> QED BY <1>1, <2>1, <2>2, <2>3
<1>11. \A k \in game'.ranks : HonestRank(k, past'.doubt)
  BY <1>1, <1>3 DEF Placed
<1>12. Placed(Q, game'.ranks, past')
  BY <1>1, <1>8, <1>9, <1>10, <1>11 DEF Placed
<1> QED BY <1>2, <1>12 DEF RunsInv, Q, S

(* Only the request of the team t changes. *)
LEMMA HeldFacts ==
  ASSUME NEW t \in OwnTeams, NEW res, NEW r, \A u \in OwnTeams : u # t => r[u] = res[u]
  PROVE  /\ \A e \in Held(r) : \/ e \in Held(res) /\ e.of # t
                               \/ t \in HoldingTeams(r) /\ e \in SaveEntries("held", t, r[t].saved)
         /\ t \in HoldingTeams(res) => SaveEntries("held", t, res[t].saved) \subseteq Held(res)
<1>1. \A kind, of, s : \A e \in SaveEntries(kind, of, s) : e.of = of
  BY DEF SaveEntries, SaveEntry
<1>2. ASSUME NEW e \in Held(r)
      PROVE  \/ e \in Held(res) /\ e.of # t
             \/ t \in HoldingTeams(r) /\ e \in SaveEntries("held", t, r[t].saved)
  <2>1. PICK u \in HoldingTeams(r) : e \in SaveEntries("held", u, r[u].saved)
    BY DEF Held
  <2>2. CASE u = t
    BY <2>1, <2>2
  <2>3. CASE u # t
    <3>1. u \in HoldingTeams(res) /\ r[u] = res[u]
      BY <2>1, <2>3 DEF HoldingTeams
    <3> QED BY <1>1, <2>1, <2>3, <3>1 DEF Held
  <2> QED BY <2>2, <2>3
<1> QED BY <1>2 DEF Held

(* The request of t, and its save *)
LEMMA RequestFacts ==
  ASSUME TeamsInv, NEW t \in OwnTeams, result[t] # NoResult
  PROVE  /\ HasSave(result[t]) => SavedTogether(result[t].saved)
         /\ \E D : result[t] \in ResultOf(D)
         /\ \A r : result' = [result EXCEPT ![t] = r] =>
              \A u \in OwnTeams : result'[u] = IF u = t THEN r ELSE result[u]
<1>1. t \in Teams /\ OwnTeams \subseteq Teams
  BY TeamFacts
<1>2. /\ result = [u \in Teams |-> result[u]]
      /\ \E D \in SUBSET Names : result[t] \in ResultOf(D)
      /\ Request(game, t, result[t])
  BY <1>1 DEF TeamsInv, TypeOK, Requests
<1>3. \A r : result' = [result EXCEPT ![t] = r] =>
        \A u \in OwnTeams : result'[u] = IF u = t THEN r ELSE result[u]
  BY <1>1, <1>2
<1> QED BY <1>2, <1>3 DEF Request

(* The worker answers: the request of t has another status. *)
LEMMA AnswerFacts ==
  ASSUME TeamsInv, NEW t \in OwnTeams, result[t] # NoResult, NEW status,
         result' = Answer(t, status)
  PROVE  /\ \A u \in OwnTeams : u # t => result'[u] = result[u]
         /\ result'[t].kind = result[t].kind /\ result'[t].saved = result[t].saved
         /\ result'[t].status = status
<1> DEFINE r == [result[t] EXCEPT !.status = status]
<1>1. result' = [result EXCEPT ![t] = r]
  BY DEF Answer
<1>2. PICK D : result[t] \in ResultOf(D)
  BY RequestFacts
<1>3. r.kind = result[t].kind /\ r.saved = result[t].saved /\ r.status = status
  BY <1>2 DEF ResultOf
<1> HIDE DEF r
<1>4. \A u \in OwnTeams : result'[u] = IF u = t THEN r ELSE result[u]
  BY <1>1, RequestFacts
<1> QED BY <1>3, <1>4

(* The database takes the save, or says that it does not. *)
LEMMA WorkSaveRuns ==
  ASSUME TeamsInv, RunsInv, NEW t \in OwnTeams, WorkSave(t)
  PROVE  RunsInv'
<1> DEFINE s == result[t].saved
           P == Entries(game, {}) \cup Saves(result, rows, past)
           Q == Entries(game', {}) \cup Saves(result', rows', past')
<1>1. /\ result[t].kind = "save" /\ result[t].status = "pending" /\ result[t] # NoResult
      /\ game' = game
  BY DEF WorkSave, NoResult
<1>2. SavedTogether(s) /\ t \in HoldingTeams(result)
  BY <1>1, RequestFacts DEF HasSave, HoldingTeams, Holding
<1>3. SaveEntries("held", t, s) \subseteq Held(result)
  BY <1>2, HeldFacts
<1>4. PICK status \in {"SAVE_SUCCESS", "SAVE_FAILED"} :
        /\ result' = Answer(t, status)
        /\ \/ status = "SAVE_SUCCESS" /\ rows' = rows \cup {s} /\ past' = past
           \/ status = "SAVE_FAILED" /\ rows' = rows /\ past' = past
           \/ status = "SAVE_FAILED" /\ rows' = rows \cup {s} /\ past' = InDoubt(RunsOf(s))
  BY DEF WorkSave
<1>5. /\ \A u \in OwnTeams : u # t => result'[u] = result[u]
      /\ result'[t].kind = "save" /\ result'[t].saved = s /\ result'[t].status = status
  BY <1>1, <1>4, AnswerFacts
<1>6. \A e \in Held(result') : \/ e \in Held(result) /\ e.of # t
                               \/ t \in HoldingTeams(result') /\ e \in SaveEntries("held", t, s)
  BY <1>5, HeldFacts
<1>7. Held(result') \subseteq Held(result)
  BY <1>3, <1>6
<1>8. Stored(rows \cup {s}) = Stored(rows) \cup SaveEntries("stored", s, s)
  BY DEF Stored
<1>9. past \in Past /\ past.doubt \subseteq InDoubt(RunsOf(s)).doubt
      /\ RunsOf(s) \subseteq InDoubt(RunsOf(s)).doubt
      /\ InDoubt(RunsOf(s)).runs = past.runs /\ InDoubt(RunsOf(s)).practised = past.practised
      /\ InDoubt(RunsOf(s)).elsewhere = past.elsewhere
  BY DEF TeamsInv, TypeOK, Past, InDoubt
<1> HIDE DEF s
<1>10. CASE status = "SAVE_FAILED" /\ rows' = rows /\ past' = past
  <2>1. Saves(result', rows', past') \subseteq Saves(result, rows, past)
    BY <1>7, <1>10 DEF Saves
  <2>2. Tame(game, {}, game', {})
    BY <1>1, TameSame
  <2> QED BY <1>10, <2>1, <2>2, GameRuns
<1>11. CASE status = "SAVE_SUCCESS" /\ rows' = rows \cup {s} /\ past' = past
  <2>1. t \notin HoldingTeams(result')
    BY <1>5, <1>11 DEF HoldingTeams, Holding
  <2>2. \A e \in Q : e \in SaveEntries("stored", s, s) \/ (e \in P /\ ~(e.kind = "held" /\ e.of = t))
    <3>1. \A e \in Entries(game, {}) : e.kind # "held"
      BY KindsFacts DEF GameKinds
    <3>2. \A e \in Stored(rows) \cup Elsewhere(past) : e.kind # "held"
      BY DEF Stored, Elsewhere, SaveEntries, SaveEntry, AwayEntry
    <3> QED BY <1>1, <1>6, <1>8, <1>11, <2>1, <3>1, <3>2 DEF Saves
  <2>3. Follows(P, Q)
    <3>1. CASE SaveEntries("stored", s, s) = {}
      BY <2>2, <3>1, FollowsSubset
    <3>2. CASE SaveEntries("stored", s, s) # {}
      <4>1. PICK n : n \in SaveEntries("stored", s, s)
        BY <3>2
      <4> DEFINE m == SaveEntry("held", t, n.run, s)
      <4>2. /\ m \in SaveEntries("held", t, s) /\ n = SaveEntry("stored", s, n.run, s)
            /\ \A e \in SaveEntries("stored", s, s) : e = n
        BY <1>2, <4>1, SaveEntryFacts
      <4>3. m \in P
        BY <1>3, <4>2 DEF Saves
      <4>4. m.run = n.run /\ (m.practice => n.practice) /\ m.kind = "held" /\ m.of = t
        BY <4>2 DEF SaveEntry
      <4> HIDE DEF P, Q, m
      <4>5. \A q \in Q : q = n \/ (q \in P /\ q # m)
        BY <2>2, <4>2, <4>4
      <4> QED BY <4>3, <4>4, <4>5, FollowsMove
    <3> QED BY <3>1, <3>2
  <2> HIDE DEF P, Q
  <2> QED BY <1>1, <1>11, <2>3, MoveRuns DEF P, Q
<1>12. CASE status = "SAVE_FAILED" /\ rows' = rows \cup {s} /\ past' = InDoubt(RunsOf(s))
  <2>1. \A e \in Q : e \in P \/ e \in SaveEntries("stored", s, s)
    BY <1>1, <1>7, <1>8, <1>9, <1>12 DEF Saves, Elsewhere
  <2>2. \A e \in SaveEntries("stored", s, s) :
          /\ e.run \in past'.doubt
          /\ \E d \in P : d.run = e.run /\ (d.practice => e.practice)
    <3> TAKE e \in SaveEntries("stored", s, s)
    <3>1. e.run \in RunsOf(s) /\ SaveEntry("held", t, e.run, s) \in SaveEntries("held", t, s)
          /\ e = SaveEntry("stored", s, e.run, s)
      BY <1>2, SaveEntryFacts
    <3>2. SaveEntry("held", t, e.run, s) \in P
      BY <1>3, <3>1 DEF Saves
    <3>3. SaveEntry("held", t, e.run, s).run = e.run /\ SaveEntry("held", t, e.run, s).practice = e.practice
      BY <3>1 DEF SaveEntry
    <3> QED BY <1>9, <1>12, <3>1, <3>2, <3>3
  <2>3. Placed(P, game.ranks, past)
    BY DEF RunsInv
  <2> HIDE DEF P, Q
  <2>4. \A r : Twice(Q, r) => Twice(P, r) \/ r \in past'.doubt
    BY <2>1, <2>2 DEF Twice
  <2>5. \A e \in Q : \E d \in P : d.run = e.run /\ (d.practice => e.practice)
    BY <2>1, <2>2
  <2>6. PlacedNext(P, game.ranks, past, Q, game'.ranks, past')
    BY <1>1, <1>9, <1>12, <2>4, <2>5 DEF PlacedNext
  <2>7. Placed(Q, game'.ranks, past')
    BY <2>3, <2>6, PlacedStep, Zenon
  <2> QED BY <2>7 DEF RunsInv, Q
<1> QED BY <1>4, <1>10, <1>11, <1>12

(* A request that keeps no run: the saves stay as they are, or get fewer. *)
LEMMA NotHeldRuns ==
  ASSUME RunsInv, NEW t \in OwnTeams, \A u \in OwnTeams : u # t => result'[u] = result[u],
         t \notin HoldingTeams(result'), rows' \subseteq rows, Tame(game, {}, game', {}),
         past'.runs = past.runs, past'.practised = past.practised,
         past'.elsewhere = past.elsewhere, past.doubt \subseteq past'.doubt
  PROVE  RunsInv'
<1>1. \A e \in Held(result') : e \in Held(result)
  BY HeldFacts
<1>2. Stored(rows') \subseteq Stored(rows)
  BY DEF Stored
<1>3. Saves(result', rows', past') \subseteq Saves(result, rows, past)
  BY <1>1, <1>2 DEF Saves, Elsewhere
<1> QED BY <1>3, GameRuns

LEMMA WorkSelectAnswer ==
  ASSUME TeamsInv, NEW t \in OwnTeams, WorkSelect(t)
  PROVE  /\ \A u \in OwnTeams : u # t => result'[u] = result[u]
         /\ result'[t].kind = "load" /\ result'[t].status \in {"LOAD_FAILED", "selected"}
<1>1. /\ result[t].kind = "load" /\ result[t].status = "pending" /\ result[t] # NoResult
      /\ UNCHANGED <<config, game, rows, past>> /\ t \in Teams
  BY TeamFacts DEF WorkSelect, NoResult
<1>2. PICK D : result[t] \in ResultOf(D)
  BY <1>1, RequestFacts
<1>3. CASE result' = Answer(t, "LOAD_FAILED")
  BY <1>1, <1>3, AnswerFacts
<1>4. CASE \E row \in rows : result' = [result EXCEPT ![t].status = "selected", ![t].saved = row]
  <2>1. PICK row \in rows : result' = [result EXCEPT ![t].status = "selected", ![t].saved = row]
    BY <1>4
  <2> DEFINE a == [result[t] EXCEPT !.status = "selected", !.saved = row]
  <2>2. a.kind = "load" /\ a.status = "selected"
    BY <1>1, <1>2 DEF ResultOf
  <2>3. result' = [result EXCEPT ![t] = a]
    <3>1. result = [u \in Teams |-> result[u]]
      BY DEF TeamsInv, TypeOK
    <3> QED BY <1>1, <2>1, <3>1
  <2> HIDE DEF a
  <2>4. \A u \in OwnTeams : result'[u] = IF u = t THEN a ELSE result[u]
    BY <1>1, <2>3, RequestFacts
  <2> QED BY <2>2, <2>4
<1> QED BY <1>3, <1>4 DEF WorkSelect

LEMMA WorkSelectRuns ==
  ASSUME TeamsInv, RunsInv, NEW t \in OwnTeams, WorkSelect(t)
  PROVE  RunsInv'
<1>1. UNCHANGED <<config, game, rows, past>>
  BY DEF WorkSelect
<1>2. /\ \A u \in OwnTeams : u # t => result'[u] = result[u]
      /\ t \notin HoldingTeams(result')
  BY WorkSelectAnswer DEF HoldingTeams, Holding
<1>3. Tame(game, {}, game', {})
  BY <1>1, TameSame
<1> QED BY <1>1, <1>2, <1>3, NotHeldRuns

(* The load takes the run out of the database, or finds that it has gone. *)
LEMMA WorkDeleteRuns ==
  ASSUME TeamsInv, RunsInv, NEW t \in OwnTeams, WorkDelete(t)
  PROVE  RunsInv'
<1> DEFINE s == result[t].saved
           P == Entries(game, {}) \cup Saves(result, rows, past)
           Q == Entries(game', {}) \cup Saves(result', rows', past')
<1>1. /\ result[t].kind = "load" /\ result[t].status = "selected" /\ result[t] # NoResult
      /\ game' = game /\ rows' = rows \ {s}
  BY DEF WorkDelete, NoResult
<1>2. SavedTogether(s)
  BY <1>1, RequestFacts DEF HasSave
<1>3. PICK status \in {"LOAD_SUCCESS", "LOAD_FAILED"} :
        /\ result' = Answer(t, status)
        /\ \/ status = "LOAD_SUCCESS" /\ s \in rows /\ past' = past
           \/ status = "LOAD_FAILED" /\ past' \in {past, InDoubt(RunsOf(s))}
  BY DEF WorkDelete
<1>4. /\ \A u \in OwnTeams : u # t => result'[u] = result[u]
      /\ result'[t].kind = "load" /\ result'[t].saved = s /\ result'[t].status = status
  BY <1>1, <1>3, AnswerFacts
<1>5. past \in Past /\ past.doubt \subseteq InDoubt(RunsOf(s)).doubt
      /\ InDoubt(RunsOf(s)).runs = past.runs /\ InDoubt(RunsOf(s)).practised = past.practised
      /\ InDoubt(RunsOf(s)).elsewhere = past.elsewhere
  BY DEF TeamsInv, TypeOK, Past, InDoubt
<1> HIDE DEF s
<1>6. CASE status = "LOAD_FAILED" /\ past' \in {past, InDoubt(RunsOf(s))}
  <2>1. t \notin HoldingTeams(result')
    BY <1>4, <1>6 DEF HoldingTeams, Holding
  <2>2. Tame(game, {}, game', {})
    BY <1>1, TameSame
  <2>3. /\ past'.runs = past.runs /\ past'.practised = past.practised
        /\ past'.elsewhere = past.elsewhere /\ past.doubt \subseteq past'.doubt
    BY <1>5, <1>6
  <2>4. rows' \subseteq rows
    BY <1>1
  <2> QED BY <1>4, <2>1, <2>2, <2>3, <2>4, NotHeldRuns
<1>7. CASE status = "LOAD_SUCCESS" /\ s \in rows /\ past' = past
  <2>1. \A e \in Held(result') : e \in Held(result) \/ e \in SaveEntries("held", t, s)
    BY <1>4, HeldFacts
  <2>2. \A e \in Q : e \in SaveEntries("held", t, s) \/ (e \in P /\ ~(e.kind = "stored" /\ e.of = s))
    <3>1. \A e \in Entries(game, {}) : e.kind # "stored"
      BY KindsFacts DEF GameKinds
    <3>2. \A e \in Held(result) \cup Elsewhere(past) : e.kind # "stored"
      BY DEF Held, Elsewhere, SaveEntries, SaveEntry, AwayEntry
    <3>3. \A e \in Stored(rows') : e \in Stored(rows) /\ e.of # s
      BY <1>1 DEF Stored, SaveEntries, SaveEntry
    <3> QED BY <1>1, <1>7, <2>1, <3>1, <3>2, <3>3 DEF Saves
  <2>3. SaveEntries("stored", s, s) \subseteq Stored(rows)
    BY <1>7 DEF Stored
  <2>4. Follows(P, Q)
    <3>1. CASE SaveEntries("held", t, s) = {}
      BY <2>2, <3>1, FollowsSubset
    <3>2. CASE SaveEntries("held", t, s) # {}
      <4>1. PICK n : n \in SaveEntries("held", t, s)
        BY <3>2
      <4> DEFINE m == SaveEntry("stored", s, n.run, s)
      <4>2. /\ m \in SaveEntries("stored", s, s) /\ n = SaveEntry("held", t, n.run, s)
            /\ \A e \in SaveEntries("held", t, s) : e = n
        BY <1>2, <4>1, SaveEntryFacts
      <4>3. m \in P
        BY <2>3, <4>2 DEF Saves
      <4>4. m.run = n.run /\ (m.practice => n.practice) /\ m.kind = "stored" /\ m.of = s
        BY <4>2 DEF SaveEntry
      <4> HIDE DEF P, Q, m
      <4>5. \A q \in Q : q = n \/ (q \in P /\ q # m)
        BY <2>2, <4>2, <4>4
      <4> QED BY <4>3, <4>4, <4>5, FollowsMove
    <3> QED BY <3>1, <3>2
  <2> HIDE DEF P, Q
  <2> QED BY <1>1, <1>7, <2>4, MoveRuns DEF P, Q
<1> QED BY <1>3, <1>6, <1>7

(* Another server takes a run out of the database. *)
LEMMA LoadElsewhereRuns ==
  ASSUME TeamsInv, RunsInv, LoadElsewhere
  PROVE  RunsInv'
<1> DEFINE P == Entries(game, {}) \cup Saves(result, rows, past)
           Q == Entries(game', {}) \cup Saves(result', rows', past')
<1>1. PICK s \in rows :
        rows' = rows \ {s} /\ past' = [past EXCEPT !.elsewhere = @ \cup RunsOf(s)]
  BY DEF LoadElsewhere
<1>2. game' = game /\ result' = result
  BY DEF LoadElsewhere
<1>3. SavedTogether(s) /\ past \in Past
  BY DEF TeamsInv, TypeOK
<1>4. /\ past'.elsewhere = past.elsewhere \cup RunsOf(s)
      /\ past'.runs = past.runs /\ past'.practised = past.practised /\ past'.doubt = past.doubt
  BY <1>1, <1>3 DEF Past
<1>5. SaveEntries("stored", s, s) \subseteq Stored(rows)
  BY DEF Stored
<1>6. ASSUME NEW e \in Q
      PROVE  \/ e \in P /\ ~(e.kind = "stored" /\ e.of = s)
             \/ \E r \in RunsOf(s) : r # 0 /\ e = AwayEntry(r)
  <2>1. CASE e \in Entries(game, {})
    BY <2>1, KindsFacts DEF GameKinds
  <2>2. CASE e \in Held(result)
    <3>1. e.kind = "held"
      BY <2>2 DEF Held, SaveEntries, SaveEntry
    <3> QED BY <2>2, <3>1 DEF Saves
  <2>3. CASE e \in Stored(rows')
    <3>1. e \in Stored(rows) /\ e.of # s
      BY <1>1, <2>3 DEF Stored, SaveEntries, SaveEntry
    <3> QED BY <3>1 DEF Saves
  <2>4. CASE e \in Elsewhere(past')
    <3>1. PICK r \in past'.elsewhere \ {0} : e = AwayEntry(r)
      BY <2>4 DEF Elsewhere
    <3>2. e.kind = "elsewhere"
      BY <3>1 DEF AwayEntry
    <3> QED BY <1>4, <3>1, <3>2 DEF Saves, Elsewhere
  <2> QED BY <1>2, <2>1, <2>2, <2>3, <2>4 DEF Saves
<1> HIDE DEF Q
<1>7. Follows(P, Q)
  <2>1. CASE \A r \in RunsOf(s) : r = 0
    <3>1. Q \subseteq P
      BY <1>6, <2>1
    <3> QED BY <3>1, FollowsSubset
  <2>2. CASE \E r \in RunsOf(s) : r # 0
    <3>1. PICK run \in RunsOf(s) : run # 0
      BY <2>2
    <3> DEFINE m == SaveEntry("stored", s, run, s)
               n == AwayEntry(run)
    <3>2. m \in SaveEntries("stored", s, s)
      BY <1>3, <3>1, SaveEntryFacts
    <3>3. m \in P
      BY <1>5, <3>2 DEF Saves
    <3>4. m.run = run /\ n.run = run /\ n.practice /\ m.kind = "stored" /\ m.of = s
      BY DEF SaveEntry, AwayEntry
    <3>5. \A r \in RunsOf(s) : r = 0 \/ r = run
      <4> TAKE r \in RunsOf(s)
      <4>1. CASE r # 0
        <5>1. SaveEntry("stored", s, r, s) \in SaveEntries("stored", s, s)
          BY <1>3, <4>1, SaveEntryFacts
        <5>2. SaveEntry("stored", s, r, s) = m
          BY <1>3, <3>2, <5>1, SaveEntryFacts
        <5>3. SaveEntry("stored", s, r, s).run = r
          BY DEF SaveEntry
        <5> QED BY <3>4, <5>2, <5>3
      <4> QED BY <4>1
    <3> HIDE DEF P, m
    <3>6. \A q \in Q : q = n \/ (q \in P /\ q # m)
      BY <1>6, <3>4, <3>5
    <3> QED BY <3>3, <3>4, <3>6, FollowsMove
  <2> QED BY <2>1, <2>2
<1> HIDE DEF P
<1> QED BY <1>2, <1>4, <1>7, MoveRuns DEF P, Q

LEMMA LoadTeamRuns ==
  ASSUME TeamsInv, RunsInv, NEW t \in OwnTeams, LoadTeam(t)
  PROVE  RunsInv'
<1> DEFINE r == [kind |-> "load", status |-> "pending", saved |-> NoTeam, slots |-> SlotsOf(t)]
<1>1. /\ result' = [result EXCEPT ![t] = r] /\ game' = game /\ rows' = rows
      /\ past' = [past EXCEPT !.requests = @ + 1]
  BY DEF LoadTeam
<1>2. r.kind = "load" /\ r.status = "pending"
  OBVIOUS
<1> HIDE DEF r
<1>3. \A u \in OwnTeams : result'[u] = IF u = t THEN r ELSE result[u]
  BY <1>1, TeamFacts DEF TeamsInv, TypeOK
<1>4. t \notin HoldingTeams(result')
  BY <1>2, <1>3 DEF HoldingTeams, Holding
<1>5. /\ past'.runs = past.runs /\ past'.practised = past.practised
      /\ past'.elsewhere = past.elsewhere /\ past'.doubt = past.doubt
  BY <1>1 DEF TeamsInv, TypeOK, Past
<1>6. Tame(game, {}, game', {})
  BY <1>1, TameSame
<1> QED BY <1>1, <1>3, <1>4, <1>5, <1>6, NotHeldRuns

(* The race of a team that is saved goes from its tees to the save. *)
LEMMA SavedRaces ==
  ASSUME TeamsInv, NEW t \in OwnTeams, SaveTeam(t)
  PROVE  /\ \A c \in Racers(game', {}) :
              c \in Racers(game, {}) /\ game.team[c] # t /\ Entry(game', c) = Entry(game, c)
         /\ game'.ranks = game.ranks
<1> DEFINE calm == [game EXCEPT !.voted = @ \ Members(game, t)]
           ms == Members(game, t)
<1>1. game \in Game /\ ms \in SUBSET Slots
  BY DEF TeamsInv, TypeOK, Members
<1>2. /\ calm \in Game /\ calm.race = game.race /\ calm.time = game.time
      /\ calm.team = game.team /\ calm.practice = game.practice /\ calm.ranks = game.ranks
  BY <1>1 DEF Game
<1>3. game' = SetRace(calm, ms, "dead", 0)
  BY DEF SaveTeam, Dead
<1> HIDE DEF calm
<1>4. "dead" \in Races /\ 0 \in Nat
  BY DEF Races
<1>5. /\ SameTeams(calm, game')
      /\ game'.race = [c \in Slots |-> IF c \in ms THEN "dead" ELSE calm.race[c]]
      /\ game'.time = [c \in Slots |-> IF c \in ms THEN 0 ELSE calm.time[c]]
      /\ game'.ranks = calm.ranks
  BY <1>1, <1>2, <1>3, <1>4, SetRaceFacts
<1>6. game'.team = game.team /\ game'.practice = game.practice
  BY <1>2, <1>5 DEF SameTeams
<1>7. \A c \in Racers(game', {}) :
        c \in Racers(game, {}) /\ c \notin ms /\ game'.time[c] = game.time[c]
  BY <1>2, <1>5 DEF Racers
<1>8. \A c \in Racers(game', {}) : Entry(game', c) = Entry(game, c)
  BY <1>6, <1>7 DEF Entry
<1>9. \A c \in Racers(game', {}) : game.team[c] # t
  BY <1>7 DEF Racers, Members
<1> QED BY <1>2, <1>5, <1>7, <1>8, <1>9

LEMMA SaveTeamRuns ==
  ASSUME TeamsInv, RunsInv, NEW t \in OwnTeams, SaveTeam(t)
  PROVE  RunsInv'
<1> DEFINE s == SavedTeam(t)
           r == [kind |-> "save", status |-> "pending", saved |-> s, slots |-> SlotsOf(t)]
           P == Entries(game, {}) \cup Saves(result, rows, past)
           Q == Entries(game', {}) \cup Saves(result', rows', past')
<1>1. /\ result' = [result EXCEPT ![t] = r] /\ rows' = rows
      /\ past' = [past EXCEPT !.requests = @ + 1]
  BY DEF SaveTeam
<1>2. r.kind = "save" /\ r.saved = s /\ r # NoResult
  BY DEF NoResult
<1> HIDE DEF r
<1>3. t \in Teams /\ t # Flock /\ \A u \in OwnTeams : result'[u] = IF u = t THEN r ELSE result[u]
  BY <1>1, TeamFacts DEF TeamsInv, TypeOK
<1>4. SavedTogether(s)
  <2>1. Requests(game', result')
    BY SaveTeamStep DEF TeamsInv
  <2>2. Request(game', t, r)
    BY <1>3, <2>1 DEF Requests
  <2> HIDE DEF s
  <2> QED BY <1>2, <2>2 DEF Request, HasSave
<1>5. /\ past'.runs = past.runs /\ past'.practised = past.practised
      /\ past'.elsewhere = past.elsewhere /\ past'.doubt = past.doubt
  BY <1>1 DEF TeamsInv, TypeOK, Past
<1>6. /\ \A c \in Racers(game', {}) :
           c \in Racers(game, {}) /\ game.team[c] # t /\ Entry(game', c) = Entry(game, c)
      /\ game'.ranks = game.ranks
  BY SavedRaces
<1>7. \A e \in SaveEntries("held", t, s) : \E c \in Racers(game, {}) :
        game.team[c] = t /\ game.time[c] = e.run /\ e.practice = (t \in game.practice)
  <2> TAKE e \in SaveEntries("held", t, s)
  <2> DEFINE D == NamesOf(Members(game, t))
  <2>1. s.tees = [n \in D |-> Tee(game, Named(n))] /\ s.practice = (t \in game.practice)
    BY DEF SavedTeam
  <2>2. \A n \in D : Named(n) \in Members(game, t)
    BY NamedMembers
  <2> HIDE DEF s, D
  <2>3. PICK n \in DOMAIN s.tees : s.tees[n].race = "started" /\ e = SaveEntry("held", t, s.tees[n].time, s)
    BY DEF SaveEntries
  <2>4. n \in D /\ s.tees[n].race = game.race[Named(n)] /\ s.tees[n].time = game.time[Named(n)]
    BY <2>1, <2>3 DEF Tee
  <2>5. e.run = game.time[Named(n)] /\ e.practice = (t \in game.practice)
    BY <2>1, <2>3, <2>4 DEF SaveEntry
  <2> QED BY <2>2, <2>3, <2>4, <2>5 DEF Members, Racers
<1> HIDE DEF s
<1>8. ASSUME NEW e \in Q
      PROVE  e \in SaveEntries("held", t, s) \/ (e \in P /\ ~(e.kind = "team" /\ e.of = t))
  <2>1. CASE e \in On(game', {})
    <3>1. PICK c \in Racers(game', {}) : e = Entry(game', c)
      BY <2>1 DEF On
    <3>2. c \in Racers(game, {}) /\ game.team[c] # t /\ e = Entry(game, c)
      BY <1>6, <3>1
    <3>3. ~(e.kind = "team" /\ e.of = t)
      BY <3>2 DEF Entry
    <3> QED BY <3>2, <3>3 DEF Entries, On
  <2>2. CASE e \in Ranked(game')
    <3>1. e \in Ranked(game) /\ e.kind = "ranked"
      BY <1>6, <2>2 DEF Ranked, RankEntry
    <3> QED BY <3>1 DEF Entries
  <2>3. CASE e \in Held(result')
    <3>1. e \in Held(result) \/ e \in SaveEntries("held", t, s)
      BY <1>2, <1>3, <2>3, HeldFacts
    <3>2. e.kind = "held"
      BY <2>3 DEF Held, SaveEntries, SaveEntry
    <3> QED BY <3>1, <3>2 DEF Saves
  <2>4. CASE e \in Stored(rows) \cup Elsewhere(past')
    <3>1. e \in Saves(result, rows, past)
      BY <1>5, <2>4 DEF Saves, Elsewhere
    <3>2. e.kind # "team"
      BY <3>1, KindsFacts DEF GameKinds
    <3> QED BY <3>1, <3>2
  <2> QED BY <1>1, <2>1, <2>2, <2>3, <2>4 DEF Saves, Entries
<1> HIDE DEF Q
<1>9. Follows(P, Q)
  <2>1. CASE SaveEntries("held", t, s) = {}
    BY <1>8, <2>1, FollowsSubset
  <2>2. CASE SaveEntries("held", t, s) # {}
    <3>1. PICK n : n \in SaveEntries("held", t, s)
      BY <2>2
    <3>2. \A e \in SaveEntries("held", t, s) : e = n
      BY <1>4, <3>1, SaveEntryFacts
    <3>3. PICK c \in Racers(game, {}) :
            game.team[c] = t /\ game.time[c] = n.run /\ n.practice = (t \in game.practice)
      BY <1>7, <3>1
    <3> DEFINE m == Entry(game, c)
    <3>4. m \in P
      BY DEF Entries, On
    <3>5. m.run = n.run /\ m.practice = n.practice /\ m.kind = "team" /\ m.of = t
      BY <1>3, <3>3 DEF Entry
    <3> HIDE DEF P, m
    <3>6. \A q \in Q : q = n \/ (q \in P /\ q # m)
      BY <1>8, <3>2, <3>5
    <3> QED BY <3>4, <3>5, <3>6, FollowsMove
  <2> QED BY <2>1, <2>2
<1> HIDE DEF P
<1> QED BY <1>5, <1>6, <1>9, MoveRuns DEF P, Q

(* The race of a team that gets its save back goes to its tees. *)
LEMMA ProcessSaveTeamRuns ==
  ASSUME TeamsInv, RunsInv, NEW t \in OwnTeams, ProcessSaveTeam(t)
  PROVE  RunsInv'
<1> DEFINE s == result[t].saved
           P == Entries(game, {}) \cup Saves(result, rows, past)
           Q == Entries(game', {}) \cup Saves(result', rows', past')
<1>1. result[t] # NoResult /\ result' = [result EXCEPT ![t] = NoResult] /\ rows' = rows
  BY DEF ProcessSaveTeam, Saving
<1>2. \A u \in OwnTeams : result'[u] = IF u = t THEN NoResult ELSE result[u]
  BY <1>1, RequestFacts
<1>3. t \notin HoldingTeams(result')
  BY <1>2 DEF HoldingTeams
<1>4. CASE Tame(game, {}, game', {}) /\ past' \in {past, InDoubt(RunsOf(s))}
  <2>1. /\ past'.runs = past.runs /\ past'.practised = past.practised
        /\ past'.elsewhere = past.elsewhere /\ past.doubt \subseteq past'.doubt
    BY <1>4 DEF TeamsInv, TypeOK, Past, InDoubt
  <2> QED BY <1>1, <1>2, <1>3, <1>4, <2>1, NotHeldRuns
<1>5. CASE /\ result[t].status \in {"SAVE_FAILED", "LOAD_SUCCESS"} /\ past' = past
           /\ Loaded(game, game', t, s)
  <2>1. PICK D : result[t] \in ResultOf(D)
    BY <1>1, RequestFacts
  <2>2. HasSave(result[t]) /\ t \in HoldingTeams(result)
    BY <1>1, <1>5, <2>1 DEF HasSave, HoldingTeams, Holding, ResultOf
  <2>3. SavedTogether(s)
    BY <1>1, <2>2, RequestFacts
  <2>4. SaveEntries("held", t, s) \subseteq Held(result)
    BY <1>1, <1>2, <2>2, HeldFacts
  <2> HIDE DEF s
  <2>5. ASSUME NEW e \in Q
        PROVE  \/ e \in P /\ ~(e.kind = "held" /\ e.of = t)
               \/ \E n \in SaveEntries("held", t, s) :
                    e = [kind |-> "team", of |-> t, run |-> n.run, practice |-> s.practice]
    <3>1. CASE e \in On(game', {})
      <4>1. PICK c \in Racers(game', {}) : e = Entry(game', c)
        BY <3>1 DEF On
      <4>2. CASE c \in Racers(game, {}) /\ Entry(game', c) = Entry(game, c)
        <5>1. e \in Entries(game, {})
          BY <4>1, <4>2 DEF Entries, On
        <5> QED BY <5>1, KindsFacts DEF GameKinds
      <4>3. CASE \E n \in DOMAIN s.tees :
                   /\ s.tees[n].race = "started"
                   /\ Entry(game', c) = [kind |-> "team", of |-> t, run |-> s.tees[n].time,
                                         practice |-> s.practice]
        <5>1. PICK n \in DOMAIN s.tees :
                /\ s.tees[n].race = "started"
                /\ e = [kind |-> "team", of |-> t, run |-> s.tees[n].time, practice |-> s.practice]
          BY <4>1, <4>3
        <5>2. SaveEntry("held", t, s.tees[n].time, s) \in SaveEntries("held", t, s)
          BY <5>1 DEF SaveEntries
        <5>3. SaveEntry("held", t, s.tees[n].time, s).run = s.tees[n].time
          BY DEF SaveEntry
        <5> QED BY <5>1, <5>2, <5>3
      <4> QED BY <1>5, <4>2, <4>3 DEF Loaded
    <3>2. CASE e \in Ranked(game')
      <4>1. e \in Ranked(game) /\ e.kind = "ranked"
        BY <1>5, <3>2 DEF Loaded, Ranked, RankEntry
      <4> QED BY <4>1 DEF Entries
    <3>3. CASE e \in Held(result')
      <4>1. e \in Held(result) /\ e.of # t
        BY <1>2, <1>3, <3>3, HeldFacts
      <4> QED BY <4>1 DEF Saves
    <3>4. CASE e \in Stored(rows) \cup Elsewhere(past)
      <4>1. e.kind # "held"
        BY <3>4 DEF Stored, Elsewhere, SaveEntries, SaveEntry, AwayEntry
      <4> QED BY <3>4, <4>1 DEF Saves
    <3> QED BY <1>1, <1>5, <3>1, <3>2, <3>3, <3>4 DEF Saves, Entries
  <2> HIDE DEF Q
  <2>6. Follows(P, Q)
    <3>1. CASE SaveEntries("held", t, s) = {}
      <4>1. Q \subseteq P
        BY <2>5, <3>1
      <4> QED BY <4>1, FollowsSubset
    <3>2. CASE SaveEntries("held", t, s) # {}
      <4>1. PICK m : m \in SaveEntries("held", t, s)
        BY <3>2
      <4> DEFINE n == [kind |-> "team", of |-> t, run |-> m.run, practice |-> s.practice]
      <4>2. (\A e \in SaveEntries("held", t, s) : e = m) /\ m = SaveEntry("held", t, m.run, s)
        BY <2>3, <4>1, SaveEntryFacts
      <4>3. m \in P
        BY <2>4, <4>1 DEF Saves
      <4>4. m.kind = "held" /\ m.of = t /\ n.run = m.run /\ n.practice = m.practice
        BY <4>2 DEF SaveEntry
      <4>5. \A q \in Q : q = n \/ (q \in P /\ q # m)
        BY <2>5, <4>2, <4>4
      <4> HIDE DEF P, n
      <4> QED BY <4>3, <4>4, <4>5, FollowsMove
    <3> QED BY <3>1, <3>2
  <2> HIDE DEF P
  <2> QED BY <1>5, <2>6, MoveRuns DEF P, Q, Loaded
<1> QED BY <1>4, <1>5, ProcessSaveTeamStep

(* A handler that leaves the saves alone *)
Plays == \E h : Becomes(h)

LEMMA PlaysRuns ==
  ASSUME TeamsInv, RunsInv, Plays, Tame(game, {}, game', {})
  PROVE  RunsInv'
<1>1. /\ past' = [past EXCEPT !.practised = @ \cup Practised(game')]
      /\ UNCHANGED <<result, rows>>
  BY DEF Plays, Becomes
<1> HIDE DEF Practised
<1>2. /\ past'.runs = past.runs /\ past'.elsewhere = past.elsewhere /\ past'.doubt = past.doubt
      /\ past'.practised = past.practised \cup Practised(game')
  BY <1>1 DEF TeamsInv, TypeOK, Past
<1>3. Saves(result', rows', past') \subseteq Saves(result, rows, past)
  BY <1>1, <1>2 DEF Saves, Elsewhere
<1> QED BY <1>2, <1>3, GameRuns

LEMMA PlayerPlays ==
  ASSUME TeamsInv, NEW c \in Slots, Player(c), ~(Start(c) /\ ~Saving(game.team[c]))
  PROVE  Plays /\ Tame(game, {}, game', {})
<1>1. CASE Connect(c) \/ Disconnect(c) \/ Spawn(c) \/ Kill(c) \/ Spectate(c)
  <2>1. Plays
    BY <1>1 DEF Plays, Connect, Disconnect, Spawn, Kill, Spectate
  <2> QED BY <1>1, <2>1, ConnectStep, DisconnectStep, SpawnStep, KillStep, SpectateStep
<1>2. CASE Start(c) /\ Saving(game.team[c])
  <2>1. Plays
    BY <1>2 DEF Plays, Start
  <2> QED BY <1>2, <2>1, StartStep
<1>3. CASE Arrive(c) \/ Lock(c) \/ Practice(c)
  <2>1. Plays
    BY <1>3 DEF Plays, Arrive, Lock, Practice
  <2> QED BY <1>3, <2>1, ArriveStep, LockStep, PracticeStep
<1>4. ASSUME NEW t \in Teams, Join(c, t) PROVE Plays /\ Tame(game, {}, game', {})
  <2>1. Plays
    BY <1>4 DEF Plays, Join
  <2> QED BY <1>4, <2>1, JoinStep
<1>5. ASSUME NEW d \in Slots, Invite(c, d) \/ RequestSwap(c, d) \/ Swap(c, d)
      PROVE  Plays /\ Tame(game, {}, game', {})
  <2>1. Plays
    BY <1>5 DEF Plays, Invite, RequestSwap, Swap
  <2> QED BY <1>5, <2>1, InviteStep, RequestSwapStep, SwapStep
<1> QED BY <1>1, <1>2, <1>3, <1>4, <1>5 DEF Player

LEMMA PlayerRuns ==
  ASSUME TeamsInv, RunsInv, NEW c \in Slots, Player(c)
  PROVE  RunsInv'
<1>1. CASE Start(c) /\ ~Saving(game.team[c])
  <2>1. UNCHANGED <<result, rows>>
    BY <1>1 DEF Start
  <2>2. RunBegins
    BY <1>1, StartStep
  <2> QED BY <2>1, <2>2, StartRuns
<1>2. CASE ~(Start(c) /\ ~Saving(game.team[c]))
  BY <1>2, PlayerPlays, PlaysRuns
<1> QED BY <1>1, <1>2

LEMMA TeamRuns ==
  ASSUME TeamsInv, RunsInv, NEW t \in OwnTeams, Team(t)
  PROVE  RunsInv'
<1>1. CASE KillTick(t)
  <2>1. Plays
    BY <1>1 DEF Plays, KillTick
  <2>2. Tame(game, {}, game', {})
    BY <1>1, KillTickStep
  <2> QED BY <2>1, <2>2, PlaysRuns
<1>2. CASE SaveTeam(t) \/ LoadTeam(t) \/ ProcessSaveTeam(t)
  BY <1>2, SaveTeamRuns, LoadTeamRuns, ProcessSaveTeamRuns
<1>3. CASE WorkSave(t) \/ WorkSelect(t) \/ WorkDelete(t)
  BY <1>3, WorkSaveRuns, WorkSelectRuns, WorkDeleteRuns
<1> QED BY <1>1, <1>2, <1>3 DEF Team

LEMMA RunsInit == Init => RunsInv
<1> SUFFICES ASSUME Init PROVE RunsInv
  OBVIOUS
<1>1. Entries(game, {}) = {}
  BY DEF Init, Entries, On, Racers, Ranked
<1>2. Saves(result, rows, past) = {}
  BY TeamFacts DEF Init, Saves, Held, HoldingTeams, Stored, Elsewhere
<1>3. past.practised = {} /\ game.ranks = {}
  BY DEF Init
<1> QED BY <1>1, <1>2, <1>3 DEF RunsInv, Placed, Twice

LEMMA RunsStep == TeamsInv /\ RunsInv /\ [Next]_vars => RunsInv'
<1> SUFFICES ASSUME TeamsInv, RunsInv, [Next]_vars PROVE RunsInv'
  OBVIOUS
<1>1. CASE UNCHANGED vars
  BY <1>1 DEF vars, RunsInv
<1>2. CASE Next
  BY <1>2, PlayerRuns, TeamRuns, LoadElsewhereRuns DEF Next
<1> QED BY <1>1, <1>2

LEMMA RunsInvariant == Spec => []RunsInv
BY RunsInit, RunsStep, TeamsInvariant, PTL DEF Spec

(* A rank is for one run that its tees have raced together, out of         *)
(* practice, and no run gets two (CGameTeams::OnFinish), whatever the      *)
(* players do, and whatever becomes of the saves of a team: each run that  *)
(* is not in doubt is in one place, and the rank is one of them.  A rank   *)
(* given while the team's save is under way is for tees that have not      *)
(* started, and for no run.                                                *)
THEOREM RanksTheorem == Spec => []RanksHonest
<1>1. ASSUME RunsInv, NEW k \in game.ranks, ~k.saving, k.run \notin past.doubt
      PROVE  k.tees = {k.run} /\ k.run \in 1 .. past.runs /\ k.run \notin past.practised /\ ~k.again
  <2> DEFINE P == Entries(game, {}) \cup Saves(result, rows, past)
             e == RankEntry(k.run)
  <2>1. Placed(P, game.ranks, past)
    BY <1>1 DEF RunsInv
  <2>2. e \in P
    BY <1>1 DEF Entries, Ranked
  <2>3. e.run = k.run /\ ~e.practice
    BY DEF RankEntry
  <2> HIDE DEF P, e
  <2> QED BY <1>1, <2>1, <2>2, <2>3 DEF Placed, HonestRank
<1>2. ASSUME RunsInv, NEW k \in game.ranks, k.saving PROVE k.tees = {0}
  BY <1>2 DEF RunsInv, Placed, HonestRank
<1>3. RunsInv => RanksHonest
  BY <1>1, <1>2 DEF RanksHonest
<1> QED BY <1>3, RunsInvariant, PTL

-----------------------------------------------------------------------------
(* Where the ledger sees the run r *)
Raced(r) == \E c \in Racers(game, {}) : game.time[c] = r
HeldRun(r) == \E t \in HoldingTeams(result) : r \in RunsOf(result[t].saved)
StoredRun(r) == \E s \in rows : r \in RunsOf(s)

PlacedAt(r) ==
  /\ r \in past.doubt => PlaceOf(r) = "doubt"
  /\ r \notin past.doubt =>
       /\ Raced(r) => PlaceOf(r) = "game"
       /\ HeldRun(r) => PlaceOf(r) = "held"
       /\ StoredRun(r) => PlaceOf(r) = "stored"
       /\ r \in past.elsewhere => PlaceOf(r) = "elsewhere"
       /\ ~(Raced(r) \/ HeldRun(r) \/ StoredRun(r) \/ r \in past.elsewhere) =>
            PlaceOf(r) = IF r <= past.runs THEN "over" ELSE "none"
  /\ Raced(r) \/ HeldRun(r) \/ StoredRun(r) \/ r \in past.elsewhere => r <= past.runs

LEMMA RunFacts == \A r \in Runs : r \in Int /\ 1 <= r /\ r # 0
BY DEF Runs

(* A run that is not in doubt is in one place, and has begun. *)
LEMMA ApartFacts ==
  ASSUME TeamsInv, RunsInv, NEW r \in Runs
  PROVE  /\ r \notin past.doubt =>
              /\ ~(Raced(r) /\ HeldRun(r)) /\ ~(Raced(r) /\ StoredRun(r))
              /\ ~(Raced(r) /\ r \in past.elsewhere) /\ ~(HeldRun(r) /\ StoredRun(r))
              /\ ~(HeldRun(r) /\ r \in past.elsewhere) /\ ~(StoredRun(r) /\ r \in past.elsewhere)
         /\ Raced(r) \/ HeldRun(r) \/ StoredRun(r) \/ r \in past.elsewhere => r <= past.runs
<1> DEFINE P == Entries(game, {}) \cup Saves(result, rows, past)
<1>1. Placed(P, game.ranks, past)
  BY DEF RunsInv
<1>2. r # 0
  BY RunFacts
<1>3. Raced(r) => \E e \in P : e.run = r /\ e.kind \in {"tee", "team"}
  <2> SUFFICES ASSUME Raced(r) PROVE \E e \in P : e.run = r /\ e.kind \in {"tee", "team"}
    OBVIOUS
  <2>1. PICK c \in Racers(game, {}) : game.time[c] = r
    BY DEF Raced
  <2>2. Entry(game, c) \in P
    BY DEF Entries, On
  <2> QED BY <2>1, <2>2 DEF Entry
<1>4. HeldRun(r) => \E e \in P : e.run = r /\ e.kind = "held"
  <2> SUFFICES ASSUME HeldRun(r) PROVE \E e \in P : e.run = r /\ e.kind = "held"
    OBVIOUS
  <2>1. PICK t \in HoldingTeams(result) : r \in RunsOf(result[t].saved)
    BY DEF HeldRun
  <2>2. t \in OwnTeams /\ result[t] # NoResult /\ Holding(result[t])
    BY DEF HoldingTeams
  <2>3. PICK D : result[t] \in ResultOf(D)
    BY <2>2, RequestFacts
  <2>4. HasSave(result[t])
    BY <2>2, <2>3 DEF HasSave, Holding, ResultOf
  <2>5. SavedTogether(result[t].saved)
    BY <2>2, <2>4, RequestFacts
  <2> DEFINE e == SaveEntry("held", t, r, result[t].saved)
  <2>6. e \in SaveEntries("held", t, result[t].saved)
    BY <1>2, <2>1, <2>5, SaveEntryFacts
  <2>7. e \in P
    BY <2>6 DEF Held, Saves
  <2>8. e.run = r /\ e.kind = "held"
    BY DEF SaveEntry
  <2> QED BY <2>7, <2>8
<1>5. StoredRun(r) => \E e \in P : e.run = r /\ e.kind = "stored"
  <2> SUFFICES ASSUME StoredRun(r) PROVE \E e \in P : e.run = r /\ e.kind = "stored"
    OBVIOUS
  <2>1. PICK s \in rows : r \in RunsOf(s)
    BY DEF StoredRun
  <2>2. SavedTogether(s)
    BY DEF TeamsInv
  <2> DEFINE e == SaveEntry("stored", s, r, s)
  <2>3. e \in SaveEntries("stored", s, s)
    BY <1>2, <2>1, <2>2, SaveEntryFacts
  <2>4. e \in P
    BY <2>3 DEF Stored, Saves
  <2>5. e.run = r /\ e.kind = "stored"
    BY DEF SaveEntry
  <2> QED BY <2>4, <2>5
<1>6. r \in past.elsewhere => \E e \in P : e.run = r /\ e.kind = "elsewhere"
  <2> SUFFICES ASSUME r \in past.elsewhere PROVE \E e \in P : e.run = r /\ e.kind = "elsewhere"
    OBVIOUS
  <2>1. AwayEntry(r) \in P
    BY <1>2 DEF Saves, Elsewhere
  <2>2. AwayEntry(r).run = r /\ AwayEntry(r).kind = "elsewhere"
    BY DEF AwayEntry
  <2> QED BY <2>1, <2>2
<1> HIDE DEF P
<1>7. \A d, e \in P : d.run = r /\ e.run = r /\ d.kind # e.kind => r \in past.doubt
  BY <1>1 DEF Placed, Twice
<1>8. \A e \in P : e.run = r => r <= past.runs
  <2>1. past.runs \in Nat /\ r \in Int
    BY RunFacts DEF TeamsInv, TypeOK, Past
  <2> QED BY <1>1, <2>1 DEF Placed
<1>9. Raced(r) \/ HeldRun(r) \/ StoredRun(r) \/ r \in past.elsewhere => r <= past.runs
  BY <1>3, <1>4, <1>5, <1>6, <1>8
<1>10. /\ ~(Raced(r) /\ HeldRun(r) /\ r \notin past.doubt)
       /\ ~(Raced(r) /\ StoredRun(r) /\ r \notin past.doubt)
       /\ ~(Raced(r) /\ r \in past.elsewhere /\ r \notin past.doubt)
  BY <1>3, <1>4, <1>5, <1>6, <1>7
<1>11. /\ ~(HeldRun(r) /\ StoredRun(r) /\ r \notin past.doubt)
       /\ ~(HeldRun(r) /\ r \in past.elsewhere /\ r \notin past.doubt)
       /\ ~(StoredRun(r) /\ r \in past.elsewhere /\ r \notin past.doubt)
  BY <1>4, <1>5, <1>6, <1>7
<1> QED BY <1>9, <1>10, <1>11

(* So the ledger has it in that place. *)
LEMMA PlaceFacts == TeamsInv /\ RunsInv => \A r \in Runs : PlacedAt(r)
<1> SUFFICES ASSUME TeamsInv, RunsInv, NEW r \in Runs PROVE PlacedAt(r)
  OBVIOUS
<1>1. /\ r \notin past.doubt =>
           /\ ~(Raced(r) /\ HeldRun(r)) /\ ~(Raced(r) /\ StoredRun(r))
           /\ ~(Raced(r) /\ r \in past.elsewhere) /\ ~(HeldRun(r) /\ StoredRun(r))
           /\ ~(HeldRun(r) /\ r \in past.elsewhere) /\ ~(StoredRun(r) /\ r \in past.elsewhere)
      /\ Raced(r) \/ HeldRun(r) \/ StoredRun(r) \/ r \in past.elsewhere => r <= past.runs
  BY ApartFacts
<1> DEFINE S == PlacesOf(r)
<1>2. /\ \A p \in S : p \in {"game", "held", "stored", "elsewhere"}
      /\ "game" \in S <=> RacedIn(r) # {}
      /\ "held" \in S <=> Holders(r) # {}
      /\ "stored" \in S <=> {s \in rows : r \in RunsOf(s)} # {}
      /\ "elsewhere" \in S <=> past.elsewhere \cap {r} # {}
  BY DEF PlacesOf
<1>3. RacedIn(r) # {} <=> Raced(r)
  <2>1. game.team \in [Slots -> Teams]
    BY DEF TeamsInv, TypeOK, Game
  <2> QED BY <2>1 DEF RacedIn, Raced, Racers, Members
<1>4. Holders(r) # {} <=> HeldRun(r)
  BY DEF Holders, HeldRun, HoldingTeams, Saving
<1>5. {s \in rows : r \in RunsOf(s)} # {} <=> StoredRun(r)
  BY DEF StoredRun
<1>6. /\ "game" \in S <=> Raced(r)
      /\ "held" \in S <=> HeldRun(r)
      /\ "stored" \in S <=> StoredRun(r)
      /\ "elsewhere" \in S <=> r \in past.elsewhere
  BY <1>2, <1>3, <1>4, <1>5
<1>7. \A p : S = {p} => Cardinality(S) = 1 /\ (CHOOSE q \in S : TRUE) = p
  BY FS_Singleton
<1>8. S = {} => Cardinality(S) = 0
  BY FS_EmptySet
<1>9. PlaceOf(r) =
        CASE r \in past.doubt -> "doubt"
          [] r \notin past.doubt /\ Cardinality(S) > 1 -> "several"
          [] r \notin past.doubt /\ Cardinality(S) = 1 -> CHOOSE p \in S : TRUE
          [] OTHER -> IF r <= past.runs THEN "over" ELSE "none"
  BY DEF PlaceOf
<1> HIDE DEF S
<1>10. r \in past.doubt => PlaceOf(r) = "doubt"
  BY <1>9
<1>11. \A p : r \notin past.doubt /\ S = {p} => PlaceOf(r) = p
  BY <1>7, <1>9
<1>12. r \notin past.doubt /\ S = {} => PlaceOf(r) = IF r <= past.runs THEN "over" ELSE "none"
  BY <1>8, <1>9
<1>13. ASSUME r \notin past.doubt
       PROVE  /\ Raced(r) => S = {"game"}
              /\ HeldRun(r) => S = {"held"}
              /\ StoredRun(r) => S = {"stored"}
              /\ r \in past.elsewhere => S = {"elsewhere"}
              /\ ~(Raced(r) \/ HeldRun(r) \/ StoredRun(r) \/ r \in past.elsewhere) => S = {}
  BY <1>1, <1>2, <1>6, <1>13
<1> QED BY <1>1, <1>10, <1>11, <1>12, <1>13 DEF PlacedAt

(* What a step does with the run r, for the ledger *)
LedgerMove(r) == PlaceOf(r)' = PlaceOf(r) \/ <<PlaceOf(r), PlaceOf(r)'>> \in Ledger!Moves

(* It stays, or is over when the last tee that races it stops. *)
Rests(r) ==
  /\ past'.runs = past.runs /\ (r \in past'.doubt <=> r \in past.doubt)
  /\ r \in past'.elsewhere <=> r \in past.elsewhere
  /\ Raced(r)' => Raced(r)
  /\ HeldRun(r)' <=> HeldRun(r)
  /\ StoredRun(r)' <=> StoredRun(r)

(* It passes on, unless it is in doubt, *)
Passes(r) ==
  /\ r \in past'.doubt <=> r \in past.doubt
  /\ \/ Raced(r) /\ HeldRun(r)'
     \/ HeldRun(r) /\ Raced(r)'
     \/ HeldRun(r) /\ StoredRun(r)'
     \/ StoredRun(r) /\ HeldRun(r)'
     \/ StoredRun(r) /\ r \in past'.elsewhere

(* or gets there. *)
GetsLost(r) == r \in past'.doubt /\ (HeldRun(r) \/ StoredRun(r))

LEMMA RestsMove ==
  ASSUME NEW r \in Runs, PlacedAt(r), PlacedAt(r)', Rests(r)
  PROVE  LedgerMove(r)
<1> DEFINE some == Raced(r) \/ HeldRun(r) \/ StoredRun(r) \/ r \in past.elsewhere
<1>1. CASE r \in past.doubt
  BY <1>1 DEF PlacedAt, Rests, LedgerMove
<1>2. CASE r \notin past.doubt /\ HeldRun(r)
  BY <1>2 DEF PlacedAt, Rests, LedgerMove
<1>3. CASE r \notin past.doubt /\ StoredRun(r)
  BY <1>3 DEF PlacedAt, Rests, LedgerMove
<1>4. CASE r \notin past.doubt /\ r \in past.elsewhere
  BY <1>4 DEF PlacedAt, Rests, LedgerMove
<1>5. CASE r \notin past.doubt /\ ~HeldRun(r) /\ ~StoredRun(r) /\ r \notin past.elsewhere
  <2>1. CASE Raced(r)'
    BY <1>5, <2>1 DEF PlacedAt, Rests, LedgerMove
  <2>2. CASE ~Raced(r)' /\ ~Raced(r)
    BY <1>5, <2>2 DEF PlacedAt, Rests, LedgerMove
  <2>3. CASE ~Raced(r)' /\ Raced(r)
    <3>1. PlaceOf(r) = "game" /\ PlaceOf(r)' = "over"
      BY <1>5, <2>3 DEF PlacedAt, Rests
    <3> QED BY <3>1 DEF LedgerMove, Ledger!Moves
  <2> QED BY <2>1, <2>2, <2>3
<1> QED BY <1>1, <1>2, <1>3, <1>4, <1>5

LEMMA PassesMove ==
  ASSUME NEW r \in Runs, PlacedAt(r), PlacedAt(r)', Passes(r)
  PROVE  LedgerMove(r)
<1>1. CASE r \in past.doubt
  BY <1>1 DEF PlacedAt, Passes, LedgerMove
<1>2. CASE r \notin past.doubt
  <2>1. \/ PlaceOf(r) = "game" /\ PlaceOf(r)' = "held"
        \/ PlaceOf(r) = "held" /\ PlaceOf(r)' \in {"game", "stored"}
        \/ PlaceOf(r) = "stored" /\ PlaceOf(r)' \in {"held", "elsewhere"}
    BY <1>2 DEF PlacedAt, Passes
  <2> QED BY <2>1 DEF LedgerMove, Ledger!Moves
<1> QED BY <1>1, <1>2

LEMMA LostMove ==
  ASSUME NEW r \in Runs, PlacedAt(r), PlacedAt(r)', GetsLost(r)
  PROVE  LedgerMove(r)
<1>1. PlaceOf(r)' = "doubt"
  BY DEF PlacedAt, GetsLost
<1>2. PlaceOf(r) \in {"doubt", "held", "stored"}
  BY DEF PlacedAt, GetsLost
<1> QED BY <1>1, <1>2 DEF LedgerMove, Ledger!Moves

(* The request of t is all that changes of the saves that are held. *)
LEMMA HeldRunFacts ==
  ASSUME NEW t \in OwnTeams, \A u \in OwnTeams : u # t => result'[u] = result[u], NEW r
  PROVE  /\ (t \in HoldingTeams(result) => r \notin RunsOf(result[t].saved)) =>
              (HeldRun(r)' <=> (t \in HoldingTeams(result') /\ r \in RunsOf(result'[t].saved)) \/ HeldRun(r))
         /\ t \in HoldingTeams(result) /\ r \in RunsOf(result[t].saved) => HeldRun(r)
         /\ t \in HoldingTeams(result') /\ r \in RunsOf(result'[t].saved) => HeldRun(r)'
<1>1. \A u \in OwnTeams : u # t => (u \in HoldingTeams(result') <=> u \in HoldingTeams(result))
  BY DEF HoldingTeams
<1>2. HoldingTeams(result) \subseteq OwnTeams /\ HoldingTeams(result') \subseteq OwnTeams
  BY DEF HoldingTeams
<1> QED BY <1>1, <1>2 DEF HeldRun

LEMMA SameRun ==
  ASSUME NEW r, UNCHANGED game
  PROVE  Raced(r)' <=> Raced(r)
BY DEF Raced

LEMMA TameRun ==
  ASSUME NEW r, Tame(game, {}, game', {})
  PROVE  Raced(r)' => Raced(r)
BY DEF Raced, Tame

(* A request that keeps no run, before and after *)
LEMMA NothingHeld ==
  ASSUME NEW t \in OwnTeams, \A u \in OwnTeams : u # t => result'[u] = result[u],
         t \notin HoldingTeams(result), t \notin HoldingTeams(result'), rows' = rows,
         past'.runs = past.runs, past'.doubt = past.doubt, past'.elsewhere = past.elsewhere,
         NEW r, Raced(r)' => Raced(r)
  PROVE  Rests(r)
<1>1. HeldRun(r)' <=> HeldRun(r)
  BY HeldRunFacts
<1>2. StoredRun(r)' <=> StoredRun(r)
  BY DEF StoredRun
<1> QED BY <1>1, <1>2 DEF Rests

LEMMA PlaysLedger ==
  ASSUME TeamsInv, Plays, Tame(game, {}, game', {}), NEW r
  PROVE  Rests(r)
<1>1. /\ past' = [past EXCEPT !.practised = @ \cup Practised(game')]
      /\ UNCHANGED <<result, rows>>
  BY DEF Plays, Becomes
<1> HIDE DEF Practised
<1>2. past'.runs = past.runs /\ past'.elsewhere = past.elsewhere /\ past'.doubt = past.doubt
  BY <1>1 DEF TeamsInv, TypeOK, Past
<1>3. HeldRun(r)' <=> HeldRun(r)
  BY <1>1 DEF HeldRun
<1>4. StoredRun(r)' <=> StoredRun(r)
  BY <1>1 DEF StoredRun
<1>5. Raced(r)' => Raced(r)
  BY TameRun
<1> QED BY <1>2, <1>3, <1>4, <1>5 DEF Rests

LEMMA WorkSelectLedger ==
  ASSUME TeamsInv, NEW t \in OwnTeams, WorkSelect(t), NEW r
  PROVE  Rests(r)
<1>1. /\ result[t].kind = "load" /\ result[t].status = "pending" /\ result[t] # NoResult
      /\ UNCHANGED <<config, game, rows, past>> /\ t \in Teams
  BY TeamFacts DEF WorkSelect, NoResult
<1>2. t \notin HoldingTeams(result)
  BY <1>1 DEF HoldingTeams, Holding
<1>3. /\ \A u \in OwnTeams : u # t => result'[u] = result[u]
      /\ t \notin HoldingTeams(result')
  BY WorkSelectAnswer DEF HoldingTeams, Holding
<1>4. Raced(r)' => Raced(r)
  BY <1>1, SameRun
<1> QED BY <1>1, <1>2, <1>3, <1>4, NothingHeld

LEMMA LoadTeamLedger ==
  ASSUME TeamsInv, NEW t \in OwnTeams, LoadTeam(t), NEW r
  PROVE  Rests(r)
<1> DEFINE q == [kind |-> "load", status |-> "pending", saved |-> NoTeam, slots |-> SlotsOf(t)]
<1>1. /\ result' = [result EXCEPT ![t] = q] /\ game' = game /\ rows' = rows
      /\ past' = [past EXCEPT !.requests = @ + 1] /\ result[t] = NoResult
  BY DEF LoadTeam, Saving
<1>2. q.kind = "load" /\ q.status = "pending"
  OBVIOUS
<1> HIDE DEF q
<1>3. \A u \in OwnTeams : result'[u] = IF u = t THEN q ELSE result[u]
  BY <1>1, TeamFacts DEF TeamsInv, TypeOK
<1>4. t \notin HoldingTeams(result') /\ t \notin HoldingTeams(result)
  BY <1>1, <1>2, <1>3 DEF HoldingTeams, Holding
<1>5. past'.runs = past.runs /\ past'.elsewhere = past.elsewhere /\ past'.doubt = past.doubt
  BY <1>1 DEF TeamsInv, TypeOK, Past
<1>6. Raced(r)' => Raced(r)
  BY <1>1, SameRun
<1> QED BY <1>1, <1>3, <1>4, <1>5, <1>6, NothingHeld

LEMMA WorkSaveLedger ==
  ASSUME TeamsInv, NEW t \in OwnTeams, WorkSave(t), NEW r
  PROVE  Rests(r) \/ Passes(r) \/ GetsLost(r)
<1> DEFINE s == result[t].saved
<1>1. /\ result[t].kind = "save" /\ result[t].status = "pending" /\ result[t] # NoResult
      /\ game' = game
  BY DEF WorkSave, NoResult
<1>2. t \in HoldingTeams(result)
  BY <1>1 DEF HoldingTeams, Holding
<1>3. PICK status \in {"SAVE_SUCCESS", "SAVE_FAILED"} :
        /\ result' = Answer(t, status)
        /\ \/ status = "SAVE_SUCCESS" /\ rows' = rows \cup {s} /\ past' = past
           \/ status = "SAVE_FAILED" /\ rows' = rows /\ past' = past
           \/ status = "SAVE_FAILED" /\ rows' = rows \cup {s} /\ past' = InDoubt(RunsOf(s))
  BY DEF WorkSave
<1>4. /\ \A u \in OwnTeams : u # t => result'[u] = result[u]
      /\ result'[t].kind = "save" /\ result'[t].saved = s /\ result'[t].status = status
  BY <1>1, <1>3, AnswerFacts
<1>5. /\ InDoubt(RunsOf(s)).doubt = past.doubt \cup RunsOf(s)
      /\ InDoubt(RunsOf(s)).runs = past.runs /\ InDoubt(RunsOf(s)).elsewhere = past.elsewhere
  BY DEF TeamsInv, TypeOK, Past, InDoubt
<1> HIDE DEF s
<1>6. Raced(r)' <=> Raced(r)
  BY <1>1, SameRun
<1>7. /\ rows' = rows => (StoredRun(r)' <=> StoredRun(r))
      /\ r \notin RunsOf(s) /\ rows' = rows \cup {s} => (StoredRun(r)' <=> StoredRun(r))
      /\ r \in RunsOf(s) /\ rows' = rows \cup {s} => StoredRun(r)'
  BY DEF StoredRun
<1>8. /\ r \in RunsOf(s) => HeldRun(r)
      /\ r \notin RunsOf(s) => (HeldRun(r)' <=> HeldRun(r))
  BY <1>2, <1>4, HeldRunFacts DEF s
<1>9. CASE r \notin RunsOf(s)
  BY <1>3, <1>5, <1>6, <1>7, <1>8, <1>9 DEF Rests
<1>10. CASE r \in RunsOf(s) /\ status = "SAVE_SUCCESS"
  BY <1>3, <1>7, <1>8, <1>10 DEF Passes
<1>11. CASE r \in RunsOf(s) /\ status = "SAVE_FAILED" /\ rows' = rows /\ past' = past
  <2>1. t \in HoldingTeams(result')
    BY <1>4, <1>11 DEF HoldingTeams, Holding, NoResult
  <2>2. HeldRun(r)'
    BY <1>4, <1>11, <2>1, HeldRunFacts
  <2> QED BY <1>6, <1>7, <1>8, <1>11, <2>2 DEF Rests
<1>12. CASE r \in RunsOf(s) /\ past' = InDoubt(RunsOf(s))
  BY <1>5, <1>8, <1>12 DEF GetsLost
<1> QED BY <1>3, <1>9, <1>10, <1>11, <1>12

LEMMA WorkDeleteLedger ==
  ASSUME TeamsInv, NEW t \in OwnTeams, WorkDelete(t), NEW r
  PROVE  Rests(r) \/ Passes(r) \/ GetsLost(r)
<1> DEFINE s == result[t].saved
<1>1. /\ result[t].kind = "load" /\ result[t].status = "selected" /\ result[t] # NoResult
      /\ game' = game /\ rows' = rows \ {s}
  BY DEF WorkDelete, NoResult
<1>2. t \notin HoldingTeams(result)
  BY <1>1 DEF HoldingTeams, Holding
<1>3. PICK status \in {"LOAD_SUCCESS", "LOAD_FAILED"} :
        /\ result' = Answer(t, status)
        /\ \/ status = "LOAD_SUCCESS" /\ s \in rows /\ past' = past
           \/ status = "LOAD_FAILED" /\ s \notin rows /\ past' = past
           \/ status = "LOAD_FAILED" /\ s \in rows /\ past' = InDoubt(RunsOf(s))
  BY DEF WorkDelete
<1>4. /\ \A u \in OwnTeams : u # t => result'[u] = result[u]
      /\ result'[t].kind = "load" /\ result'[t].saved = s /\ result'[t].status = status
  BY <1>1, <1>3, AnswerFacts
<1>5. /\ InDoubt(RunsOf(s)).doubt = past.doubt \cup RunsOf(s)
      /\ InDoubt(RunsOf(s)).runs = past.runs /\ InDoubt(RunsOf(s)).elsewhere = past.elsewhere
  BY DEF TeamsInv, TypeOK, Past, InDoubt
<1> HIDE DEF s
<1>6. Raced(r)' <=> Raced(r)
  BY <1>1, SameRun
<1>7. /\ s \notin rows \/ r \notin RunsOf(s) => (StoredRun(r)' <=> StoredRun(r))
      /\ s \in rows /\ r \in RunsOf(s) => StoredRun(r)
  BY <1>1 DEF StoredRun
<1>8. HeldRun(r)' <=> (t \in HoldingTeams(result') /\ r \in RunsOf(s)) \/ HeldRun(r)
  BY <1>2, <1>4, HeldRunFacts
<1>9. t \in HoldingTeams(result') <=> status = "LOAD_SUCCESS"
  BY <1>4 DEF HoldingTeams, Holding, NoResult
<1>10. CASE r \notin RunsOf(s)
  BY <1>3, <1>5, <1>6, <1>7, <1>8, <1>10 DEF Rests
<1>11. CASE r \in RunsOf(s) /\ status = "LOAD_SUCCESS" /\ s \in rows /\ past' = past
  BY <1>7, <1>8, <1>9, <1>11 DEF Passes
<1>12. CASE status = "LOAD_FAILED" /\ s \notin rows /\ past' = past
  BY <1>6, <1>7, <1>8, <1>9, <1>12 DEF Rests
<1>13. CASE r \in RunsOf(s) /\ s \in rows /\ past' = InDoubt(RunsOf(s))
  BY <1>5, <1>7, <1>13 DEF GetsLost
<1> QED BY <1>3, <1>10, <1>11, <1>12, <1>13

LEMMA LoadElsewhereLedger ==
  ASSUME TeamsInv, LoadElsewhere, NEW r
  PROVE  Rests(r) \/ Passes(r)
<1>1. PICK s \in rows :
        rows' = rows \ {s} /\ past' = [past EXCEPT !.elsewhere = @ \cup RunsOf(s)]
  BY DEF LoadElsewhere
<1>2. game' = game /\ result' = result
  BY DEF LoadElsewhere
<1>3. /\ past'.elsewhere = past.elsewhere \cup RunsOf(s)
      /\ past'.runs = past.runs /\ past'.doubt = past.doubt
  BY <1>1 DEF TeamsInv, TypeOK, Past
<1>4. (Raced(r)' <=> Raced(r)) /\ (HeldRun(r)' <=> HeldRun(r))
  BY <1>2, SameRun DEF HeldRun
<1>5. CASE r \in RunsOf(s)
  <2>1. StoredRun(r)
    BY <1>5 DEF StoredRun
  <2> QED BY <1>3, <1>5, <2>1 DEF Passes
<1>6. CASE r \notin RunsOf(s)
  <2>1. StoredRun(r)' <=> StoredRun(r)
    BY <1>1, <1>6 DEF StoredRun
  <2> QED BY <1>3, <1>4, <1>6, <2>1 DEF Rests
<1> QED BY <1>5, <1>6

LEMMA SaveTeamLedger ==
  ASSUME TeamsInv, NEW t \in OwnTeams, SaveTeam(t), NEW r \in Runs
  PROVE  Rests(r) \/ Passes(r)
<1> DEFINE s == SavedTeam(t)
           q == [kind |-> "save", status |-> "pending", saved |-> s, slots |-> SlotsOf(t)]
<1>1. /\ result' = [result EXCEPT ![t] = q] /\ rows' = rows /\ result[t] = NoResult
      /\ past' = [past EXCEPT !.requests = @ + 1]
  BY DEF SaveTeam, Saving
<1>2. q.kind = "save" /\ q.status = "pending" /\ q.saved = s /\ q # NoResult
  BY DEF NoResult
<1> HIDE DEF q
<1>3. \A u \in OwnTeams : result'[u] = IF u = t THEN q ELSE result[u]
  BY <1>1, TeamFacts DEF TeamsInv, TypeOK
<1>4. SavedTogether(s)
  <2>1. Requests(game', result')
    BY SaveTeamStep DEF TeamsInv
  <2>2. Request(game', t, q)
    BY <1>3, <2>1 DEF Requests
  <2> HIDE DEF s
  <2> QED BY <1>2, <2>2 DEF Request, HasSave
<1>5. past'.runs = past.runs /\ past'.elsewhere = past.elsewhere /\ past'.doubt = past.doubt
  BY <1>1 DEF TeamsInv, TypeOK, Past
<1>6. t \notin HoldingTeams(result) /\ t \in HoldingTeams(result')
  BY <1>1, <1>2, <1>3 DEF HoldingTeams, Holding
<1>7. \A u \in OwnTeams : u # t => result'[u] = result[u]
  BY <1>3
<1>8. CASE r \in RunsOf(s)
  <2> DEFINE D == NamesOf(Members(game, t))
  <2>1. s.tees = [n \in D |-> Tee(game, Named(n))]
    BY DEF SavedTeam
  <2>2. \A n \in D : Named(n) \in Members(game, t)
    BY NamedMembers
  <2> HIDE DEF s, D
  <2>3. PICK n \in DOMAIN s.tees : r = s.tees[n].time
    BY <1>8 DEF RunsOf
  <2>4. s.tees[n].race = "started"
    <3>1. r # 0
      BY RunFacts
    <3> QED BY <1>4, <2>3, <3>1 DEF SavedTogether
  <2>5. n \in D /\ game.race[Named(n)] = "started" /\ game.time[Named(n)] = r
    BY <2>1, <2>3, <2>4 DEF Tee
  <2>6. Raced(r)
    BY <2>2, <2>5 DEF Raced, Racers, Members
  <2>7. HeldRun(r)'
    BY <1>2, <1>3, <1>6, <1>7, <1>8, HeldRunFacts
  <2> QED BY <1>5, <2>6, <2>7 DEF Passes
<1>9. CASE r \notin RunsOf(s)
  <2> HIDE DEF s
  <2>1. HeldRun(r)' <=> HeldRun(r)
    BY <1>2, <1>3, <1>6, <1>7, <1>9, HeldRunFacts
  <2>2. StoredRun(r)' <=> StoredRun(r)
    BY <1>1 DEF StoredRun
  <2>3. Raced(r)' => Raced(r)
    BY SaveTeamStep, TameRun
  <2> QED BY <1>5, <2>1, <2>2, <2>3 DEF Rests
<1> QED BY <1>8, <1>9

LEMMA ProcessSaveTeamLedger ==
  ASSUME TeamsInv, NEW t \in OwnTeams, ProcessSaveTeam(t), NEW r \in Runs
  PROVE  Rests(r) \/ Passes(r) \/ GetsLost(r)
<1> DEFINE s == result[t].saved
<1>1. result[t] # NoResult /\ result' = [result EXCEPT ![t] = NoResult] /\ rows' = rows
  BY DEF ProcessSaveTeam, Saving
<1>2. \A u \in OwnTeams : result'[u] = IF u = t THEN NoResult ELSE result[u]
  BY <1>1, RequestFacts
<1>3. t \notin HoldingTeams(result') /\ \A u \in OwnTeams : u # t => result'[u] = result[u]
  BY <1>2 DEF HoldingTeams
<1>4. /\ InDoubt(RunsOf(s)).doubt = past.doubt \cup RunsOf(s)
      /\ InDoubt(RunsOf(s)).runs = past.runs /\ InDoubt(RunsOf(s)).elsewhere = past.elsewhere
  BY DEF TeamsInv, TypeOK, Past, InDoubt
<1>5. StoredRun(r)' <=> StoredRun(r)
  BY <1>1 DEF StoredRun
<1>6. t \in HoldingTeams(result) <=> Holding(result[t])
  BY <1>1 DEF HoldingTeams
<1>7. /\ Holding(result[t]) /\ r \in RunsOf(s) => HeldRun(r)
      /\ ~Holding(result[t]) \/ r \notin RunsOf(s) => (HeldRun(r)' <=> HeldRun(r))
  BY <1>3, <1>6, HeldRunFacts
<1> HIDE DEF s
<1>8. CASE Tame(game, {}, game', {}) /\ ~Holding(result[t]) /\ past' = past
  <2>1. Raced(r)' => Raced(r)
    BY <1>8, TameRun
  <2> QED BY <1>5, <1>7, <1>8, <2>1 DEF Rests
<1>9. CASE Tame(game, {}, game', {}) /\ Holding(result[t]) /\ past' = InDoubt(RunsOf(s))
  <2>1. Raced(r)' => Raced(r)
    BY <1>9, TameRun
  <2>2. CASE r \in RunsOf(s)
    BY <1>4, <1>7, <1>9, <2>2 DEF GetsLost
  <2>3. CASE r \notin RunsOf(s)
    BY <1>4, <1>5, <1>7, <1>9, <2>1, <2>3 DEF Rests
  <2> QED BY <2>2, <2>3
<1>10. CASE /\ result[t].status \in {"SAVE_FAILED", "LOAD_SUCCESS"} /\ past' = past
            /\ Loaded(game, game', t, s)
  <2>1. PICK D : result[t] \in ResultOf(D)
    BY <1>1, RequestFacts
  <2>2. HasSave(result[t]) /\ Holding(result[t])
    BY <1>10, <2>1 DEF HasSave, Holding, ResultOf
  <2>3. SavedTogether(s)
    BY <1>1, <2>2, RequestFacts DEF s
  <2>4. CASE r \in RunsOf(s)
    <3>1. PICK n \in DOMAIN s.tees : r = s.tees[n].time
      BY <2>4 DEF RunsOf
    <3>2. s.tees[n].race = "started"
      BY <2>3, <3>1, RunFacts DEF SavedTogether
    <3>3. \E c \in Racers(game', {}) : game'.time[c] = r
      BY <1>10, <3>1, <3>2 DEF Loaded
    <3>4. Raced(r)'
      BY <3>3 DEF Raced
    <3> QED BY <1>7, <1>10, <2>2, <2>4, <3>4 DEF Passes
  <2>5. CASE r \notin RunsOf(s)
    <3>1. ASSUME NEW c \in Racers(game', {}), game'.time[c] = r PROVE Raced(r)
      <4>1. Entry(game', c).run = r
        BY <3>1 DEF Entry
      <4>2. \A n \in DOMAIN s.tees : s.tees[n].time \in RunsOf(s)
        BY DEF RunsOf
      <4>3. c \in Racers(game, {}) /\ Entry(game, c).run = r
        BY <1>10, <2>5, <4>1, <4>2 DEF Loaded
      <4>4. game.time[c] = r
        BY <4>3 DEF Entry
      <4> QED BY <4>3, <4>4 DEF Raced
    <3>2. Raced(r)' => Raced(r)
      BY <3>1 DEF Raced
    <3> QED BY <1>5, <1>7, <1>10, <2>5, <3>2 DEF Rests
  <2> QED BY <2>4, <2>5
<1> QED BY <1>8, <1>9, <1>10, ProcessSaveTeamStep DEF s

(* Nobody has a start time that is not of a run which has begun. *)
TimesInv == \A c \in Slots : game.time[c] \in 0 .. past.runs

LEMMA TameTimes ==
  ASSUME TeamsInv, TimesInv, Tame(game, {}, game', {}), past'.runs = past.runs
  PROVE  TimesInv'
<1>1. 0 \in 0 .. past.runs
  BY DEF TeamsInv, TypeOK, Past
<1> QED BY <1>1 DEF TimesInv, Tame

LEMMA BeginsTimes ==
  ASSUME TeamsInv, TimesInv, RunBegins
  PROVE  TimesInv'
<1>1. past.runs \in Nat
  BY DEF TeamsInv, TypeOK, Past
<1>2. \A c \in Slots : game'.time[c] = game.time[c] \/ game'.time[c] = past.runs + 1
  BY DEF RunBegins, Begins
<1>3. past'.runs = IF \E d \in Slots : game'.time[d] = past.runs + 1
                     THEN past.runs + 1 ELSE past.runs
  BY DEF RunBegins
<1>4. ASSUME NEW c \in Slots PROVE game'.time[c] \in 0 .. past'.runs
  <2>1. game.time[c] \in 0 .. past.runs
    BY DEF TimesInv
  <2>2. CASE game'.time[c] = past.runs + 1
    BY <1>1, <1>3, <2>2
  <2>3. CASE game'.time[c] = game.time[c]
    BY <1>1, <1>3, <2>1, <2>3
  <2> QED BY <1>2, <2>2, <2>3
<1> QED BY <1>4 DEF TimesInv

LEMMA LoadedTimes ==
  ASSUME TeamsInv, TimesInv, NEW t, NEW s, Loaded(game, game', t, s), past' = past, RunsInv'
  PROVE  TimesInv'
<1>1. past.runs \in Nat
  BY DEF TeamsInv, TypeOK, Past
<1>2. \A e \in Entries(game', {}) : e.run \in 1 .. past.runs
  BY DEF RunsInv, Placed
<1>3. ASSUME NEW c \in Racers(game', {}) PROVE game'.time[c] \in 1 .. past.runs
  <2>1. Entry(game', c) \in Entries(game', {}) /\ Entry(game', c).run = game'.time[c]
    BY DEF Entries, On, Entry
  <2> QED BY <1>2, <2>1
<1>4. ASSUME NEW c \in Slots PROVE game'.time[c] \in 0 .. past.runs
  <2>1. game.time[c] \in 0 .. past.runs
    BY DEF TimesInv
  <2>2. game'.time[c] = 0 \/ game'.time[c] = game.time[c] \/ c \in Racers(game', {})
    BY DEF Loaded
  <2> QED BY <1>1, <1>3, <2>1, <2>2
<1> QED BY <1>4 DEF TimesInv

LEMMA StartLedger ==
  ASSUME TeamsInv, TimesInv, RunBegins, UNCHANGED <<result, rows>>,
         NEW r \in Runs, PlacedAt(r), PlacedAt(r)'
  PROVE  LedgerMove(r)
<1> DEFINE run == past.runs + 1
           new == \E d \in Slots : game'.time[d] = run
<1>1. past.runs \in Nat /\ r \in Int
  BY RunFacts DEF TeamsInv, TypeOK, Past
<1>2. /\ past'.runs = IF new THEN run ELSE past.runs
      /\ past'.doubt = past.doubt /\ past'.elsewhere = past.elsewhere
  BY DEF RunBegins
<1>3. (HeldRun(r)' <=> HeldRun(r)) /\ (StoredRun(r)' <=> StoredRun(r))
  BY DEF HeldRun, StoredRun
<1>4. Raced(r)' => Raced(r) \/ r = run
  <2> SUFFICES ASSUME NEW c \in Racers(game', {}), game'.time[c] = r, r # run PROVE Raced(r)
    BY DEF Raced
  <2>1. c \in Racers(game, {}) /\ Entry(game', c) = Entry(game, c)
    BY DEF RunBegins, Begins
  <2>2. game.time[c] = r
    BY <2>1 DEF Entry
  <2> QED BY <2>1, <2>2 DEF Raced
<1>5. new => \E d \in Racers(game', {}) : game'.time[d] = run
  <2> SUFFICES ASSUME NEW d \in Slots, game'.time[d] = run
               PROVE  d \in Racers(game', {})
    OBVIOUS
  <2>1. game.time[d] # run
    BY <1>1 DEF TimesInv
  <2>2. game'.race[d] = "started"
    BY <2>1 DEF RunBegins, Begins
  <2> QED BY <2>2 DEF Racers
<1>6. CASE r # run
  <2>1. CASE Raced(r) /\ ~Raced(r)' /\ r \notin past.doubt
    <3>1. PlaceOf(r) = "game" /\ ~HeldRun(r) /\ ~StoredRun(r) /\ r \notin past.elsewhere
      BY <2>1 DEF PlacedAt
    <3>2. r <= past'.runs
      BY <1>1, <1>2, <2>1 DEF PlacedAt
    <3>3. PlaceOf(r)' = "over"
      BY <1>2, <1>3, <2>1, <3>1, <3>2 DEF PlacedAt
    <3> QED BY <3>1, <3>3 DEF LedgerMove, Ledger!Moves
  <2>2. CASE (Raced(r) <=> Raced(r)') \/ r \in past.doubt
    <3>1. r <= past'.runs <=> r <= past.runs
      BY <1>1, <1>2, <1>6
    <3>2. PlaceOf(r)' = PlaceOf(r)
      BY <1>2, <1>3, <2>2, <3>1 DEF PlacedAt
    <3> QED BY <3>2 DEF LedgerMove
  <2> QED BY <1>4, <1>6, <2>1, <2>2
<1>7. CASE r = run /\ r \in past.doubt
  BY <1>2, <1>7 DEF PlacedAt, LedgerMove
<1>8. CASE r = run /\ r \notin past.doubt
  <2>1. ~Raced(r) /\ ~HeldRun(r) /\ ~StoredRun(r) /\ r \notin past.elsewhere /\ ~(r <= past.runs)
    BY <1>1, <1>8 DEF PlacedAt
  <2>2. PlaceOf(r) = "none"
    BY <1>8, <2>1 DEF PlacedAt
  <2>3. CASE new
    <3>1. Raced(r)'
      BY <1>5, <1>8, <2>3 DEF Raced
    <3>2. PlaceOf(r)' = "game"
      BY <1>2, <1>8, <3>1 DEF PlacedAt
    <3> QED BY <2>2, <3>2 DEF LedgerMove, Ledger!Moves
  <2>4. CASE ~new
    <3>1. ~Raced(r)'
      BY <1>8, <2>4 DEF Raced, Racers
    <3>2. PlaceOf(r)' = "none"
      BY <1>2, <1>3, <1>8, <2>1, <2>4, <3>1 DEF PlacedAt
    <3> QED BY <2>2, <3>2 DEF LedgerMove
  <2> QED BY <2>3, <2>4
<1> QED BY <1>6, <1>7, <1>8

LEMMA PlayerLedger ==
  ASSUME TeamsInv, TimesInv, NEW c \in Slots, Player(c)
  PROVE  /\ TimesInv'
         /\ \A r \in Runs : PlacedAt(r) /\ PlacedAt(r)' => LedgerMove(r)
<1>1. ASSUME Plays, Tame(game, {}, game', {})
      PROVE  /\ TimesInv'
             /\ \A r \in Runs : PlacedAt(r) /\ PlacedAt(r)' => LedgerMove(r)
  <2>1. past'.runs = past.runs
    BY <1>1 DEF Plays, Becomes, TeamsInv, TypeOK, Past
  <2>2. TimesInv'
    BY <1>1, <2>1, TameTimes
  <2>3. \A r \in Runs : PlacedAt(r) /\ PlacedAt(r)' => LedgerMove(r)
    BY <1>1, PlaysLedger, RestsMove
  <2> QED BY <2>2, <2>3
<1>2. CASE Start(c) /\ ~Saving(game.team[c])
  <2>1. UNCHANGED <<result, rows>> /\ RunBegins
    BY <1>2, StartStep DEF Start
  <2>2. TimesInv'
    BY <2>1, BeginsTimes
  <2>3. \A r \in Runs : PlacedAt(r) /\ PlacedAt(r)' => LedgerMove(r)
    BY <2>1, StartLedger
  <2> QED BY <2>2, <2>3
<1>3. ~(Start(c) /\ ~Saving(game.team[c])) => Plays /\ Tame(game, {}, game', {})
  BY PlayerPlays
<1> QED BY <1>1, <1>2, <1>3

LEMMA TeamLedger ==
  ASSUME TeamsInv, RunsInv, TimesInv, NEW t \in OwnTeams, Team(t)
  PROVE  /\ TimesInv'
         /\ \A r \in Runs : PlacedAt(r) /\ PlacedAt(r)' => LedgerMove(r)
<1>1. CASE KillTick(t)
  <2>1. Plays
    BY <1>1 DEF Plays, KillTick
  <2>2. Tame(game, {}, game', {})
    BY <1>1, KillTickStep
  <2>3. past'.runs = past.runs
    BY <2>1 DEF Plays, Becomes, TeamsInv, TypeOK, Past
  <2>4. TimesInv'
    BY <2>2, <2>3, TameTimes
  <2>5. \A r \in Runs : PlacedAt(r) /\ PlacedAt(r)' => LedgerMove(r)
    BY <2>1, <2>2, PlaysLedger, RestsMove
  <2> QED BY <2>4, <2>5
<1>2. \A s : InDoubt(s).runs = past.runs
  BY DEF InDoubt, TeamsInv, TypeOK, Past
<1>3. CASE SaveTeam(t)
  <2>1. past'.runs = past.runs
    BY <1>3 DEF SaveTeam, TeamsInv, TypeOK, Past
  <2>2. TimesInv'
    BY <1>3, <2>1, SaveTeamStep, TameTimes
  <2>3. \A r \in Runs : PlacedAt(r) /\ PlacedAt(r)' => LedgerMove(r)
    BY <1>3, SaveTeamLedger, RestsMove, PassesMove
  <2> QED BY <2>2, <2>3
<1>4. CASE ProcessSaveTeam(t)
  <2>1. TimesInv'
    <3>1. CASE Tame(game, {}, game', {}) /\ past' \in {past, InDoubt(RunsOf(result[t].saved))}
      <4>1. past'.runs = past.runs
        BY <1>2, <3>1
      <4> QED BY <3>1, <4>1, TameTimes
    <3>2. CASE past' = past /\ Loaded(game, game', t, result[t].saved)
      <4>1. RunsInv'
        BY <1>4, ProcessSaveTeamRuns
      <4> QED BY <3>2, <4>1, LoadedTimes
    <3> QED BY <1>4, <3>1, <3>2, ProcessSaveTeamStep
  <2>2. \A r \in Runs : PlacedAt(r) /\ PlacedAt(r)' => LedgerMove(r)
    BY <1>4, ProcessSaveTeamLedger, RestsMove, PassesMove, LostMove
  <2> QED BY <2>1, <2>2
<1>5. CASE LoadTeam(t) \/ WorkSave(t) \/ WorkSelect(t) \/ WorkDelete(t)
  <2>1. game' = game /\ past'.runs = past.runs
    BY <1>2, <1>5 DEF LoadTeam, WorkSave, WorkSelect, WorkDelete, TeamsInv, TypeOK, Past
  <2>2. TimesInv'
    BY <2>1 DEF TimesInv
  <2>3. ASSUME NEW r \in Runs PROVE Rests(r) \/ Passes(r) \/ GetsLost(r)
    BY <1>5, LoadTeamLedger, WorkSaveLedger, WorkSelectLedger, WorkDeleteLedger
  <2>4. \A r \in Runs : PlacedAt(r) /\ PlacedAt(r)' => LedgerMove(r)
    BY <2>3, RestsMove, PassesMove, LostMove
  <2> QED BY <2>2, <2>4
<1> QED BY <1>1, <1>3, <1>4, <1>5 DEF Team

LEMMA LedgerStep ==
  ASSUME TeamsInv, RunsInv, TimesInv, [Next]_vars
  PROVE  /\ TimesInv'
         /\ \A r \in Runs : PlacedAt(r) /\ PlacedAt(r)' => LedgerMove(r)
<1>1. CASE UNCHANGED vars
  <2>1. UNCHANGED <<game, result, rows, past>>
    BY <1>1 DEF vars
  <2>2. TimesInv'
    BY <2>1 DEF TimesInv
  <2>3. ASSUME NEW r \in Runs PROVE Rests(r)
    BY <2>1, SameRun DEF Rests, HeldRun, StoredRun
  <2>4. \A r \in Runs : PlacedAt(r) /\ PlacedAt(r)' => LedgerMove(r)
    BY <2>3, RestsMove
  <2> QED BY <2>2, <2>4
<1>2. CASE LoadElsewhere
  <2>1. game' = game /\ past'.runs = past.runs
    BY <1>2 DEF LoadElsewhere, TeamsInv, TypeOK, Past
  <2>2. TimesInv'
    BY <2>1 DEF TimesInv
  <2>3. \A r \in Runs : PlacedAt(r) /\ PlacedAt(r)' => LedgerMove(r)
    BY <1>2, LoadElsewhereLedger, RestsMove, PassesMove
  <2> QED BY <2>2, <2>3
<1>3. ASSUME NEW c \in Slots, Player(c)
      PROVE  TimesInv' /\ \A r \in Runs : PlacedAt(r) /\ PlacedAt(r)' => LedgerMove(r)
  BY <1>3, PlayerLedger
<1>4. ASSUME NEW t \in OwnTeams, Team(t)
      PROVE  TimesInv' /\ \A r \in Runs : PlacedAt(r) /\ PlacedAt(r)' => LedgerMove(r)
  BY <1>4, TeamLedger
<1> QED BY <1>1, <1>2, <1>3, <1>4 DEF Next

LEMMA TimesInit == Init => TimesInv
<1> SUFFICES ASSUME Init PROVE TimesInv
  OBVIOUS
<1>1. past.runs = 0 /\ \A c \in Slots : game.time[c] = 0
  BY DEF Init
<1> QED BY <1>1 DEF TimesInv

LEMMA TimesInvariant == Spec => []TimesInv
<1>1. TeamsInv /\ RunsInv /\ TimesInv /\ [Next]_vars => TimesInv'
  BY LedgerStep
<1> QED BY <1>1, TimesInit, TeamsInvariant, RunsInvariant, PTL DEF Spec

(* The saves implement the ledger (CSaveTeam, CScoreWorker::SaveTeam,      *)
(* LoadTeam and CGameTeams::ProcessSaveTeam), for any players, teams, rows *)
(* and requests: unless a run is in doubt, it is not lost between the game *)
(* and the database, it does not exist twice, and when it is over it never *)
(* comes back.                                                             *)
THEOREM LedgerTheorem == Spec => LedgerSpec
<1> DEFINE I == TeamsInv /\ RunsInv /\ TimesInv /\ \A r \in Runs : PlacedAt(r)
<1>1. Spec => []I
  <2>1. TeamsInv /\ RunsInv => \A r \in Runs : PlacedAt(r)
    BY PlaceFacts
  <2> QED BY <2>1, TeamsInvariant, RunsInvariant, TimesInvariant, PTL
<1>2. Init /\ I => Ledger!Init
  <2> SUFFICES ASSUME Init, \A r \in Runs : PlacedAt(r), NEW r \in Runs PROVE PlaceOf(r) = "none"
    BY DEF Ledger!Init
  <2>1. /\ past.runs = 0 /\ past.doubt = {} /\ past.elsewhere = {} /\ rows = {}
        /\ \A c \in Slots : game.race[c] = "dead"
        /\ \A t \in Teams : result[t] = NoResult
    BY DEF Init
  <2>2. ~Raced(r) /\ ~HeldRun(r) /\ ~StoredRun(r)
    BY <2>1, TeamFacts DEF Raced, Racers, HeldRun, HoldingTeams, StoredRun
  <2>3. ~(r <= past.runs)
    BY <2>1, RunFacts
  <2> QED BY <2>1, <2>2, <2>3 DEF PlacedAt
<1>3. I /\ I' /\ [Next]_vars => [Ledger!Next]_([r \in Runs |-> PlaceOf(r)])
  <2> SUFFICES ASSUME I, I', [Next]_vars PROVE Ledger!Next
    OBVIOUS
  <2>1. \A r \in Runs : LedgerMove(r)
    BY LedgerStep
  <2>2. \A r \in Runs : PlacedAt(r)'
    OBVIOUS
  <2>3. \A r \in Runs : PlaceOf(r)' \in Ledger!Places
    BY <2>2 DEF PlacedAt, Ledger!Places
  <2> HIDE DEF I
  <2> QED BY <2>1, <2>3 DEF LedgerMove, Ledger!Next
<1> HIDE DEF I
<1> QED BY <1>1, <1>2, <1>3, PTL DEF Spec, LedgerSpec, Ledger!Spec
=============================================================================

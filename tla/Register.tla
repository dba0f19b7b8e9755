----------------------------- MODULE Register -----------------------------
(***************************************************************************)
(* A game server puts itself on the list of a master server (CRegister     *)
(* and mastersrv), by one address for each protocol.  Requests are jobs    *)
(* of the engine that run at the same time: they reach the master, and     *)
(* their answers the server, in any order.  The master proves by a token   *)
(* it sends to an address that the server can be reached there.            *)
(*                                                                         *)
(* The unit of time is Second.  What is late, lost or restarted, and a     *)
(* change of configuration, is a trouble; everything else is done within   *)
(* the unit in which it falls due.                                         *)
(***************************************************************************)
EXTENDS MasterList, Sequences, FiniteSetsExt, SequencesExt

CONSTANTS
  Protocols,
  Second,       \* how soon new info may be sent after the last request
  Period,       \* after how long a server registers again
  Timeout,      \* SERVER_TIMEOUT_SECONDS of the master
  MaxNews,      \* bound: how many starts there are with the info changes of the
                \* last of them
  MaxTrouble,   \* bound: how many troubles there are
  MaxBetween    \* bound: how many answers of a protocol may be between the two
                \* locks when a request is sent

ASSUME RegisterAssumption ==
  /\ Second \in Nat /\ Period \in Nat \ {0} /\ Timeout \in Nat
  /\ {MaxNews, MaxTrouble, MaxBetween} \subseteq Nat

(* A server registers again before its time is up: after 15 seconds of 30. *)
ASSUME RatioAssumption == Period < Timeout

VARIABLES
  life,        \* how often the server was started; its secret
  up,          \* whether it runs
  updated,     \* m_GotFirstUpdateCall
  enabled,     \* m_aProtocolEnabled
  infoSerial,  \* m_InfoSerial
  latest,      \* m_LatestSuccessfulInfoSerial
  protocol,    \* the state of each protocol
  requests,    \* for each protocol, those under way, in the order of sending
  challenges,  \* tokens on their way to the server
  list,        \* the master's list,
  dump,        \* what of it is on the master's disk,
  seed,        \* and the seed of its tokens
  trouble,     \* how much trouble there was
  calm         \* for how long there has been none

serverVars == <<life, up, updated, enabled, infoSerial, latest, protocol>>
masterVars == <<list, dump, seed>>
vars == <<serverVars, requests, challenges, masterVars, trouble, calm>>

NoToken == 0

(* next and prev are how far away the next register is, at most zero when  *)
(* it is due, and how long ago the last; answered says that there is no    *)
(* request newer than that of the latest answer.                           *)
Fresh == [next |-> 0, prev |-> Second, status |-> "none", answered |-> TRUE,
          token |-> NoToken, newToken |-> FALSE]

Init ==
  /\ life = 1 /\ up = TRUE /\ updated = FALSE
  /\ enabled \in SUBSET Protocols
  /\ infoSerial = 0 /\ latest = -1
  /\ protocol = [p \in Protocols |-> Fresh]
  /\ requests = [p \in Protocols |-> << >>]
  /\ challenges = {}
  /\ list = EmptyList /\ dump = EmptyList /\ seed = 2
  /\ trouble = 0 /\ calm = 0

-----------------------------------------------------------------------------
Disturb == trouble < MaxTrouble /\ trouble' = trouble + 1 /\ calm' = 0

(* What was late may undo what has been done since. *)
Quietly(slow) ==
  UNCHANGED trouble /\ calm' = IF slow THEN 0 ELSE calm

(* SendRegister: r is the state of the protocol when it sends. *)
Sent(r) == [r EXCEPT !.next = Period, !.prev = 0, !.newToken = FALSE,
                     !.answered = FALSE]

Request(action, r, serial) ==
  [action |-> action, secret |-> life, serial |-> serial,
   info |-> serial > latest, token |-> r.token,
   newest |-> action = "register",   \* its number is the last,
   late |-> FALSE,                   \* or below that of the latest answer
   at |-> "sent", noted |-> FALSE, slow |-> FALSE]

WithRegister(queue, r, serial) ==
  Append([i \in DOMAIN queue |-> [queue[i] EXCEPT !.newest = FALSE]],
         Request("register", r, serial))

(* SendDeleteIfRegistered *)
Forgotten(r) == [r EXCEPT !.status = "none"]

WithDelete(queue, r) ==
  IF r.status = "ok" THEN Append(queue, Request("delete", r, infoSerial)) ELSE queue

(* The protocols in S send a request; states are those of all protocols    *)
(* by then.                                                                *)
SendRegister(S, states, serial) ==
  /\ protocol' = [p \in Protocols |-> IF p \in S THEN Sent(states[p]) ELSE states[p]]
  /\ requests' = [p \in Protocols |->
                    IF p \in S THEN WithRegister(requests[p], states[p], serial)
                               ELSE requests[p]]

(* A slip: what else the master asks for waits for the next period. *)
Prompted_TokenOnly(r) == r.answered /\ r.status = "needchallenge" /\ r.newToken

(* CheckChallengeStatus: with no request in flight, what the master asks   *)
(* for is sent at once.                                                    *)
Prompted(r) ==
  /\ r.answered
  /\ \/ r.status = "needchallenge" /\ r.newToken
     \/ r.status = "needinfo"

Due(r) == r.next <= 0 \/ Prompted(r)

(* A slip: protocols that were disabled go on. *)
Asked_All == Protocols

Asked == enabled

WaitUpdate == \/ ~updated
              \/ \E p \in Asked : Due(protocol[p])

Between(p) == {i \in DOMAIN requests[p] : requests[p][i].noted}

Bounded == \A p \in Protocols : Cardinality(Between(p)) <= MaxBetween

(* CRegister::Update *)
Update ==
  /\ up /\ Bounded
  /\ WaitUpdate
  /\ updated' = TRUE
  /\ SendRegister({p \in Asked : Due(protocol[p])}, protocol, infoSerial)
  /\ UNCHANGED <<life, up, enabled, infoSerial, latest, challenges, masterVars,
                 trouble, calm>>

(* OnPacket and OnToken, which do not ask whether the protocol is enabled; *)
(* a challenge is known by the secret of the server's life.                *)
OnToken(c) ==
  LET p == c.protocol
      states == [protocol EXCEPT ![p].token = c.seed, ![p].newToken = TRUE]
  IN  /\ Bounded
      /\ challenges' = challenges \ {c}
      /\ Quietly(c.slow)
      /\ IF up /\ c.secret = life
           THEN SendRegister({p} \cap {q \in Protocols : Due(states[q])}, states, infoSerial)
           ELSE UNCHANGED <<protocol, requests>>
      /\ UNCHANGED <<life, up, updated, enabled, infoSerial, latest, masterVars>>

(* OnNewInfo: of the protocols that are enabled one that would send next   *)
(* does so a second after the last request of any of them.                 *)
OnNewInfo ==
  LET since == Min({protocol[p].prev : p \in enabled})
      Hurried(r) == [r EXCEPT !.next = IF Second - since < @ THEN Second - since ELSE @]
      states(n) == [protocol EXCEPT ![n] = Hurried(@)]
      due(n) == {p \in enabled : states(n)[p].next <= 0}
  IN  /\ up
      /\ life + infoSerial < MaxNews
      /\ infoSerial' = infoSerial + 1
      /\ IF updated /\ enabled # {}
           THEN \E n \in enabled :
                  /\ \A p \in enabled : protocol[n].next <= protocol[p].next
                  /\ SendRegister(due(n), states(n), infoSerial')
           ELSE UNCHANGED <<protocol, requests>>
      /\ calm' = 0
      /\ UNCHANGED <<life, up, updated, enabled, latest, challenges, masterVars, trouble>>

(* OnConfigChange *)
OnConfigChange(E) ==
  LET on == E \ enabled
      off == enabled \ E
  IN  /\ up /\ Disturb
      /\ enabled' = E
      /\ IF updated
           THEN /\ protocol' = [p \in Protocols |->
                     IF p \in on THEN Sent(protocol[p])
                     ELSE IF p \in off THEN Forgotten(protocol[p]) ELSE protocol[p]]
                /\ requests' = [p \in Protocols |->
                     IF p \in on THEN WithRegister(requests[p], protocol[p], infoSerial)
                     ELSE IF p \in off THEN WithDelete(requests[p], protocol[p])
                     ELSE requests[p]]
           ELSE UNCHANGED <<protocol, requests>>
      /\ UNCHANGED <<life, up, updated, infoSerial, latest, challenges, masterVars>>

(* The server stops, with OnShutdown or without, *)
Stop(shutdown) ==
  /\ up /\ Disturb
  /\ up' = FALSE
  /\ requests' = IF shutdown
                   THEN [p \in Protocols |-> IF p \in enabled
                           THEN WithDelete(requests[p], protocol[p]) ELSE requests[p]]
                   ELSE requests
  /\ updated' = FALSE /\ infoSerial' = 0 /\ latest' = -1
  /\ protocol' = [p \in Protocols |-> Fresh]
  /\ UNCHANGED <<life, enabled, challenges, masterVars>>

(* and starts with a new secret.                                           *)
Start ==
  /\ ~up /\ life < MaxNews
  /\ up' = TRUE /\ life' = life + 1
  /\ calm' = 0
  /\ UNCHANGED <<updated, enabled, infoSerial, latest, protocol, requests,
                 challenges, masterVars, trouble>>

-----------------------------------------------------------------------------
(* A request of the server that runs now *)
Own(q) == up /\ q.secret = life

Answers == {"ok", "needchallenge", "needinfo"}

(* handle_register and handle_delete: the master takes a request.          *)
Arrive(p, i) ==
  LET q == requests[p][i]
      answer == IF q.token \notin {seed, seed - 1} THEN "needchallenge"
                ELSE IF NeedInfo(list, q.secret, q.serial) /\ ~q.info THEN "needinfo"
                ELSE "ok"
  IN  /\ q.at = "sent"
      /\ requests' = [requests EXCEPT ![p][i].at = answer]
      /\ IF q.action = "delete"
           THEN list' = Removed(list, p, q.secret) /\ UNCHANGED challenges
           ELSE /\ list' = IF answer = "ok" THEN Added(list, p, q.secret, q.serial)
                                            ELSE list
                /\ challenges' = IF q.token = seed THEN challenges
                     ELSE challenges \cup {[protocol |-> p, secret |-> q.secret,
                                            seed |-> seed, slow |-> FALSE]}
      /\ Quietly(q.slow)
      /\ UNCHANGED <<serverVars, dump, seed>>

(* Those before a request whose answer came need not be answered any more. *)
Noted(queue, i) ==
  [j \in DOMAIN queue |->
     [queue[j] EXCEPT !.noted = (@ \/ j = i), !.late = (@ \/ (~queue[i].late /\ j < i))]]

(* CJob::Run: the status first, under one lock, *)
NoteStatus(p, i) ==
  LET q == requests[p][i]
  IN  /\ q.action = "register" /\ Own(q)
      /\ q.at \in Answers /\ ~q.noted
      /\ requests' = [requests EXCEPT ![p] = Noted(@, i)]
      /\ protocol' = IF q.late THEN protocol
                     ELSE [protocol EXCEPT ![p].status = q.at, ![p].answered = q.newest]
      /\ Quietly(q.slow)
      /\ UNCHANGED <<life, up, updated, enabled, infoSerial, latest, challenges,
                     masterVars>>

(* Other requests are told that they have to send the info again.          *)
Forgets(q) == q.at = "needinfo" /\ q.serial = latest

(* then the serial, under another.                                         *)
NoteSerial(p, i) ==
  LET q == requests[p][i]
  IN  /\ q.noted /\ Own(q)
      /\ latest' = IF q.at = "ok" THEN Newer(latest, q.serial)
                   ELSE IF Forgets(q) THEN latest - 1 ELSE latest
      /\ requests' = [requests EXCEPT ![p] = RemoveAt(@, i)]
      /\ Quietly(q.slow)
      /\ UNCHANGED <<life, up, updated, enabled, infoSerial, protocol, challenges,
                     masterVars>>

(* Of what else a request may come to, nothing is kept; nor of one whose   *)
(* server has gone, which may never be sent.                               *)
Ignore(p, i) ==
  LET q == requests[p][i]
  IN  /\ \/ q.at = "failed"
         \/ q.action = "delete" /\ q.at # "sent"
         \/ ~Own(q)
      /\ requests' = [requests EXCEPT ![p] = RemoveAt(@, i)]
      /\ Quietly(q.slow)
      /\ UNCHANGED <<serverVars, challenges, masterVars>>

-----------------------------------------------------------------------------
(* The trouble there may be on the way *)
Fail(p, i) ==
  /\ requests[p][i].at # "failed" /\ ~requests[p][i].noted
  /\ Disturb
  /\ requests' = [requests EXCEPT ![p][i].at = "failed"]
  /\ UNCHANGED <<serverVars, challenges, masterVars>>

Delay(p, i) ==
  /\ ~requests[p][i].slow
  /\ Disturb
  /\ requests' = [requests EXCEPT ![p][i].slow = TRUE]
  /\ UNCHANGED <<serverVars, challenges, masterVars>>

(* and with a packet of the master's                                       *)
LoseChallenge(c) ==
  /\ Disturb
  /\ challenges' = challenges \ {c}
  /\ UNCHANGED <<serverVars, requests, masterVars>>

DelayChallenge(c) ==
  /\ ~c.slow /\ Disturb
  /\ challenges' = (challenges \ {c}) \cup {[c EXCEPT !.slow = TRUE]}
  /\ UNCHANGED <<serverVars, requests, masterVars>>

(* handle_periodic_reseed: tokens of the seed before are still good. *)
Reseed ==
  /\ Disturb
  /\ seed' = seed + 1
  /\ UNCHANGED <<serverVars, requests, challenges, list, dump>>

(* The master starts again, with what it has on its disk if it reads that. *)
MasterRestart ==
  /\ Disturb
  /\ list' \in {EmptyList, dump}
  /\ seed' = seed + 2
  /\ UNCHANGED <<serverVars, requests, challenges, dump>>

-----------------------------------------------------------------------------
(* The master writes its list, without the addresses whose time is up      *)
(* (handle_periodic_writeout), at a moment that need not be the same in    *)
(* each unit of time.                                                      *)
Writeout ==
  LET aged == Aged(list)
      Old(age) == {a \in DOMAIN list.addresses : aged.addresses[a].age = age}
  IN  /\ \E edge \in SUBSET Old(Timeout) :
           list' = Pruned(aged, edge \cup Old(Timeout + 1))
      /\ dump' = list'

Later(r) == [r EXCEPT !.next = IF @ > 0 THEN @ - 1 ELSE 0,
                      !.prev = IF @ < Second THEN @ + 1 ELSE Second]

(* A unit of time passes. *)
Tick ==
  /\ up => ~WaitUpdate
  /\ \A p \in Protocols : \A i \in DOMAIN requests[p] : requests[p][i].slow
  /\ \A c \in challenges : c.slow
  /\ Writeout
  /\ protocol' = IF up THEN [p \in Protocols |-> Later(protocol[p])] ELSE protocol
  /\ calm' = IF calm <= Timeout + 1 THEN calm + 1 ELSE calm
  /\ UNCHANGED <<life, up, updated, enabled, infoSerial, latest, requests,
                 challenges, seed, trouble>>

Work(p, i) == Arrive(p, i) \/ NoteStatus(p, i) \/ NoteSerial(p, i) \/ Ignore(p, i)

Serving == Update \/ (\E c \in challenges : OnToken(c))
Working == \E p \in Protocols : \E i \in DOMAIN requests[p] : Work(p, i)

Troubling ==
  \/ \E E \in SUBSET Protocols \ {enabled} : OnConfigChange(E)
  \/ \E shutdown \in BOOLEAN : Stop(shutdown)
  \/ \E p \in Protocols : \E i \in DOMAIN requests[p] : Fail(p, i) \/ Delay(p, i)
  \/ \E c \in challenges : LoseChallenge(c) \/ DelayChallenge(c)
  \/ Reseed \/ MasterRestart

Next == Serving \/ Working \/ OnNewInfo \/ Start \/ Tick \/ Troubling

Spec == Init /\ [][Next]_vars

-----------------------------------------------------------------------------
(* An address is listed under the server it belongs to and under no other, *)
(* however requests of two servers and time-outs interleave: what add,     *)
(* remove and prune_before of the master unwrap and assert is there.       *)
ListFits == Consistent(list)

Listed(p) ==
  /\ p \in DOMAIN list.addresses
  /\ list.addresses[p].secret = life
  /\ list.servers[life].serial = infoSerial

(* Whatever was lost, late or forgotten by the master, a server is listed  *)
(* again one period later by every protocol that is enabled, with its last *)
(* info: a challenge and a request for the info cost no further period     *)
(* (CheckChallengeStatus), and the answer to one protocol does not hide    *)
(* from another that the master lacks the info (CJob::Run).                *)
ListedSoon == up /\ calm > Period => \A p \in enabled : Listed(p)

(* What is disabled or has stopped leaves the list with the time-out at    *)
(* the latest, though no delete may be sent for it, or one that a register *)
(* overtakes.                                                              *)
GoneSoon == calm > Timeout => DOMAIN list.addresses = IF up THEN enabled ELSE {}
=============================================================================

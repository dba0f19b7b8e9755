----------------------------- MODULE RunLedger -----------------------------
(***************************************************************************)
(* What saving promises the players: a run is raced on the server, held by *)
(* a save or a load that is under way, or stored in the database, and at   *)
(* any time in one of these places only, until it is over.                 *)
(***************************************************************************)
CONSTANT Runs   \* the runs that may be begun

VARIABLE place  \* where each run is

Places == {"none", "game", "held", "stored", "elsewhere", "over", "doubt"}

(* How a run may pass from one place to another.  A run is over when its   *)
(* tees die, leave or finish; it leaves the database for this server or    *)
(* for another one.  A run is in doubt when the database did something and *)
(* reported that it had not, and when everybody has left the team it is to *)
(* be given back to; nothing more is said of it then.                      *)
Moves ==
  {<<"none", "game">>, <<"game", "over">>, <<"game", "held">>,
   <<"held", "game">>, <<"held", "stored">>, <<"stored", "held">>,
   <<"stored", "elsewhere">>, <<"held", "doubt">>, <<"stored", "doubt">>}

Init == place = [r \in Runs |-> "none"]

Next ==
  /\ place' \in [Runs -> Places]
  /\ \A r \in Runs : place'[r] # place[r] => <<place[r], place'[r]>> \in Moves

Spec == Init /\ [][Next]_place
=============================================================================

------------------------------ MODULE MCTeams ------------------------------
(* Instances of Teams for TLC. *)
EXTENDS Teams, TLC

CONSTANTS ann, bob, cyd

(* One more player than slots, so that a slot can change hands. *)
Three == {ann, bob, cyd}

Race(n, on, runs) == [clients |-> n, on |-> on, database |-> {}, runs |-> runs]
Save(n, on, database) ==
  [clients |-> n, on |-> on \cup {"save"}, database |-> database, runs |-> 1]

(* Each command for three players, and saving, which takes more states,    *)
(* with each of them for fewer. *)
Settings ==
  {Race(3, {"practice"}, 1), Race(3, {"invite"}, 1), Race(3, {"swap"}, 1),
   Race(2, {"swap"}, 2), Save(2, {}, {"mislead"}), Save(2, {}, {"share"}),
   Save(2, {"swap"}, {"refuse"}), Save(1, {"practice"}, {"refuse"})}

Alike == Permutations(Names)
=============================================================================

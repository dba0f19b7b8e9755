----------------------------- MODULE MCAsyncIo -----------------------------
(* Instances of AsyncIo for TLC. *)
EXTENDS AsyncIo

CONSTANTS w1, w2

Both == {w1, w2}

(* Logs to a file and to the terminal, the tee historian, and the output   *)
(* nobody waits for, which aio_free provides for.                          *)
Endings ==
  {<<"close", "wait">>, <<"wait">>, <<"close", "wait", "free">>, <<"close", "free">>}

(* Only the tee historian asks whether writing has failed. *)
Asking == {<<"close", "wait", "free">>}

(* Less and more than the first ring holds *)
Few == {2, 3}
=============================================================================

----------------------------- MODULE ByteStream -----------------------------
(***************************************************************************)
(* What asynchronous output promises: the file holds the bytes in the      *)
(* order in which they were queued, none twice and none left out unless    *)
(* writing failed, and is closed only when it has them all.  The n-th byte *)
(* queued is called n.                                                     *)
(***************************************************************************)
EXTENDS Integers, Sequences

VARIABLES
  queued,   \* how many bytes have been queued
  put,      \* how many of them have been put into the file, or have failed
  file,     \* the bytes in the file
  failed,   \* whether writing has failed
  ended     \* whether the writing has come to its end

streamVars == <<queued, put, file, failed, ended>>

Init == queued = 0 /\ put = 0 /\ file = << >> /\ failed = FALSE /\ ended = FALSE

Bytes(m, n) == [i \in 1 .. (n - m) |-> m + i]

Queue ==
  /\ queued' \in Nat
  /\ queued' > queued
  /\ UNCHANGED <<put, file, failed, ended>>

Put ==
  /\ ~ended
  /\ put' \in (put + 1) .. queued
  /\ \/ file' = file \o Bytes(put, put') /\ UNCHANGED failed
     \/ failed' /\ \E n \in put .. put' : file' = file \o Bytes(put, n)
  /\ UNCHANGED <<queued, ended>>

End ==
  /\ put = queued
  /\ ended' = TRUE
  /\ UNCHANGED <<queued, put, file, failed>>

Next == Queue \/ Put \/ End

Spec == Init /\ [][Next]_streamVars
=============================================================================

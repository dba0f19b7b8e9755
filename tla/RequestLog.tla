----------------------------- MODULE RequestLog -----------------------------
(***************************************************************************)
(* What the database pool promises the game: requests are answered once    *)
(* each, in the order they were made; a row that has been stored is stored *)
(* for good, wherever it is kept; and a write is answered with success     *)
(* only if its row is stored.                                              *)
(***************************************************************************)
EXTENDS Integers, Sequences

CONSTANT Kinds      \* the kinds of request; "write" is one of them

VARIABLES
  log,              \* the requests made so far, by kind
  answers,          \* answers[n]: whether request n was answered with success
  stored            \* the writes whose row is in some table

Init == log = << >> /\ answers = << >> /\ stored = {}

Request(k) == /\ log' = Append(log, k)
              /\ UNCHANGED <<answers, stored>>

Store(n) == /\ log[n] = "write"
            /\ stored' = stored \cup {n}
            /\ UNCHANGED <<log, answers>>

Answer(ok) == /\ Len(answers) < Len(log)
              /\ ok /\ log[Len(answers) + 1] = "write"
                   => Len(answers) + 1 \in stored
              /\ answers' = Append(answers, ok)
              /\ UNCHANGED <<log, stored>>

Next == \/ \E k \in Kinds : Request(k)
        \/ \E n \in 1 .. Len(log) : Store(n)
        \/ \E ok \in BOOLEAN : Answer(ok)

Spec == Init /\ [][Next]_<<log, answers, stored>>
=============================================================================

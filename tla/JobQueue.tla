------------------------------ MODULE JobQueue ------------------------------
(***************************************************************************)
(* What the job pool promises to those who hand it jobs: jobs leave the    *)
(* queue in the order they entered it, each runs once and from beginning   *)
(* to end, and a job that is still queued can be abandoned only as a whole *)
(* (it stays PENDING for ever).                                            *)
(***************************************************************************)
EXTENDS Integers, Sequences

CONSTANT Jobs

VARIABLES
  order,       \* the jobs handed in, in the order they entered the queue
  taken,       \* how many of them have left the queue
  status       \* status[j]: what IJob::Status() returns for job j

Status == {"PENDING", "RUNNING", "DONE"}

Queued == {order[i] : i \in 1 .. Len(order)}
Taken == {order[i] : i \in 1 .. taken}

Init == /\ order = << >>
        /\ taken = 0
        /\ status = [j \in Jobs |-> "PENDING"]

Submit(j) == /\ j \notin Queued
             /\ order' = Append(order, j)
             /\ UNCHANGED <<taken, status>>

Take == /\ taken < Len(order)
        /\ taken' = taken + 1
        /\ UNCHANGED <<order, status>>

Start(j) == /\ j \in Taken
            /\ status[j] = "PENDING"
            /\ status' = [status EXCEPT ![j] = "RUNNING"]
            /\ UNCHANGED <<order, taken>>

Finish(j) == /\ status[j] = "RUNNING"
             /\ status' = [status EXCEPT ![j] = "DONE"]
             /\ UNCHANGED <<order, taken>>

Next == Take \/ \E j \in Jobs : Submit(j) \/ Start(j) \/ Finish(j)

Spec == Init /\ [][Next]_<<order, taken, status>>
=============================================================================

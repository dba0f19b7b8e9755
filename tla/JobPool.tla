------------------------------- MODULE JobPool ------------------------------
(***************************************************************************)
(* CJobPool (engine/shared/jobs.cpp): worker threads that sleep on a       *)
(* semaphore and take jobs from a singly linked list under a lock, threads *)
(* that add jobs, and the owner that destroys the pool.                    *)
(*                                                                         *)
(* A critical section is one step.  Everything between two accesses to     *)
(* shared state is a step of its own: a worker's test of m_Shutdown, its   *)
(* wait, its pop and its two stores to m_Status; an adder's append and its *)
(* signal; each of the owner's signals.                                    *)
(***************************************************************************)
EXTENDS Integers, Sequences, FiniteSets

CONSTANTS
  Workers,     \* m_vpThreads, the threads Init started
  Adders,      \* the threads that call Add
  Jobs,        \* bound: the jobs ever added, each by one call
  NoJob        \* the null pointer

ASSUME PoolAssumption == IsFiniteSet(Workers) /\ NoJob \notin Jobs

VARIABLES
  first,       \* m_pFirstJob
  last,        \* m_pLastJob
  next,        \* next[j]: m_pNext of job j
  tokens,      \* the value of m_Semaphore
  shutdown,    \* m_Shutdown
  status,      \* status[j]: m_Status of job j
  pc,          \* where each worker stands in WorkerThread
  job,         \* job[w]: pJob of worker w
  adding,      \* the adders that have appended their job and not yet signalled
  owner,       \* how far the owner is in Destroy
  signals,     \* how many threads Destroy has signalled
  order,       \* history: the jobs in the order they entered the list
  taken        \* history: how many jobs have left the list

vars == <<first, last, next, tokens, shutdown, status, pc, job, adding,
          owner, signals, order, taken>>

NullOrJob == Jobs \cup {NoJob}
WorkerPc == {"test", "wait", "pop", "start", "run", "exited"}
OwnerPc == {"alive", "signal", "join", "destroyed"}

Queued == {order[i] : i \in 1 .. Len(order)}
Taken == {order[i] : i \in 1 .. taken}

TypeOK ==
  /\ first \in NullOrJob
  /\ last \in NullOrJob
  /\ next \in [Jobs -> NullOrJob]
  /\ tokens \in Nat
  /\ shutdown \in BOOLEAN
  /\ status \in [Jobs -> {"PENDING", "RUNNING", "DONE"}]
  /\ pc \in [Workers -> WorkerPc]
  /\ job \in [Workers -> NullOrJob]
  /\ adding \in SUBSET Adders
  /\ owner \in OwnerPc
  /\ signals \in 0 .. Cardinality(Workers)
  /\ order \in Seq(Jobs)
  /\ taken \in 0 .. Len(order)

(* A pool whose Init has run: its threads are about to test m_Shutdown. *)
Init ==
  /\ first = NoJob
  /\ last = NoJob
  /\ next = [j \in Jobs |-> NoJob]
  /\ tokens = 0
  /\ shutdown = FALSE
  /\ status = [j \in Jobs |-> "PENDING"]
  /\ pc = [w \in Workers |-> "test"]
  /\ job = [w \in Workers |-> NoJob]
  /\ adding = {}
  /\ owner = "alive"
  /\ signals = 0
  /\ order = << >>
  /\ taken = 0

-----------------------------------------------------------------------------
(* CJobPool::Add *)

(* The list after job j was appended to it. *)
Append_KeepsLast(j) ==
  /\ next' = IF last # NoJob THEN [next EXCEPT ![last] = j] ELSE next
  /\ last' = IF last = NoJob THEN j ELSE last
  /\ first' = IF first = NoJob THEN j ELSE first

Append_NoLink(j) ==
  /\ next' = next
  /\ last' = j
  /\ first' = IF first = NoJob THEN j ELSE first

AppendJob(j) ==
  /\ next' = IF last # NoJob THEN [next EXCEPT ![last] = j] ELSE next
  /\ last' = j
  /\ first' = IF first = NoJob THEN j ELSE first

(* The critical section of Add.  The owner destroys the pool only when no  *)
(* call of Add is under way or will come.                                  *)
AddAppend(a, j) ==
  /\ owner = "alive"
  /\ a \notin adding
  /\ j \notin Queued
  /\ AppendJob(j)
  /\ adding' = adding \cup {a}
  /\ order' = Append(order, j)
  /\ UNCHANGED <<tokens, shutdown, status, pc, job, owner, signals, taken>>

Signalled_IfNone(n) == IF n = 0 THEN 1 ELSE n

Signalled(n) == n + 1

(* The signal at the end of Add. *)
AddSignal(a) ==
  /\ a \in adding
  /\ tokens' = Signalled(tokens)
  /\ adding' = adding \ {a}
  /\ UNCHANGED <<first, last, next, shutdown, status, pc, job, owner,
                 signals, order, taken>>

-----------------------------------------------------------------------------
(* CJobPool::WorkerThread *)

Goto(w, l) == pc' = [pc EXCEPT ![w] = l]

Test(w) ==
  /\ pc[w] = "test"
  /\ Goto(w, IF shutdown THEN "exited" ELSE "wait")
  /\ UNCHANGED <<first, last, next, tokens, shutdown, status, job, adding,
                 owner, signals, order, taken>>

Wait(w) ==
  /\ pc[w] = "wait"
  /\ tokens > 0
  /\ tokens' = tokens - 1
  /\ Goto(w, "pop")
  /\ UNCHANGED <<first, last, next, shutdown, status, job, adding, owner,
                 signals, order, taken>>

(* The list after its first job was taken off it.  The worker runs the job *)
(* even if the pool is being destroyed.                                    *)
PopJob ==
  /\ first' = next[first]
  /\ next' = [next EXCEPT ![first] = NoJob]
  /\ last' = IF next[first] = NoJob THEN NoJob ELSE last

(* The critical section of WorkerThread. *)
Pop(w) ==
  /\ pc[w] = "pop"
  /\ IF first # NoJob
       THEN /\ job' = [job EXCEPT ![w] = first]
            /\ PopJob
            /\ Goto(w, "start")
            /\ taken' = taken + 1
       ELSE /\ Goto(w, "test")
            /\ UNCHANGED <<job, first, last, next, taken>>
  /\ UNCHANGED <<tokens, shutdown, status, adding, owner, signals, order>>

(* RunBlocking, up to the call of Run. *)
Start(w) ==
  /\ pc[w] = "start"
  /\ status' = [status EXCEPT ![job[w]] = "RUNNING"]
  /\ Goto(w, "run")
  /\ UNCHANGED <<first, last, next, tokens, shutdown, job, adding, owner,
                 signals, order, taken>>

(* RunBlocking after Run has returned; pJob is let go. *)
Finish(w) ==
  /\ pc[w] = "run"
  /\ status' = [status EXCEPT ![job[w]] = "DONE"]
  /\ job' = [job EXCEPT ![w] = NoJob]
  /\ Goto(w, "test")
  /\ UNCHANGED <<first, last, next, tokens, shutdown, adding, owner, signals,
                 order, taken>>

-----------------------------------------------------------------------------
(* CJobPool::Destroy *)

DestroyBegin ==
  /\ owner = "alive"
  /\ adding = {}
  /\ shutdown' = TRUE
  /\ owner' = "signal"
  /\ UNCHANGED <<first, last, next, tokens, status, pc, job, adding, signals,
                 order, taken>>

AllSignalled_TooFew == signals + 1 >= Cardinality(Workers)

AllSignalled == signals = Cardinality(Workers)

DestroySignal ==
  /\ owner = "signal"
  /\ ~AllSignalled
  /\ tokens' = tokens + 1
  /\ signals' = signals + 1
  /\ UNCHANGED <<first, last, next, shutdown, status, pc, job, adding, owner,
                 order, taken>>

DestroyJoin ==
  /\ owner = "signal"
  /\ AllSignalled
  /\ owner' = "join"
  /\ UNCHANGED <<first, last, next, tokens, shutdown, status, pc, job,
                 adding, signals, order, taken>>

Joined_First ==
  Workers # {} => \E w \in Workers : pc[w] = "exited"

Joined == \A w \in Workers : pc[w] = "exited"

(* thread_wait of every thread has returned; the semaphore is destroyed. *)
DestroyReturn ==
  /\ owner = "join"
  /\ Joined
  /\ owner' = "destroyed"
  /\ UNCHANGED <<first, last, next, tokens, shutdown, status, pc, job,
                 adding, signals, order, taken>>

-----------------------------------------------------------------------------
WorkerStep(w) == Test(w) \/ Wait(w) \/ Pop(w) \/ Start(w) \/ Finish(w)
AddStep(a) == AddSignal(a) \/ \E j \in Jobs : AddAppend(a, j)
DestroyStep == DestroyBegin \/ DestroySignal \/ DestroyJoin \/ DestroyReturn

Next ==
  \/ \E w \in Workers : WorkerStep(w)
  \/ \E a \in Adders : AddStep(a)
  \/ DestroyStep

Spec == Init /\ [][Next]_vars

(* The scheduler runs every thread, jobs return from Run, and a call of    *)
(* Add or of Destroy that has begun goes on.                               *)
FairSpec ==
  /\ Spec
  /\ \A w \in Workers : WF_vars(WorkerStep(w))
  /\ \A a \in Adders : WF_vars(AddSignal(a))
  /\ WF_vars(DestroySignal \/ DestroyJoin \/ DestroyReturn)

-----------------------------------------------------------------------------
(* The pointers are exactly the queue: the list runs from m_pFirstJob      *)
(* through m_pNext to m_pLastJob over the jobs that were added and not yet *)
(* taken, in the order they were added, and a job outside the list points  *)
(* nowhere (a job that outlives its turn keeps no later job alive, as the  *)
(* comment in WorkerThread asks).                                          *)
LinkedInOrder ==
  /\ first = IF taken < Len(order) THEN order[taken + 1] ELSE NoJob
  /\ last = IF taken < Len(order) THEN order[Len(order)] ELSE NoJob
  /\ \A i \in (taken + 1) .. (Len(order) - 1) : next[order[i]] = order[i + 1]
  /\ \A j \in Jobs :
       (\A i \in (taken + 1) .. (Len(order) - 1) : j # order[i])
         => next[j] = NoJob

(* No wake-up is lost: while the pool is not being destroyed, every queued *)
(* job has a token in the semaphore, a worker past its wait, or an adder   *)
(* about to signal; so no job waits while every worker sleeps.             *)
WakeUps ==
  ~shutdown => tokens + Cardinality({w \in Workers : pc[w] = "pop"})
                      + Cardinality(adding)
                 = Len(order) - taken

(* What Destroy leaves behind: no thread, no job half done, every job that *)
(* left the queue DONE, and every other job still PENDING.                 *)
CleanShutdown ==
  owner = "destroyed" =>
    /\ \A w \in Workers : pc[w] = "exited"
    /\ \A j \in Jobs : status[j] = IF j \in Taken THEN "DONE" ELSE "PENDING"

(* The pool is a JobQueue. *)
Abstract == INSTANCE JobQueue
QueueSpec == Abstract!Spec

(* Every job added to a pool that is not destroyed is run to its end. *)
JobsRun == \A j \in Jobs : (j \in Queued) ~> (status[j] = "DONE" \/ shutdown)

(* Destroy returns, whatever the workers were doing when it was called. *)
DestroyReturns == (owner = "signal") ~> (owner = "destroyed")
=============================================================================

--------------------------- MODULE JobPoolProofs ----------------------------
(***************************************************************************)
(* The job pool implements a JobQueue, loses no wake-up and shuts down     *)
(* cleanly, for every number of workers, adders and jobs.                  *)
(*                                                                         *)
(* The inductive invariant IndInv ties the linked list to the history of   *)
(* the queue, each worker's program counter to the job it holds, and each  *)
(* job's status to the worker that holds it.                               *)
(***************************************************************************)
EXTENDS JobPool, FiniteSetTheorems, TLAPS

(* No job entered the queue twice. *)
NoRepeat ==
  \A i, k \in 1 .. Len(order) : order[i] = order[k] => i = k

(* A worker holds a job exactly while it is about to run it or runs it. *)
Holding ==
  \A w \in Workers :
    /\ job[w] # NoJob <=> pc[w] \in {"start", "run"}
    /\ job[w] # NoJob =>
         /\ job[w] \in Taken
         /\ status[job[w]] = IF pc[w] = "start" THEN "PENDING" ELSE "RUNNING"

(* No two workers hold the same job. *)
Exclusive ==
  \A v, w \in Workers : job[v] = job[w] /\ job[v] # NoJob => v = w

(* A job no worker holds is DONE if it left the queue, else PENDING. *)
Unheld ==
  \A j \in Jobs :
    (\A w \in Workers : job[w] # j)
      => status[j] = IF j \in Taken THEN "DONE" ELSE "PENDING"

(* Destroy's progress, its flag and its threads agree. *)
OwnerInv ==
  /\ owner = "alive" <=> ~shutdown
  /\ owner = "destroyed" => \A w \in Workers : pc[w] = "exited"

IndInv ==
  /\ TypeOK
  /\ IsFiniteSet(adding)
  /\ LinkedInOrder
  /\ NoRepeat
  /\ Holding
  /\ Exclusive
  /\ Unheld
  /\ OwnerInv

Popping == {w \in Workers : pc[w] = "pop"}

-----------------------------------------------------------------------------
LEMMA InitInv == Init => IndInv
<1> SUFFICES ASSUME Init PROVE IndInv
  OBVIOUS
<1> USE PoolAssumption DEF Init
<1>1. Cardinality(Workers) \in Nat
  BY FS_CardinalityType
<1>2. TypeOK
  <2>1. order \in Seq(Jobs) /\ taken \in 0 .. Len(order)
    OBVIOUS
  <2>2. tokens \in Nat /\ signals \in 0 .. Cardinality(Workers)
    BY <1>1
  <2>4. shutdown \in BOOLEAN /\ adding \in SUBSET Adders /\ owner \in OwnerPc
    BY Zenon DEF OwnerPc
  <2>3. /\ first \in NullOrJob /\ last \in NullOrJob
        /\ next \in [Jobs -> NullOrJob]
        /\ status \in [Jobs -> {"PENDING", "RUNNING", "DONE"}]
        /\ pc \in [Workers -> WorkerPc] /\ job \in [Workers -> NullOrJob]
    BY DEF NullOrJob, WorkerPc
  <2> QED
    BY <2>1, <2>2, <2>3, <2>4 DEF TypeOK
<1>3. IsFiniteSet(adding)
  BY FS_EmptySet
<1>4. LinkedInOrder
  BY DEF LinkedInOrder
<1>5. NoRepeat /\ Holding /\ Exclusive /\ OwnerInv
  BY DEF NoRepeat, Holding, Exclusive, OwnerInv
<1>6. Unheld
  BY DEF Unheld, Taken
<1> QED
  BY <1>2, <1>3, <1>4, <1>5, <1>6 DEF IndInv

(* What Add's critical section does to the list and to the history. *)
LEMMA AppendInv ==
  ASSUME IndInv, NEW a \in Adders, NEW j \in Jobs, AddAppend(a, j)
  PROVE  IndInv'
<1> USE PoolAssumption DEF IndInv, AddAppend
<1>1. /\ order' \in Seq(Jobs) /\ Len(order') = Len(order) + 1
      /\ order'[Len(order) + 1] = j
      /\ \A i \in 1 .. Len(order) : order'[i] = order[i]
      /\ \A i \in 1 .. Len(order) : order[i] \in Jobs
      /\ Len(order) \in Nat /\ taken \in Nat /\ taken <= Len(order)
  BY DEF TypeOK
<1>2. \A i \in 1 .. Len(order) : order[i] # j
  BY DEF Queued
<1>3. first' \in NullOrJob /\ last' \in NullOrJob
      /\ next' \in [Jobs -> NullOrJob]
  BY DEF AppendJob, TypeOK, NullOrJob
<1>4. TypeOK'
  BY <1>1, <1>3 DEF TypeOK
<1>5. IsFiniteSet(adding')
  BY FS_AddElement
<1>6. LinkedInOrder'
  <2>1. CASE taken = Len(order)
    <3>1. first = NoJob /\ last = NoJob
      BY <2>1 DEF LinkedInOrder
    <3>2. first' = j /\ last' = j /\ next' = next
      BY <3>1 DEF AppendJob
    <3>3. \A k \in Jobs : next[k] = NoJob
      BY <2>1, <1>1 DEF LinkedInOrder
    <3> QED
      BY <1>1, <2>1, <3>2, <3>3 DEF LinkedInOrder
  <2>2. CASE taken < Len(order)
    <3>1. first = order[taken + 1] /\ last = order[Len(order)]
      BY <2>2 DEF LinkedInOrder
    <3>2. first # NoJob /\ last # NoJob /\ last \in Jobs
      BY <1>1, <2>2, <3>1
    <3>3. first' = first /\ last' = j /\ next' = [next EXCEPT ![last] = j]
      BY <3>2 DEF AppendJob
    <3>4. \A i \in 1 .. (Len(order) - 1) : order[i] # last
      BY <1>1, <2>2, <3>1 DEF NoRepeat
    <3>5. next'[last] = j
      BY <3>2, <3>3 DEF TypeOK
    <3>6. \A k \in Jobs : k # last => next'[k] = next[k]
      BY <3>3 DEF TypeOK
    <3>7. \A i \in (taken + 1) .. Len(order) : next'[order'[i]] = order'[i + 1]
      <4> SUFFICES ASSUME NEW i \in (taken + 1) .. Len(order)
                   PROVE  next'[order'[i]] = order'[i + 1]
        OBVIOUS
      <4>1. CASE i = Len(order)
        BY <1>1, <3>1, <3>5, <4>1
      <4>2. CASE i < Len(order)
        <5>1. i \in (taken + 1) .. (Len(order) - 1)
          BY <1>1, <4>2
        <5>2. order'[i] = order[i] /\ order'[i + 1] = order[i + 1]
              /\ order[i] \in Jobs
          BY <1>1, <5>1
        <5>3. next[order[i]] = order[i + 1]
          BY <5>1 DEF LinkedInOrder
        <5>4. order[i] # last
          BY <3>4, <5>1, <1>1
        <5> QED
          BY <3>6, <5>2, <5>3, <5>4
      <4> QED
        BY <4>1, <4>2, <1>1
    <3>8. ASSUME NEW k \in Jobs,
                 \A i \in (taken + 1) .. Len(order) : k # order'[i]
          PROVE  next'[k] = NoJob
      <4>1. k # last
        BY <1>1, <2>2, <3>1, <3>8
      <4>2. \A i \in (taken + 1) .. (Len(order) - 1) : k # order[i]
        BY <1>1, <3>8
      <4> QED
        BY <3>6, <4>1, <4>2 DEF LinkedInOrder
    <3>9. first' = order'[taken + 1] /\ last' = order'[Len(order')]
      BY <1>1, <2>2, <3>1, <3>3
    <3>10. taken' = taken /\ taken' < Len(order') /\ Len(order') - 1 = Len(order)
      BY <1>1, <2>2
    <3> QED
      BY <3>7, <3>8, <3>9, <3>10 DEF LinkedInOrder
  <2> QED
    BY <2>1, <2>2, <1>1
<1>7. NoRepeat'
  <2> SUFFICES ASSUME NEW i \in 1 .. Len(order'), NEW k \in 1 .. Len(order'),
                      order'[i] = order'[k]
               PROVE  i = k
    BY DEF NoRepeat
  <2>1. CASE i <= Len(order) /\ k <= Len(order)
    BY <1>1, <2>1 DEF NoRepeat
  <2>2. CASE i = Len(order) + 1 \/ k = Len(order) + 1
    BY <1>1, <1>2, <2>2
  <2> QED
    BY <1>1, <2>1, <2>2
<1>8. Taken' = Taken
  BY <1>1 DEF Taken
<1>9. Holding' /\ Exclusive' /\ Unheld' /\ OwnerInv'
  BY <1>8 DEF Holding, Exclusive, Unheld, OwnerInv
<1> QED
  BY <1>4, <1>5, <1>6, <1>7, <1>9

(* What a worker's critical section does. *)
LEMMA PopInv ==
  ASSUME IndInv, NEW w \in Workers, Pop(w)
  PROVE  IndInv'
<1> USE PoolAssumption DEF IndInv, Pop, Goto
<1>1. /\ \A i \in 1 .. Len(order) : order[i] \in Jobs
      /\ Len(order) \in Nat /\ taken \in Nat /\ taken <= Len(order)
  BY DEF TypeOK
<1>2. /\ pc' \in [Workers -> WorkerPc]
      /\ \A v \in Workers : v # w => pc'[v] = pc[v]
  BY DEF TypeOK, WorkerPc
<1>3. job[w] = NoJob
  BY DEF Holding
<1>4. CASE first = NoJob
  <2>1. /\ UNCHANGED <<job, first, last, next, taken, tokens, shutdown,
                       status, adding, owner, signals, order>>
        /\ pc'[w] = "test"
    BY <1>4 DEF TypeOK
  <2>2. TypeOK' /\ IsFiniteSet(adding')
    BY <1>2, <2>1 DEF TypeOK
  <2>3. LinkedInOrder' /\ NoRepeat'
    BY <2>1 DEF LinkedInOrder, NoRepeat
  <2>4. Taken' = Taken
    BY <2>1 DEF Taken
  <2>5. Holding' /\ Exclusive' /\ Unheld'
    BY <1>2, <1>3, <2>1, <2>4 DEF Holding, Exclusive, Unheld
  <2>6. OwnerInv'
    BY <2>1 DEF OwnerInv
  <2> QED
    BY <2>2, <2>3, <2>5, <2>6
<1>5. CASE first # NoJob
  <2>1. taken < Len(order) /\ first = order[taken + 1]
        /\ last = order[Len(order)] /\ first \in Jobs
    BY <1>1, <1>5 DEF LinkedInOrder
  <2>2. /\ taken' = taken + 1 /\ order' = order /\ status' = status
        /\ job' = [job EXCEPT ![w] = first] /\ pc'[w] = "start"
        /\ first' = next[first]
        /\ next' = [next EXCEPT ![first] = NoJob]
        /\ last' = IF next[first] = NoJob THEN NoJob ELSE last
    BY <1>5 DEF PopJob, TypeOK
  <2>3. next'[first] = NoJob /\ \A k \in Jobs : k # first => next'[k] = next[k]
    BY <2>1, <2>2 DEF TypeOK
  <2>4. job'[w] = first /\ \A v \in Workers : v # w => job'[v] = job[v]
    BY <2>2 DEF TypeOK
  <2>5. TypeOK' /\ IsFiniteSet(adding')
    BY <1>1, <1>2, <2>1, <2>2 DEF TypeOK, NullOrJob
  <2>6. LinkedInOrder'
    <3>1. next[first] = IF taken + 1 < Len(order) THEN order[taken + 2] ELSE NoJob
      <4>1. CASE taken + 1 < Len(order)
        BY <1>1, <2>1, <4>1 DEF LinkedInOrder
      <4>2. CASE taken + 1 = Len(order)
        BY <1>1, <2>1, <4>2 DEF LinkedInOrder
      <4> QED
        BY <1>1, <2>1, <4>1, <4>2
    <3>2. first' = IF taken' < Len(order') THEN order'[taken' + 1] ELSE NoJob
      BY <1>1, <2>1, <2>2, <3>1
    <3>3. last' = IF taken' < Len(order') THEN order'[Len(order')] ELSE NoJob
      BY <1>1, <2>1, <2>2, <3>1
    <3>4. \A i \in (taken + 2) .. (Len(order) - 1) :
            next'[order[i]] = order[i + 1]
      <4> SUFFICES ASSUME NEW i \in (taken + 2) .. (Len(order) - 1)
                   PROVE  next'[order[i]] = order[i + 1]
        OBVIOUS
      <4>1. next[order[i]] = order[i + 1]
        BY <1>1 DEF LinkedInOrder
      <4>2. order[i] # first /\ order[i] \in Jobs
        BY <1>1, <2>1 DEF NoRepeat
      <4> QED
        BY <2>3, <4>1, <4>2
    <3>5. ASSUME NEW k \in Jobs,
                 \A i \in (taken + 2) .. (Len(order) - 1) : k # order[i]
          PROVE  next'[k] = NoJob
      <4>1. CASE k = first
        BY <2>3, <4>1
      <4>2. CASE k # first
        <5>1. \A i \in (taken + 1) .. (Len(order) - 1) : k # order[i]
          BY <1>1, <2>1, <3>5, <4>2
        <5> QED
          BY <2>3, <4>2, <5>1 DEF LinkedInOrder
      <4> QED
        BY <4>1, <4>2
    <3>6. (taken + 1) + 1 = taken + 2
      BY <1>1
    <3> QED
      BY <2>2, <3>2, <3>3, <3>4, <3>5, <3>6 DEF LinkedInOrder
  <2>7. NoRepeat'
    BY <2>2 DEF NoRepeat
  <2>8. Taken' = Taken \cup {first}
    BY <1>1, <2>1, <2>2 DEF Taken
  <2>9. first \notin Taken
    BY <1>1, <2>1 DEF Taken, NoRepeat
  <2>10. \A v \in Workers : job[v] # first
    BY <2>1, <2>9 DEF Holding
  <2>11. status[first] = "PENDING"
    BY <2>1, <2>9, <2>10 DEF Unheld
  <2>12. Holding'
    BY <1>2, <1>5, <2>2, <2>4, <2>8, <2>11 DEF Holding
  <2>13. Exclusive'
    BY <2>4, <2>10 DEF Exclusive
  <2>14. Unheld'
    BY <1>3, <2>2, <2>4, <2>8 DEF Unheld
  <2>15. OwnerInv'
    BY DEF OwnerInv
  <2> QED
    BY <2>5, <2>6, <2>7, <2>12, <2>13, <2>14, <2>15
<1> QED
  BY <1>4, <1>5

(* The two stores to m_Status. *)
LEMMA RunInv ==
  ASSUME IndInv, NEW w \in Workers, Start(w) \/ Finish(w)
  PROVE  IndInv'
<1> USE PoolAssumption DEF IndInv
<1>1. /\ job[w] # NoJob /\ job[w] \in Jobs /\ job[w] \in Taken
      /\ \A v \in Workers : v # w => job[v] # job[w]
  BY DEF Start, Finish, Holding, Exclusive, TypeOK, NullOrJob
<1>2. UNCHANGED <<first, last, next, tokens, shutdown, adding, owner, signals,
                  order, taken>>
  BY DEF Start, Finish
<1>3. LinkedInOrder' /\ NoRepeat' /\ Taken' = Taken /\ IsFiniteSet(adding')
  BY <1>2 DEF LinkedInOrder, NoRepeat, Taken
<1>4. CASE Start(w)
  <2>1. /\ job' = job /\ pc[w] = "start" /\ pc'[w] = "run"
        /\ \A v \in Workers : v # w => pc'[v] = pc[v]
        /\ pc' \in [Workers -> WorkerPc]
        /\ status' = [status EXCEPT ![job[w]] = "RUNNING"]
    BY <1>4 DEF Start, Goto, TypeOK, WorkerPc
  <2>2. TypeOK'
    BY <1>1, <1>2, <2>1 DEF TypeOK
  <2>3. status'[job[w]] = "RUNNING"
        /\ \A j \in Jobs : j # job[w] => status'[j] = status[j]
    BY <1>1, <2>1 DEF TypeOK
  <2>4. Holding'
    <3> SUFFICES ASSUME NEW v \in Workers
                 PROVE  /\ job[v] # NoJob <=> pc'[v] \in {"start", "run"}
                        /\ job[v] # NoJob =>
                             /\ job[v] \in Taken
                             /\ status'[job[v]] = IF pc'[v] = "start"
                                  THEN "PENDING" ELSE "RUNNING"
      BY <1>3, <2>1 DEF Holding
    <3>1. CASE v = w
      BY <1>1, <2>1, <2>3, <3>1
    <3>2. CASE v # w
      BY <1>1, <2>1, <2>3, <3>2 DEF Holding, TypeOK, NullOrJob
    <3> QED
      BY <3>1, <3>2
  <2>5. Exclusive' /\ Unheld'
    BY <1>3, <2>1, <2>3 DEF Exclusive, Unheld
  <2>6. OwnerInv'
    BY <1>2, <2>1 DEF OwnerInv
  <2> QED
    BY <1>3, <2>2, <2>4, <2>5, <2>6
<1>5. CASE Finish(w)
  <2>1. /\ pc[w] = "run" /\ pc'[w] = "test" /\ job'[w] = NoJob
        /\ \A v \in Workers : v # w => pc'[v] = pc[v] /\ job'[v] = job[v]
        /\ pc' \in [Workers -> WorkerPc]
        /\ job' \in [Workers -> NullOrJob]
        /\ status' = [status EXCEPT ![job[w]] = "DONE"]
    BY <1>5 DEF Finish, Goto, TypeOK, WorkerPc, NullOrJob
  <2>2. TypeOK'
    BY <1>1, <1>2, <2>1 DEF TypeOK
  <2>3. status'[job[w]] = "DONE"
        /\ \A j \in Jobs : j # job[w] => status'[j] = status[j]
    BY <1>1, <2>1 DEF TypeOK
  <2>4. Holding'
    BY <1>1, <1>3, <2>1, <2>3 DEF Holding, TypeOK, NullOrJob
  <2>5. Exclusive'
    BY <2>1 DEF Exclusive
  <2>6. Unheld'
    BY <1>1, <1>3, <2>1, <2>3 DEF Unheld
  <2>7. OwnerInv'
    BY <1>2, <2>1 DEF OwnerInv
  <2> QED
    BY <1>3, <2>2, <2>4, <2>5, <2>6, <2>7
<1> QED
  BY <1>4, <1>5

(* The steps that touch neither the list nor a job. *)
LEMMA OtherInv ==
  ASSUME IndInv,
         \/ \E w \in Workers : Test(w) \/ Wait(w)
         \/ \E a \in Adders : AddSignal(a)
         \/ DestroyStep
         \/ UNCHANGED vars
  PROVE  IndInv'
<1> USE PoolAssumption DEF IndInv
<1>1. UNCHANGED <<first, last, next, status, job, order, taken>>
  BY DEF Test, Wait, AddSignal, DestroyStep, DestroyBegin, DestroySignal,
         DestroyJoin, DestroyReturn, vars
<1>2. LinkedInOrder' /\ NoRepeat' /\ Exclusive' /\ Taken' = Taken
  BY <1>1 DEF LinkedInOrder, NoRepeat, Exclusive, Taken
<1>3. Unheld'
  BY <1>1, <1>2 DEF Unheld
<1>4. /\ pc' \in [Workers -> WorkerPc]
      /\ \A w \in Workers :
           pc'[w] # pc[w] => pc[w] \in {"test", "wait"}
                             /\ pc'[w] \in {"wait", "pop", "exited"}
  BY DEF Test, Wait, Goto, AddSignal, DestroyStep, DestroyBegin,
         DestroySignal, DestroyJoin, DestroyReturn, vars, TypeOK, WorkerPc
<1>5. Holding'
  BY <1>1, <1>2, <1>4 DEF Holding
<1>6. IsFiniteSet(adding')
  BY FS_RemoveElement
     DEF Test, Wait, AddSignal, DestroyStep, DestroyBegin, DestroySignal,
         DestroyJoin, DestroyReturn, vars
<1>7. Cardinality(Workers) \in Nat
  BY FS_CardinalityType
<1>8. TypeOK'
  <2>1. tokens' \in Nat /\ shutdown' \in BOOLEAN
    <3>1. ASSUME NEW w \in Workers, Test(w) \/ Wait(w)
          PROVE  tokens' \in Nat /\ shutdown' \in BOOLEAN
      BY <3>1 DEF Test, Wait, TypeOK
    <3>2. ASSUME NEW a \in Adders, AddSignal(a)
          PROVE  tokens' \in Nat /\ shutdown' \in BOOLEAN
      BY <3>2 DEF AddSignal, Signalled, TypeOK
    <3>3. CASE DestroyStep \/ UNCHANGED vars
      <4>1. tokens' = tokens \/ tokens' = tokens + 1
        BY <3>3 DEF DestroyStep, DestroyBegin, DestroySignal, DestroyJoin,
                    DestroyReturn, vars
      <4>2. shutdown' = shutdown \/ shutdown' = TRUE
        BY <3>3 DEF DestroyStep, DestroyBegin, DestroySignal, DestroyJoin,
                    DestroyReturn, vars
      <4>3. tokens \in Nat /\ shutdown \in BOOLEAN
        BY DEF TypeOK
      <4>4. tokens' \in Nat
        BY <4>1, <4>3
      <4>5. shutdown' \in BOOLEAN
        BY <4>2, <4>3, Zenon
      <4> QED
        BY <4>4, <4>5
    <3> QED
      BY <3>1, <3>2, <3>3
  <2>2. adding' \in SUBSET Adders
    BY DEF TypeOK, Test, Wait, AddSignal, DestroyStep, DestroyBegin,
           DestroySignal, DestroyJoin, DestroyReturn, vars
  <2>3. owner' \in OwnerPc
    BY DEF TypeOK, OwnerPc, Test, Wait, AddSignal, DestroyStep, DestroyBegin,
           DestroySignal, DestroyJoin, DestroyReturn, vars
  <2>4. signals' \in 0 .. Cardinality(Workers)
    BY <1>7 DEF TypeOK, AllSignalled, Test, Wait, AddSignal, DestroyStep,
           DestroyBegin, DestroySignal, DestroyJoin, DestroyReturn, vars
  <2> QED
    BY <1>1, <1>4, <2>1, <2>2, <2>3, <2>4 DEF TypeOK
<1>9. OwnerInv'
  BY <1>4 DEF OwnerInv, TypeOK, Test, Wait, AddSignal, DestroyStep,
         DestroyBegin, DestroySignal, DestroyJoin, DestroyReturn, Joined, vars
<1> QED
  BY <1>2, <1>3, <1>5, <1>6, <1>8, <1>9

THEOREM Invariance == Spec => []IndInv
<1>1. IndInv /\ [Next]_vars => IndInv'
  <2> SUFFICES ASSUME IndInv, [Next]_vars PROVE IndInv'
    OBVIOUS
  <2>1. ASSUME NEW a \in Adders, NEW j \in Jobs, AddAppend(a, j) PROVE IndInv'
    BY <2>1, AppendInv
  <2>2. ASSUME NEW w \in Workers, Pop(w) PROVE IndInv'
    BY <2>2, PopInv
  <2>3. ASSUME NEW w \in Workers, Start(w) \/ Finish(w) PROVE IndInv'
    BY <2>3, RunInv
  <2> QED
    BY <2>1, <2>2, <2>3, OtherInv DEF Next, WorkerStep, AddStep
<1> QED
  BY <1>1, InitInv, PTL DEF Spec

-----------------------------------------------------------------------------
(* Every variable keeps its type; in particular the semaphore is never     *)
(* taken below zero and Destroy signals no more threads than there are.    *)
THEOREM TypeCorrect == Spec => []TypeOK
  BY Invariance, PTL DEF IndInv

(* m_pFirstJob, m_pLastJob and m_pNext always spell the queue in the order *)
(* of the calls of Add, and point at nothing else.                         *)
THEOREM ListIsQueue == Spec => []LinkedInOrder
  BY Invariance, PTL DEF IndInv

(* Once Destroy has returned, no thread is left, no job is half done, and  *)
(* exactly the jobs that had left the queue are DONE.                      *)
THEOREM ShutdownIsClean == Spec => []CleanShutdown
<1>1. IndInv => CleanShutdown
  <2> SUFFICES ASSUME IndInv, owner = "destroyed"
               PROVE  /\ \A w \in Workers : pc[w] = "exited"
                      /\ \A j \in Jobs :
                           status[j] = IF j \in Taken THEN "DONE" ELSE "PENDING"
    BY DEF CleanShutdown
  <2>1. \A w \in Workers : pc[w] = "exited"
    BY DEF IndInv, OwnerInv
  <2>2. \A w \in Workers : job[w] = NoJob
    BY <2>1 DEF IndInv, Holding
  <2> QED
    BY <2>1, <2>2, PoolAssumption DEF IndInv, Unheld
<1> QED
  BY <1>1, Invariance, PTL

-----------------------------------------------------------------------------
(* How the pieces of WakeUps change with one worker's program counter. *)
LEMMA PoppingCount ==
  ASSUME TypeOK, NEW w \in Workers, NEW l \in WorkerPc, Goto(w, l)
  PROVE  /\ Cardinality(Popping) \in Nat
         /\ pc[w] # "pop" /\ l = "pop" =>
              Cardinality(Popping') = Cardinality(Popping) + 1
         /\ pc[w] = "pop" /\ l # "pop" =>
              Cardinality(Popping') = Cardinality(Popping) - 1
         /\ pc[w] # "pop" /\ l # "pop" => Popping' = Popping
<1> USE PoolAssumption
<1>1. pc'[w] = l /\ \A v \in Workers : v # w => pc'[v] = pc[v]
  BY DEF Goto, TypeOK
<1>2. IsFiniteSet(Popping)
  BY FS_Subset DEF Popping
<1>3. Cardinality(Popping) \in Nat
  BY <1>2, FS_CardinalityType
<1>4. CASE pc[w] # "pop" /\ l = "pop"
  <2>1. Popping' = Popping \cup {w} /\ w \notin Popping
    BY <1>1, <1>4 DEF Popping
  <2> QED
    BY <1>2, <1>3, <1>4, <2>1, FS_AddElement
<1>5. CASE pc[w] = "pop" /\ l # "pop"
  <2>1. Popping' = Popping \ {w} /\ w \in Popping
    BY <1>1, <1>5 DEF Popping
  <2> QED
    BY <1>2, <1>3, <1>5, <2>1, FS_RemoveElement
<1>6. CASE pc[w] # "pop" /\ l # "pop"
  BY <1>1, <1>3, <1>6 DEF Popping
<1>7. CASE pc[w] = "pop" /\ l = "pop"
  BY <1>3, <1>7
<1> QED
  BY <1>4, <1>5, <1>6, <1>7

(* No wake-up is lost: as long as the pool is not being destroyed, every   *)
(* queued job is matched by a token, a worker past its wait, or an adder   *)
(* about to signal.                                                        *)
THEOREM NoLostWakeUp == Spec => []WakeUps
<1>1. Init => WakeUps
  BY FS_EmptySet, PoolAssumption DEF Init, WakeUps
<1>2. IndInv /\ WakeUps /\ [Next]_vars => WakeUps'
  <2> SUFFICES ASSUME IndInv, WakeUps, [Next]_vars, ~shutdown' PROVE WakeUps'
    BY DEF WakeUps
  <2> DEFINE Sum == tokens + Cardinality(Popping) + Cardinality(adding)
  <2>1. /\ TypeOK /\ IsFiniteSet(adding) /\ IsFiniteSet(Popping)
        /\ tokens \in Nat /\ taken \in Nat /\ Len(order) \in Nat
        /\ taken <= Len(order) /\ order \in Seq(Jobs)
    BY FS_Subset, PoolAssumption DEF IndInv, TypeOK, Popping
  <2>2. Cardinality(Popping) \in Nat /\ Cardinality(adding) \in Nat
    BY <2>1, FS_CardinalityType
  <2>3. ~shutdown
    BY DEF IndInv, TypeOK, vars, Next, WorkerStep, AddStep, Test, Wait, Pop,
           Start, Finish, AddSignal, AddAppend, DestroyStep, DestroyBegin,
           DestroySignal, DestroyJoin, DestroyReturn
  <2>4. Sum = Len(order) - taken
    BY <2>3 DEF WakeUps, Popping
  <2> SUFFICES Sum' = Len(order') - taken'
    BY DEF WakeUps, Popping
  <2>5. ASSUME NEW a \in Adders, NEW j \in Jobs, AddAppend(a, j)
        PROVE  Sum' = Len(order') - taken'
    <3>1. Cardinality(adding') = Cardinality(adding) + 1
      BY <2>1, <2>5, FS_AddElement DEF AddAppend
    <3>2. tokens' = tokens /\ Popping' = Popping /\ taken' = taken
          /\ Len(order') = Len(order) + 1
      BY <2>1, <2>5 DEF AddAppend, Popping
    <3> QED
      BY <2>1, <2>2, <2>4, <3>1, <3>2
  <2>6. ASSUME NEW a \in Adders, AddSignal(a)
        PROVE  Sum' = Len(order') - taken'
    <3>1. Cardinality(adding') = Cardinality(adding) - 1
      BY <2>1, <2>6, FS_RemoveElement DEF AddSignal
    <3>2. tokens' = tokens + 1 /\ Popping' = Popping /\ taken' = taken
          /\ order' = order
      BY <2>6 DEF AddSignal, Signalled, Popping
    <3> QED
      BY <2>1, <2>2, <2>4, <3>1, <3>2
  <2>7. ASSUME NEW w \in Workers, Wait(w)
        PROVE  Sum' = Len(order') - taken'
    <3>1. Cardinality(Popping') = Cardinality(Popping) + 1
      BY <2>1, <2>7, PoppingCount DEF Wait, WorkerPc
    <3>2. tokens' = tokens - 1 /\ UNCHANGED <<adding, taken, order>>
      BY <2>7 DEF Wait
    <3> QED
      BY <2>1, <2>2, <2>4, <3>1, <3>2
  <2>8. ASSUME NEW w \in Workers, Pop(w)
        PROVE  Sum' = Len(order') - taken'
    <3>1. Cardinality(Popping') = Cardinality(Popping) - 1
      BY <2>1, <2>8, PoppingCount DEF Pop, WorkerPc
    <3>2. taken < Len(order)
      <4>1. w \in Popping
        BY <2>8 DEF Pop, Popping
      <4>2. Cardinality(Popping) # 0
        BY <2>1, <4>1, FS_EmptySet
      <4> QED
        BY <2>1, <2>2, <2>4, <4>2
    <3>3. first # NoJob
      BY <2>1, <3>2, PoolAssumption DEF IndInv, LinkedInOrder
    <3>4. taken' = taken + 1 /\ UNCHANGED <<tokens, adding, order>>
      BY <2>8, <3>3 DEF Pop
    <3> QED
      BY <2>1, <2>2, <2>4, <3>1, <3>4
  <2>9. ASSUME NEW w \in Workers, Test(w) \/ Start(w) \/ Finish(w)
        PROVE  Sum' = Len(order') - taken'
    <3>1. UNCHANGED <<tokens, adding, order, taken>>
      BY <2>9 DEF Test, Start, Finish
    <3>2. Popping' = Popping
      <4>1. \E l \in WorkerPc : Goto(w, l) /\ pc[w] # "pop" /\ l # "pop"
        BY <2>9 DEF Test, Start, Finish, WorkerPc
      <4> QED
        BY <2>1, <4>1, PoppingCount
    <3> QED
      BY <2>4, <3>1, <3>2
  <2>10. CASE DestroyStep \/ UNCHANGED vars
    <3>1. owner = "alive"
      BY <2>3 DEF IndInv, OwnerInv
    <3>2. UNCHANGED vars
      BY <2>10, <3>1 DEF DestroyStep, DestroyBegin, DestroySignal,
                         DestroyJoin, DestroyReturn
    <3> QED
      BY <2>4, <3>2 DEF vars, Popping
  <2> QED
    BY <2>5, <2>6, <2>7, <2>8, <2>9, <2>10 DEF Next, WorkerStep, AddStep
<1> QED
  BY <1>1, <1>2, Invariance, PTL DEF Spec

-----------------------------------------------------------------------------
(* The pool implements a JobQueue: jobs leave the list in the order of     *)
(* their calls of Add, and each of them runs once, from beginning to end.  *)
THEOREM Refinement == Spec => QueueSpec
<1>1. Init => Abstract!Init
  BY DEF Init, Abstract!Init
<1>2. IndInv /\ [Next]_vars
        => [Abstract!Next]_<<order, taken, status>>
  <2> SUFFICES ASSUME IndInv, [Next]_vars
               PROVE  [Abstract!Next]_<<order, taken, status>>
    OBVIOUS
  <2>1. ASSUME NEW a \in Adders, NEW j \in Jobs, AddAppend(a, j)
        PROVE  Abstract!Submit(j)
    BY <2>1 DEF AddAppend, Abstract!Submit, Queued, Abstract!Queued
  <2>2. ASSUME NEW w \in Workers, Pop(w)
        PROVE  Abstract!Take \/ UNCHANGED <<order, taken, status>>
    BY <2>2, PoolAssumption
       DEF Pop, Abstract!Take, IndInv, LinkedInOrder, TypeOK
  <2>3. ASSUME NEW w \in Workers, Start(w)
        PROVE  job[w] \in Jobs /\ Abstract!Start(job[w])
    BY <2>3 DEF Start, Abstract!Start, Taken, Abstract!Taken, IndInv, Holding,
                TypeOK, NullOrJob
  <2>4. ASSUME NEW w \in Workers, Finish(w)
        PROVE  job[w] \in Jobs /\ Abstract!Finish(job[w])
    BY <2>4 DEF Finish, Abstract!Finish, IndInv, Holding, TypeOK, NullOrJob
  <2>5. CASE \/ \E w \in Workers : Test(w) \/ Wait(w)
             \/ \E a \in Adders : AddSignal(a)
             \/ DestroyStep
             \/ UNCHANGED vars
    BY <2>5 DEF Test, Wait, AddSignal, DestroyStep, DestroyBegin,
                DestroySignal, DestroyJoin, DestroyReturn, vars
  <2> QED
    BY <2>1, <2>2, <2>3, <2>4, <2>5
       DEF Next, WorkerStep, AddStep, Abstract!Next
<1> QED
  BY <1>1, <1>2, Invariance, PTL DEF Spec, QueueSpec, Abstract!Spec
=============================================================================

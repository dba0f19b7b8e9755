---------------------------- MODULE DbPoolProofs ----------------------------
(***************************************************************************)
(* The database pool loses no rank its backup has taken, takes requests in *)
(* turn and implements a RequestLog: for every size of the ring, any       *)
(* requests and any faults, as long as the ring is never full (Spare) and, *)
(* where a theorem says so, no insert into the backup fails (Kept).        *)
(*                                                                         *)
(* The inductive invariant IndInv ties every slot of the ring to the       *)
(* counters of the two threads, the semaphores to those counters, and the  *)
(* worker's place to what it knows of its request.  It says nothing of the *)
(* rows of the backup database and so holds beside the daily import too;   *)
(* Rows says what becomes of them without the import, ImportInv with it.   *)
(***************************************************************************)
EXTENDS DbImport, TLAPS

(* The ring always has a free slot. *)
Spare == MaxOutstanding < RingSize

(* Inserts into the backup database do not fail. *)
Kept == "backup" \notin Faults

Stored == mainRows \cup backupRows \cup movedRows

(* The ring holds the requests the worker has not taken, each in its slot. *)
Places ==
  /\ \A n \in worker.num .. Len(log) : ring[Slot(n)] = n
  /\ \A s \in Slots : ring[s] # 0 => /\ ring[s] \in worker.num .. Len(log)
                                     /\ Slot(ring[s]) = s

(* Where the threads are, and the requests they have. *)
Turn ==
  /\ worker.num <= backup.num
  /\ backup.num <= Len(log) + 1
  /\ Len(log) - (worker.num - 1) <= MaxOutstanding
  /\ backup.pc = "exec" => backup.req = backup.num /\ backup.num <= Len(log)
  /\ backup.pc = "exited" => backup.num = Len(log) + 1 /\ main # "running"
  /\ worker.pc \in {"test", "wait", "exited"} <=> worker.req = 0
  /\ worker.req # 0 => worker.req = worker.num - 1
  /\ Len(answers) = worker.num - 1 - (IF worker.req = 0 THEN 0 ELSE 1)

(* A semaphore counts what its thread has not waited for.  OnShutdown      *)
(* signals the backup thread once more, and that one the worker.           *)
Closing == IF main = "running" THEN 0 ELSE 1
Looking == IF backup.pc = "wait" THEN 0 ELSE 1
BackupEnd == IF backup.pc = "exited" THEN 1 ELSE 0
WorkerEnd == IF worker.pc = "exited" THEN 1 ELSE 0

BackupCount == numBackup = Len(log) + Closing - (backup.num - 1) - Looking

WorkerCount ==
  numWorker = (backup.num - 1) + BackupEnd - (worker.num - 1) - WorkerEnd

(* What the worker knows of its request when it comes to the backup rows. *)
Attempt ==
  /\ worker.pc = "remove" => worker.req \in mainRows
  /\ worker.pc \in {"remove", "move", "drop"} => log[worker.req] = "write"
  /\ worker.pc \in {"move", "drop"} => worker.conn

(* A backup database was registered before request n. *)
Before(n) == \E k \in 1 .. (n - 1) : log[k] = "addBackup"

Connections ==
  /\ backup.conn <=> Before(backup.num)
  /\ worker.conn => Before(worker.num)

IndInv ==
  /\ TypeOK
  /\ Places
  /\ Turn
  /\ BackupCount
  /\ WorkerCount
  /\ Attempt
  /\ Connections

-----------------------------------------------------------------------------
(* Division with remainder by RingSize. *)
LEMMA SlotFacts ==
  ASSUME NEW n \in Nat \ {0}
  PROVE  /\ Slot(n) \in Slots
         /\ (n - 1) \div RingSize \in Int
         /\ n - 1 = RingSize * ((n - 1) \div RingSize) + Slot(n)
BY RingAssumption DEF Slot, Slots

(* Requests less than a round apart have different slots. *)
LEMMA SlotsDiffer ==
  ASSUME NEW m \in Nat \ {0}, NEW n \in Nat \ {0}, m < n, n - m < RingSize
  PROVE  Slot(m) # Slot(n)
<1> DEFINE d == (m - 1) \div RingSize
           e == (n - 1) \div RingSize
<1>1. /\ Slot(m) \in Int /\ Slot(n) \in Int /\ d \in Int /\ e \in Int
      /\ m - 1 = RingSize * d + Slot(m)
      /\ n - 1 = RingSize * e + Slot(n)
  BY SlotFacts DEF Slots
<1> HIDE DEF d, e
<1> SUFFICES ASSUME Slot(m) = Slot(n) PROVE FALSE
  OBVIOUS
<1>2. RingSize * (e - d) = n - m
  <2>1. RingSize * (e - d) = RingSize * e - RingSize * d
    BY <1>1, RingAssumption
  <2>2. RingSize * d \in Int /\ RingSize * e \in Int
    BY <1>1, RingAssumption
  <2> QED BY <1>1, <2>1, <2>2
<1>3. ~ (e - d >= 1)
  <2>1. ASSUME e - d >= 1 PROVE RingSize * (e - d) >= RingSize
    BY <2>1, <1>1, RingAssumption
  <2> QED BY <1>1, <1>2, <2>1, RingAssumption
<1>4. ~ (e - d <= 0)
  <2>1. ASSUME e - d <= 0 PROVE RingSize * (e - d) <= 0
    BY <2>1, <1>1, RingAssumption
  <2> QED BY <1>1, <1>2, <2>1
<1> QED BY <1>1, <1>3, <1>4

(* What a thread finds in the slot of a request it may look at. *)
LEMMA FoundInSlot ==
  ASSUME IndInv, Spare, NEW n \in worker.num .. Len(log) + 1
  PROVE  ring[Slot(n)] = IF n <= Len(log) THEN n ELSE 0
<1>1. /\ worker.num \in Nat \ {0} /\ Len(log) \in Nat /\ n \in Nat \ {0}
      /\ Len(log) - (worker.num - 1) <= MaxOutstanding
      /\ MaxOutstanding \in Nat /\ RingSize \in Nat
  BY RingAssumption DEF IndInv, TypeOK, WorkerStates, Turn
<1>2. CASE n <= Len(log)
  BY <1>1, <1>2 DEF IndInv, Places
<1>3. CASE n = Len(log) + 1
  <2>1. Slot(n) \in Slots
    BY <1>1, SlotFacts
  <2>2. ASSUME ring[Slot(n)] # 0 PROVE FALSE
    <3>1. PICK m \in worker.num .. Len(log) : m = ring[Slot(n)] /\ Slot(m) = Slot(n)
      BY <2>1, <2>2 DEF IndInv, Places
    <3>2. m \in Nat \ {0} /\ m < n /\ n - m < RingSize
      BY <1>1, <1>3 DEF Spare
    <3> QED BY <1>1, <3>1, <3>2, SlotsDiffer
  <2> QED BY <1>1, <1>3, <2>2
<1> QED BY <1>1, <1>2, <1>3

(* The types of the threads depend on nothing but the log. *)
LEMMA SameStates ==
  ASSUME UNCHANGED log
  PROVE  BackupStates' = BackupStates /\ WorkerStates' = WorkerStates
BY DEF BackupStates, WorkerStates

-----------------------------------------------------------------------------
LEMMA InitInv == Init => IndInv
<1> SUFFICES ASSUME Init PROVE IndInv
  OBVIOUS
<1> USE RingAssumption DEF Init
<1>1. TypeOK
  <2>1. log \in Seq(Kinds) /\ answers \in Seq(BOOLEAN) /\ Len(log) = 0
    OBVIOUS
  <2>2. ring \in [Slots -> 0 .. Len(log)]
    BY <2>1
  <2>3. backup \in BackupStates /\ worker \in WorkerStates /\ RowsOK
    BY <2>1 DEF BackupStates, WorkerStates, RowsOK
  <2> QED BY <2>1, <2>2, <2>3 DEF TypeOK
<1>2. Places
  BY DEF Places
<1>3. Turn /\ BackupCount /\ WorkerCount
  BY DEF Turn, BackupCount, WorkerCount, Closing, Looking, BackupEnd, WorkerEnd
<1>4. Attempt /\ Connections
  BY DEF Attempt, Connections, Before
<1> QED BY <1>1, <1>2, <1>3, <1>4 DEF IndInv

(* A request is put into a slot that was free. *)
LEMMA InsertInv ==
  ASSUME IndInv, Spare, NEW k \in Kinds, Insert(k)
  PROVE  IndInv'
<1> USE DEF Insert, rows
<1>1. /\ log' \in Seq(Kinds) /\ Len(log') = Len(log) + 1 /\ Len(log) \in Nat
      /\ log'[Len(log) + 1] = k
      /\ \A n \in 1 .. Len(log) : log'[n] = log[n]
  BY DEF IndInv, TypeOK, BackupStates, WorkerStates, RowsOK
<1>2. /\ worker.num \in Nat \ {0} /\ backup.num \in Nat \ {0}
      /\ worker' = worker /\ backup' = backup
      /\ MaxOutstanding \in Nat /\ RingSize \in Nat
      /\ Len(log) - (worker.num - 1) < MaxOutstanding
  BY RingAssumption DEF IndInv, TypeOK, BackupStates, WorkerStates, Outstanding
<1>3. /\ Slot(Len(log) + 1) \in Slots
      /\ ring' \in [Slots -> 0 .. Len(log) + 1]
      /\ ring'[Slot(Len(log) + 1)] = Len(log) + 1
      /\ \A s \in Slots : s # Slot(Len(log) + 1) => ring'[s] = ring[s]
  BY <1>1, SlotFacts DEF IndInv, TypeOK
<1>4. TypeOK'
  <2>1. backup' \in BackupStates' /\ worker' \in WorkerStates'
    BY <1>1 DEF IndInv, TypeOK, BackupStates, WorkerStates
  <2>2. numBackup' \in Nat /\ numWorker' \in Nat
    BY DEF IndInv, TypeOK
  <2>3. RowsOK'
    BY <1>1 DEF IndInv, TypeOK, RowsOK
  <2> QED BY <1>1, <1>3, <2>1, <2>2, <2>3 DEF IndInv, TypeOK
<1>5. Places'
  <2>1. \A n \in worker.num .. Len(log) :
          n \in Nat \ {0} /\ Slot(n) \in Slots /\ Slot(n) # Slot(Len(log) + 1)
    BY <1>1, <1>2, SlotFacts, SlotsDiffer DEF Spare
  <2>2. \A n \in worker.num .. Len(log') : ring'[Slot(n)] = n
    BY <1>1, <1>2, <1>3, <2>1 DEF IndInv, Places
  <2>3. \A s \in Slots : ring'[s] # 0 => /\ ring'[s] \in worker.num .. Len(log')
                                         /\ Slot(ring'[s]) = s
    BY <1>1, <1>2, <1>3 DEF IndInv, Places, Turn
  <2> QED BY <1>2, <2>2, <2>3 DEF Places, Slot, Slots
<1>6. Turn'
  BY <1>1, <1>2 DEF IndInv, Turn
<1>7. BackupCount'
  <2>1. numBackup \in Nat /\ numBackup' = numBackup + 1 /\ main' = main
        /\ backup.num \in Nat /\ backup' = backup
    BY DEF IndInv, TypeOK, BackupStates, WorkerStates, RowsOK
  <2>2. Closing' = Closing /\ Closing \in Int /\ Looking' = Looking /\ Looking \in Int
    BY <2>1 DEF Closing, Looking
  <2>3. Len(log') = Len(log) + 1 /\ Len(log) \in Nat
    BY <1>1
  <2> HIDE DEF Insert
  <2> QED BY <2>1, <2>2, <2>3 DEF IndInv, BackupCount
<1>8. WorkerCount'
  BY <1>2 DEF IndInv, WorkerCount, BackupEnd, WorkerEnd
<1>9. Attempt'
  BY <1>1 DEF IndInv, Attempt, TypeOK, BackupStates, WorkerStates, RowsOK, Turn
<1>10. Connections'
  <2>1. backup.num - 1 <= Len(log) /\ worker.num - 1 <= Len(log)
    BY <1>1, <1>2 DEF IndInv, Turn
  <2> QED BY <1>1, <1>2, <2>1 DEF IndInv, Connections, Before
<1> QED BY <1>4, <1>5, <1>6, <1>7, <1>8, <1>9, <1>10 DEF IndInv

(* The steps of OnShutdown and of the destructor. *)
LEMMA ShutdownInv ==
  ASSUME IndInv, ShutdownBegin \/ ShutdownReturn \/ Destroyed
  PROVE  IndInv'
<1> USE DEF ShutdownBegin, ShutdownReturn, Destroyed, rows
<1>1. /\ UNCHANGED <<ring, log, numWorker, backup, worker, answers>>
      /\ UNCHANGED <<mainRows, backupRows, movedRows, saved>>
      /\ main' # "running"
  OBVIOUS
<1>2. TypeOK'
  <2>1. backup' \in BackupStates' /\ worker' \in WorkerStates' /\ RowsOK'
    BY <1>1 DEF IndInv, TypeOK, BackupStates, WorkerStates, RowsOK
  <2>2. main' \in {"running", "waiting", "joining", "gone"}
    BY Zenon
  <2>3. numBackup' \in Nat
    BY DEF IndInv, TypeOK
  <2>4. shutdown' \in BOOLEAN
    BY Zenon DEF IndInv, TypeOK
  <2> QED BY <1>1, <2>1, <2>2, <2>3, <2>4 DEF IndInv, TypeOK
<1>3. Places' /\ Turn' /\ WorkerCount'
  BY <1>1 DEF IndInv, Places, Turn, WorkerCount, BackupEnd, WorkerEnd, Slots, Slot
<1>4. BackupCount'
  <2>1. CASE ShutdownBegin
    <3>1. Closing = 0 /\ Closing' = 1
      BY <2>1 DEF Closing
    <3>2. numBackup' = numBackup + 1 /\ numBackup \in Nat /\ Len(log) \in Nat
          /\ backup.num \in Nat
      BY <2>1 DEF IndInv, TypeOK, BackupStates, WorkerStates, RowsOK
    <3>3. Looking' = Looking /\ Looking \in Int
      BY <1>1 DEF Looking
    <3> HIDE DEF ShutdownBegin, ShutdownReturn, Destroyed
    <3>4. log' = log /\ backup' = backup
      BY <1>1
    <3> QED BY <3>1, <3>2, <3>3, <3>4 DEF IndInv, BackupCount
  <2>2. CASE ShutdownReturn \/ Destroyed
    BY <1>1, <2>2 DEF IndInv, BackupCount, Closing, Looking
  <2> QED BY <2>1, <2>2
<1>5. Attempt' /\ Connections'
  BY <1>1 DEF IndInv, Attempt, Connections, Before
<1> QED BY <1>2, <1>3, <1>4, <1>5 DEF IndInv

(* The backup thread finds the request whose turn it is, or none after the *)
(* last, and none only when the server shuts down.                         *)
LEMMA BackupFetchInv ==
  ASSUME IndInv, Spare, BackupFetch
  PROVE  IndInv'
<1> USE DEF BackupFetch, rows
<1>1. /\ UNCHANGED <<ring, log, main, worker, answers>>
      /\ UNCHANGED <<mainRows, backupRows, movedRows, saved>>
      /\ backup.pc = "wait" /\ numBackup > 0 /\ numBackup' = numBackup - 1
  OBVIOUS
<1>2. /\ backup.num \in worker.num .. Len(log) + 1
      /\ backup.num \in Nat \ {0} /\ Len(log) \in Nat /\ worker.num \in Nat \ {0}
  BY DEF IndInv, TypeOK, BackupStates, WorkerStates, Turn
<1>3. ring[Slot(backup.num)] = IF backup.num <= Len(log) THEN backup.num ELSE 0
  BY <1>2, FoundInSlot
<1>4. /\ backup'.num = backup.num /\ backup'.conn = backup.conn
      /\ backup'.pc = IF backup.num <= Len(log) THEN "exec" ELSE "exited"
      /\ backup.num <= Len(log) => backup'.req = backup.num
  BY <1>2, <1>3 DEF IndInv, TypeOK, BackupStates
<1>5. backup.num > Len(log) => main # "running"
  <2> SUFFICES ASSUME main = "running", backup.num > Len(log) PROVE FALSE
    OBVIOUS
  <2>1. Closing = 0 /\ Looking = 0
    BY <1>1 DEF Closing, Looking
  <2>2. numBackup \in Nat /\ numBackup > 0
    BY <1>1 DEF IndInv, TypeOK
  <2> HIDE DEF BackupFetch
  <2> QED BY <1>2, <2>1, <2>2 DEF IndInv, BackupCount
<1>6. TypeOK'
  <2>1. backup \in BackupStates /\ Len(log') = Len(log) /\ Len(log) \in Nat
    BY <1>1, <1>2 DEF IndInv, TypeOK
  <2>2. backup' \in BackupStates'
    <3> HIDE DEF BackupFetch
    <3>1. CASE backup.num <= Len(log)
      <4>1. backup' = [backup EXCEPT !.pc = "exec", !.req = backup.num]
        BY <1>2, <1>3, <3>1 DEF BackupFetch
      <4>2. backup.num \in 0 .. Len(log)
        BY <1>2, <3>1
      <4>3. backup' \in BackupStates
        BY <2>1, <4>1, <4>2 DEF BackupStates
      <4> QED BY <1>1, <4>3, SameStates
    <3>2. CASE backup.num > Len(log)
      <4>1. backup' = [backup EXCEPT !.pc = "exited"]
        BY <1>2, <1>3, <3>2 DEF BackupFetch
      <4>2. backup' \in BackupStates
        BY <2>1, <4>1 DEF BackupStates
      <4> QED BY <1>1, <4>2, SameStates
    <3> QED BY <1>2, <3>1, <3>2
  <2>3. worker' \in WorkerStates' /\ RowsOK'
    BY <1>1 DEF IndInv, TypeOK, WorkerStates, RowsOK
  <2>4. numBackup' \in Nat /\ numWorker' \in Nat /\ UNCHANGED shutdown
    BY <1>1 DEF IndInv, TypeOK
  <2> QED BY <1>1, <2>2, <2>3, <2>4 DEF IndInv, TypeOK
<1>7. Places'
  BY <1>1 DEF IndInv, Places, Slots, Slot
<1>8. Turn'
  BY <1>1, <1>2, <1>4, <1>5 DEF IndInv, Turn
<1>9. BackupCount'
  <2>1. Looking = 0 /\ Looking' = 1 /\ Closing' = Closing /\ Closing \in Int
    BY <1>1, <1>4 DEF Closing, Looking
  <2>2. numBackup \in Nat
    BY DEF IndInv, TypeOK
  <2>3. /\ backup.num \in Nat /\ Len(log) \in Nat /\ log' = log
        /\ numBackup' = numBackup - 1 /\ backup'.num = backup.num
    BY <1>1, <1>2, <1>4
  <2> HIDE DEF BackupFetch
  <2> QED BY <2>1, <2>2, <2>3 DEF IndInv, BackupCount
<1>10. WorkerCount'
  <2>1. /\ BackupEnd = 0 /\ WorkerEnd' = WorkerEnd /\ WorkerEnd \in Int
        /\ BackupEnd' = IF backup.num <= Len(log) THEN 0 ELSE 1
    BY <1>1, <1>4 DEF BackupEnd, WorkerEnd
  <2>2. /\ numWorker \in Nat
        /\ numWorker' = IF backup.num <= Len(log) THEN numWorker ELSE numWorker + 1
    BY <1>2, <1>3 DEF IndInv, TypeOK, BackupStates
  <2>3. BackupEnd' \in Int /\ numWorker' = numWorker + BackupEnd'
    <3>1. CASE backup.num <= Len(log)
      BY <2>1, <2>2, <3>1
    <3>2. CASE ~(backup.num <= Len(log))
      BY <2>1, <2>2, <3>2
    <3> QED BY <3>1, <3>2
  <2>4. /\ backup.num \in Nat /\ backup'.num = backup.num
        /\ worker.num \in Nat /\ worker' = worker
    BY <1>1, <1>2, <1>4
  <2>5. numWorker = (backup.num - 1) - (worker.num - 1) - WorkerEnd
    <3> HIDE DEF BackupFetch
    <3> QED BY <2>1, <2>2, <2>4 DEF IndInv, WorkerCount
  <2> HIDE DEF BackupFetch
  <2> QED BY <2>1, <2>2, <2>3, <2>4, <2>5 DEF WorkerCount
<1>11. Attempt' /\ Connections'
  BY <1>1, <1>4 DEF IndInv, Attempt, Connections, Before
<1> QED BY <1>6, <1>7, <1>8, <1>9, <1>10, <1>11 DEF IndInv

(* The backup thread stores the write it looks at, which the worker does   *)
(* not have yet.                                                           *)
LEMMA BackupExecInv ==
  ASSUME IndInv, BackupExec
  PROVE  IndInv'
<1> USE DEF BackupExec, NextBackup
<1>1. /\ UNCHANGED <<ring, log, main, numBackup, worker, answers, mainRows, movedRows>>
      /\ backup.pc = "exec" /\ numWorker' = numWorker + 1
  OBVIOUS
<1>2. /\ backup.num \in Nat \ {0} /\ Len(log) \in Nat /\ worker.num \in Nat \ {0}
      /\ worker.num <= backup.num /\ backup.num <= Len(log)
      /\ backup.req = backup.num
  BY DEF IndInv, TypeOK, BackupStates, WorkerStates, Turn
<1>3. /\ backup'.pc = "wait" /\ backup'.num = backup.num + 1
      /\ backup'.conn = (backup.conn \/ log[backup.num] = "addBackup")
  BY <1>2 DEF IndInv, TypeOK, BackupStates
<1>4. \/ UNCHANGED <<backupRows, saved>>
      \/ /\ log[backup.num] = "write"
         /\ backupRows' = backupRows \cup {backup.num}
         /\ saved' = saved \cup {backup.num}
  BY <1>2 DEF StoresBackup, StoreBackup
<1>5. TypeOK'
  <2>1. backup' \in BackupStates'
    <3> DEFINE conn == backup.conn \/ log[backup.req] = "addBackup"
    <3>1. conn \in BOOLEAN
      BY Zenon
    <3>2. backup' = [backup EXCEPT !.pc = "wait", !.num = @ + 1, !.req = 0, !.conn = conn]
      OBVIOUS
    <3>3. /\ backup \in BackupStates /\ Len(log) \in Nat
          /\ backup.num + 1 \in Nat \ {0}
      BY <1>2 DEF IndInv, TypeOK
    <3> HIDE DEF conn, BackupExec
    <3>4. backup' \in BackupStates
      <4> DEFINE next == backup.num + 1
      <4>1. backup' = [backup EXCEPT !.pc = "wait", !.num = next, !.req = 0, !.conn = conn]
        BY <3>2
      <4>2. next \in Nat \ {0} /\ 0 \in 0 .. Len(log)
        BY <3>3
      <4> HIDE DEF next
      <4> QED BY <3>1, <3>3, <4>1, <4>2 DEF BackupStates
    <3> QED BY <1>1, <3>4, SameStates
  <2>2. worker' \in WorkerStates'
    BY <1>1 DEF IndInv, TypeOK, WorkerStates
  <2>3. RowsOK'
    BY <1>1, <1>2, <1>4 DEF IndInv, TypeOK, RowsOK
  <2>4. numWorker' \in Nat /\ UNCHANGED shutdown
    BY DEF IndInv, TypeOK
  <2> QED BY <1>1, <2>1, <2>2, <2>3, <2>4 DEF IndInv, TypeOK
<1>6. Places'
  BY <1>1 DEF IndInv, Places, Slots, Slot
<1>7. Turn'
  BY <1>1, <1>2, <1>3 DEF IndInv, Turn
<1>8. BackupCount'
  <2>1. Looking = 1 /\ Looking' = 0 /\ Closing' = Closing /\ Closing \in Int
    BY <1>1, <1>3 DEF Closing, Looking
  <2>2. numBackup \in Nat
    BY DEF IndInv, TypeOK
  <2>3. /\ backup.num \in Nat /\ Len(log) \in Nat /\ log' = log
        /\ numBackup' = numBackup /\ backup'.num = backup.num + 1
    BY <1>1, <1>2, <1>3
  <2> HIDE DEF BackupExec
  <2> QED BY <2>1, <2>2, <2>3 DEF IndInv, BackupCount
<1>9. WorkerCount'
  <2>1. BackupEnd = 0 /\ BackupEnd' = 0 /\ WorkerEnd' = WorkerEnd /\ WorkerEnd \in Int
    BY <1>1, <1>3 DEF BackupEnd, WorkerEnd
  <2>2. numWorker \in Nat
    BY DEF IndInv, TypeOK
  <2>3. /\ backup.num \in Nat /\ worker.num \in Nat /\ worker' = worker
        /\ numWorker' = numWorker + 1 /\ backup'.num = backup.num + 1
    BY <1>1, <1>2, <1>3
  <2> HIDE DEF BackupExec
  <2> QED BY <2>1, <2>2, <2>3 DEF IndInv, WorkerCount
<1>10. Attempt'
  <2>1. worker.req # backup.num
    BY <1>2 DEF IndInv, Turn
  <2> HIDE DEF BackupExec
  <2> QED BY <1>1, <1>4, <2>1 DEF IndInv, Attempt
<1>11. Connections'
  <2>1. Before(backup.num + 1) <=> Before(backup.num) \/ log[backup.num] = "addBackup"
    BY <1>2 DEF Before
  <2>2. Connections
    BY DEF IndInv
  <2>3. /\ Before(worker.num)' <=> Before(worker.num)
        /\ Before(backup.num)' <=> Before(backup.num + 1)
    BY <1>1, <1>3 DEF Before
  <2> QED BY <1>1, <1>3, <2>1, <2>2, <2>3 DEF Connections
<1> QED BY <1>5, <1>6, <1>7, <1>8, <1>9, <1>10, <1>11 DEF IndInv

-----------------------------------------------------------------------------
(* The worker goes on with the request it has: the ring, the semaphores    *)
(* and the other thread do not notice.                                     *)
Within ==
  /\ UNCHANGED <<ring, log, main, shutdown, numBackup, numWorker, backup, answers>>
  /\ worker'.num = worker.num
  /\ worker'.req = worker.req
  /\ worker.pc # "exited"
  /\ worker'.pc # "exited"
  /\ worker.pc \in {"test", "wait"} <=> worker'.pc \in {"test", "wait"}

LEMMA WithinInv ==
  ASSUME IndInv, Within
  PROVE  /\ Places' /\ Turn' /\ BackupCount' /\ WorkerCount'
         /\ (worker' \in WorkerStates /\ RowsOK' => TypeOK')
         /\ (worker'.conn => worker.conn) => Connections'
<1>1. Places'
  BY DEF Within, IndInv, Places, Slots, Slot
<1>2. Turn'
  BY DEF Within, IndInv, Turn
<1>3. BackupCount' /\ WorkerCount'
  BY DEF Within, IndInv, BackupCount, WorkerCount, Closing, Looking, BackupEnd, WorkerEnd
<1>4. (worker'.conn => worker.conn) => Connections'
  BY DEF Within, IndInv, Connections, Before
<1>5. worker' \in WorkerStates /\ RowsOK' => TypeOK'
  <2>1. UNCHANGED log
    BY DEF Within
  <2>2. UNCHANGED <<ring, log, main, shutdown, numBackup, numWorker, backup, answers>>
    BY DEF Within
  <2>3. TypeOK
    BY DEF IndInv
  <2> QED BY <2>1, <2>2, <2>3, SameStates DEF TypeOK, Slots
<1> QED BY <1>1, <1>2, <1>3, <1>4, <1>5

(* What the fields of the worker are after Continue. *)
LEMMA ContinueFacts ==
  ASSUME worker \in WorkerStates, NEW ok \in BOOLEAN, NEW fm \in BOOLEAN,
         NEW l \in {"drop", "remove", "move", "report"}, Continue(l, ok, fm)
  PROVE  /\ worker' \in WorkerStates
         /\ worker'.pc = l /\ worker'.num = worker.num /\ worker'.req = worker.req
         /\ worker'.success = ok /\ worker'.conn = worker.conn
BY DEF Continue, WorkerStates

(* Steps of the worker that touch no table. *)
LEMMA WorkerQuietInv ==
  ASSUME IndInv, WorkerTest \/ WorkerAdd \/ WorkerRead
  PROVE  IndInv'
<1> USE DEF rows
<1>1. worker \in WorkerStates
  BY DEF IndInv, TypeOK
<1>2. UNCHANGED <<log, mainRows, backupRows, movedRows, saved>>
  BY DEF WorkerTest, WorkerAdd, WorkerRead
<1>3. RowsOK'
  BY <1>2 DEF IndInv, TypeOK, RowsOK
<1>4. CASE WorkerTest
  <2>1. worker' \in WorkerStates
    <3> DEFINE fm == worker.failMode /\ numWorker # 0
    <3>1. fm \in BOOLEAN /\ worker' = [worker EXCEPT !.pc = "wait", !.failMode = fm]
      BY <1>4 DEF WorkerTest
    <3> HIDE DEF fm
    <3> QED BY <1>1, <3>1 DEF WorkerStates
  <2>2. Within /\ worker'.conn = worker.conn /\ worker'.pc = "wait"
    BY <1>1, <1>4 DEF WorkerTest, Within, WorkerStates
  <2>3. Attempt'
    BY <1>2, <2>2 DEF IndInv, Attempt
  <2> QED BY <1>3, <2>1, <2>2, <2>3, WithinInv DEF IndInv
<1>5. CASE WorkerAdd
  <2> DEFINE k == log[worker.req]
             reads == worker.reads \/ k = "addRead"
             write == worker.write \/ k = "addWrite"
             conn == worker.conn \/ k = "addBackup"
  <2>1. /\ reads \in BOOLEAN /\ write \in BOOLEAN /\ conn \in BOOLEAN
        /\ worker' = [worker EXCEPT !.pc = "report", !.success = TRUE, !.reads = reads,
                                    !.write = write, !.conn = conn]
    BY <1>5 DEF WorkerAdd
  <2>2. worker' \in WorkerStates /\ worker'.pc = "report" /\ worker'.conn = conn
        /\ worker'.num = worker.num /\ worker'.req = worker.req
    <3> HIDE DEF reads, write, conn
    <3> QED BY <1>1, <2>1 DEF WorkerStates
  <2>3. Within
    BY <1>5, <2>2 DEF WorkerAdd, Within
  <2>4. Attempt'
    BY <1>2, <2>2 DEF IndInv, Attempt
  <2>5. Connections'
    <3>1. CASE worker'.conn => worker.conn
      BY <3>1, <2>3, WithinInv
    <3>2. CASE log[worker.req] = "addBackup"
      <4>1. worker.req = worker.num - 1 /\ worker.num \in Nat \ {0} /\ worker.req # 0
            /\ worker.req \in Nat
        BY <1>1, <1>5 DEF IndInv, Turn, WorkerAdd, WorkerStates
      <4>2. Before(worker.num)'
        BY <2>3, <3>2, <4>1 DEF Before, Within
      <4>3. backup.conn' <=> Before(backup.num)'
        BY <2>3 DEF IndInv, Connections, Before, Within
      <4> QED BY <4>2, <4>3 DEF Connections
    <3> QED BY <2>2, <3>1, <3>2
  <2> QED BY <1>3, <2>2, <2>3, <2>4, <2>5, WithinInv DEF IndInv
<1>6. CASE WorkerRead
  <2>1. PICK ok \in BOOLEAN, fm \in BOOLEAN : Continue("report", ok, fm)
    <3>1. worker.failMode \in BOOLEAN
      BY <1>1 DEF WorkerStates
    <3> QED BY <1>6, <3>1 DEF WorkerRead
  <2>2. /\ worker' \in WorkerStates /\ worker'.pc = "report"
        /\ worker'.num = worker.num /\ worker'.req = worker.req
        /\ worker'.conn = worker.conn
    BY <1>1, <2>1, ContinueFacts
  <2>3. Within
    BY <1>6, <2>2 DEF WorkerRead, Within
  <2>4. Attempt'
    BY <1>2, <2>2 DEF IndInv, Attempt
  <2> QED BY <1>3, <2>2, <2>3, <2>4, WithinInv DEF IndInv
<1> QED BY <1>4, <1>5, <1>6

(* A write is tried, skipped or fails. *)
LEMMA WorkerWriteInv ==
  ASSUME IndInv, WorkerWrite
  PROVE  IndInv'
<1>1. worker \in WorkerStates
  BY DEF IndInv, TypeOK
<1>2. /\ UNCHANGED <<log, backupRows, movedRows, saved>>
      /\ worker.pc = "exec" /\ log[worker.req] = "write"
  BY DEF WorkerWrite
<1>3. /\ worker.req \in 1 .. Len(log) /\ worker.req # 0
  BY <1>1, <1>2 DEF IndInv, Turn, WorkerStates
<1>4. \/ mainRows' = mainRows \cup {worker.req}
      \/ mainRows' = mainRows
  BY DEF WorkerWrite
<1>5. PICK ok \in BOOLEAN, fm \in BOOLEAN :
        /\ Continue(AfterWrite(ok), ok, fm)
        /\ ok => mainRows' = mainRows \cup {worker.req}
  <2>1. \A ok \in BOOLEAN : (worker.failMode \/ ~ok) \in BOOLEAN
    BY <1>1 DEF WorkerStates
  <2> QED BY <2>1 DEF WorkerWrite
<1>6. AfterWrite(ok) \in {"drop", "remove", "move", "report"}
  BY DEF AfterWrite
<1>7. /\ worker' \in WorkerStates /\ worker'.pc = AfterWrite(ok)
      /\ worker'.num = worker.num /\ worker'.req = worker.req
      /\ worker'.success = ok /\ worker'.conn = worker.conn
  BY <1>1, <1>5, <1>6, ContinueFacts
<1>8. Within
  BY <1>2, <1>6, <1>7 DEF WorkerWrite, Within
<1>9. RowsOK'
  BY <1>2, <1>3, <1>4 DEF IndInv, TypeOK, RowsOK
<1>10. Attempt'
  <2>1. worker'.pc = "remove" => worker'.req \in mainRows'
    BY <1>5, <1>7 DEF AfterWrite
  <2>2. log'[worker'.req] = "write"
    BY <1>2, <1>7
  <2>3. worker'.pc \in {"move", "drop"} => worker'.conn
    BY <1>7 DEF AfterWrite
  <2> QED BY <2>1, <2>2, <2>3 DEF Attempt
<1> QED BY <1>7, <1>8, <1>9, <1>10, WithinInv DEF IndInv

(* A row is removed from the backup when the write database has it, moved  *)
(* inside the backup when not, and leaves race_backup last.                *)
LEMMA WorkerMovesInv ==
  ASSUME IndInv, WorkerRemove \/ WorkerMove \/ WorkerDrop
  PROVE  IndInv'
<1>1. worker \in WorkerStates
  BY DEF IndInv, TypeOK
<1>2. UNCHANGED <<log, mainRows, saved>>
  BY DEF WorkerRemove, WorkerMove, WorkerDrop
<1>3. PICK l \in {"drop", "report"}, ok \in BOOLEAN : Continue(l, ok, worker.failMode)
  BY <1>1 DEF WorkerRemove, WorkerMove, WorkerDrop, WorkerStates
<1>4. worker.failMode \in BOOLEAN
  BY <1>1 DEF WorkerStates
<1>5. /\ worker' \in WorkerStates /\ worker'.pc = l
      /\ worker'.num = worker.num /\ worker'.req = worker.req
      /\ worker'.conn = worker.conn
  BY <1>1, <1>3, <1>4, ContinueFacts
<1>6. Within
  BY <1>5 DEF WorkerRemove, WorkerMove, WorkerDrop, Within
<1>7. /\ worker.pc \in {"remove", "move", "drop"}
      /\ log[worker.req] = "write"
      /\ worker.req \in Int
  <2>1. worker.pc \in {"remove", "move", "drop"}
    BY DEF WorkerRemove, WorkerMove, WorkerDrop
  <2>2. worker.req \in Int
    BY <1>1 DEF WorkerStates
  <2> QED BY <2>1, <2>2 DEF IndInv, Attempt
<1>8. CASE WorkerRemove
  <2>1. /\ worker.req \in mainRows /\ movedRows' = movedRows
        /\ backupRows' = backupRows \/ backupRows' = backupRows \ {worker.req}
    BY <1>8 DEF WorkerRemove, IndInv, Attempt
  <2>2. worker'.pc = "report"
    BY <1>1, <1>8 DEF WorkerRemove, Continue, WorkerStates
  <2>3. Attempt'
    BY <1>2, <2>1, <2>2 DEF IndInv, Attempt
  <2>4. RowsOK'
    BY <1>2, <2>1 DEF IndInv, TypeOK, RowsOK
  <2> QED BY <1>5, <1>6, <2>3, <2>4, WithinInv DEF IndInv
<1>9. CASE WorkerMove
  <2>1. /\ backupRows' = backupRows /\ worker.pc = "move"
        /\ \/ movedRows' = movedRows \cup ({worker.req} \cap backupRows)
           \/ movedRows' = movedRows /\ worker'.pc # "drop"
    BY <1>1, <1>9 DEF WorkerMove, MoveRow, Continue, WorkerStates
  <2>2. Attempt'
    BY <1>2, <1>5, <1>7, <2>1 DEF IndInv, Attempt
  <2>3. RowsOK'
    BY <1>2, <2>1 DEF IndInv, TypeOK, RowsOK
  <2> QED BY <1>5, <1>6, <2>2, <2>3, WithinInv DEF IndInv
<1>10. CASE WorkerDrop
  <2>1. /\ movedRows' = movedRows /\ worker.pc = "drop" /\ worker'.pc = "report"
        /\ backupRows' = backupRows \/ backupRows' = backupRows \ {worker.req}
    BY <1>1, <1>10 DEF WorkerDrop, Continue, WorkerStates
  <2>2. Attempt'
    BY <1>2, <2>1 DEF IndInv, Attempt
  <2>3. RowsOK'
    BY <1>2, <2>1 DEF IndInv, TypeOK, RowsOK
  <2> QED BY <1>5, <1>6, <2>2, <2>3, WithinInv DEF IndInv
<1> QED BY <1>8, <1>9, <1>10

(* The worker takes the request whose turn it is, or none after the last. *)
LEMMA WorkerTakeInv ==
  ASSUME IndInv, Spare, WorkerTake
  PROVE  IndInv'
<1> USE DEF rows
<1>1. /\ worker \in WorkerStates /\ worker.num \in Nat \ {0} /\ Len(log) \in Nat
      /\ numWorker \in Nat /\ backup.num \in Nat \ {0}
      /\ MaxOutstanding \in Nat /\ RingSize \in Nat
      /\ Len(log) - (worker.num - 1) <= MaxOutstanding
      /\ worker.num <= backup.num /\ backup.num <= Len(log) + 1
  BY RingAssumption DEF IndInv, TypeOK, Turn, BackupStates, WorkerStates
<1>2. /\ UNCHANGED <<log, main, numBackup, backup, answers>>
      /\ UNCHANGED <<mainRows, backupRows, movedRows, saved>>
      /\ worker.pc = "wait" /\ numWorker > 0 /\ numWorker' = numWorker - 1
  BY DEF WorkerTake
<1>3. ring[Slot(worker.num)] = IF worker.num <= Len(log) THEN worker.num ELSE 0
  BY <1>1, FoundInSlot
<1>4. worker.req = 0 /\ Len(answers) = worker.num - 1
  BY <1>1, <1>2 DEF IndInv, Turn
<1>5. /\ Slot(worker.num) \in Slots
      /\ ring' \in [Slots -> 0 .. Len(log)]
      /\ ring'[Slot(worker.num)] = 0
      /\ \A s \in Slots : s # Slot(worker.num) => ring'[s] = ring[s]
  BY <1>1, SlotFacts DEF WorkerTake, IndInv, TypeOK
<1>6. RowsOK'
  BY <1>2 DEF IndInv, TypeOK, RowsOK
<1>7. shutdown' \in BOOLEAN
  BY Zenon DEF WorkerTake, IndInv, TypeOK
<1>8. backup' \in BackupStates' /\ WorkerStates' = WorkerStates
  BY <1>2, SameStates DEF IndInv, TypeOK
<1>9. worker' \in WorkerStates => TypeOK'
  BY <1>1, <1>2, <1>5, <1>6, <1>7, <1>8 DEF IndInv, TypeOK, Slots
<1>10. BackupCount'
  BY <1>2 DEF IndInv, BackupCount, Closing, Looking
<1>11. CASE worker.num <= Len(log)
  <2>1. worker' = [worker EXCEPT !.pc = "exec", !.num = @ + 1, !.req = worker.num,
                                 !.success = FALSE]
    BY <1>1, <1>3, <1>11 DEF WorkerTake, WorkerDone
  <2>2. /\ worker' \in WorkerStates /\ worker'.pc = "exec"
        /\ worker'.num = worker.num + 1 /\ worker'.req = worker.num
        /\ worker'.conn = worker.conn
    <3> DEFINE n == worker.num
               m == worker.num + 1
    <3>1. worker' = [worker EXCEPT !.pc = "exec", !.num = m, !.req = n, !.success = FALSE]
      BY <2>1
    <3>2. m \in Nat \ {0} /\ n \in 0 .. Len(log)
      BY <1>1, <1>11
    <3> HIDE DEF n, m
    <3>3. worker' \in WorkerStates /\ worker'.pc = "exec" /\ worker'.num = m
          /\ worker'.req = n /\ worker'.conn = worker.conn
      BY <1>1, <3>1, <3>2 DEF WorkerStates
    <3> QED BY <3>3 DEF n, m
  <2>3. Places'
    <3>1. \A n \in worker.num + 1 .. Len(log) :
            n \in Nat \ {0} /\ Slot(n) \in Slots /\ Slot(n) # Slot(worker.num)
      <4> SUFFICES ASSUME NEW n \in worker.num + 1 .. Len(log)
                   PROVE  n \in Nat \ {0} /\ Slot(n) \in Slots /\ Slot(n) # Slot(worker.num)
        OBVIOUS
      <4>1. n \in Nat \ {0} /\ worker.num < n /\ n - worker.num < RingSize
        BY <1>1 DEF Spare
      <4> QED BY <1>1, <4>1, SlotFacts, SlotsDiffer
    <3>2. \A n \in worker'.num .. Len(log') : ring'[Slot(n)] = n
      BY <1>1, <1>2, <1>5, <2>2, <3>1 DEF IndInv, Places
    <3>3. \A s \in Slots : ring'[s] # 0 => /\ ring'[s] \in worker'.num .. Len(log')
                                           /\ Slot(ring'[s]) = s
      BY <1>1, <1>2, <1>5, <2>2 DEF IndInv, Places
    <3> QED BY <3>2, <3>3 DEF Places, Slot, Slots
  <2>4. WorkerCount'
    <3>1. WorkerEnd = 0 /\ WorkerEnd' = 0 /\ BackupEnd' = BackupEnd /\ BackupEnd \in Int
      BY <1>2, <2>2 DEF WorkerEnd, BackupEnd
    <3>2. /\ worker.num \in Nat /\ backup.num \in Nat /\ numWorker \in Nat
          /\ worker'.num = worker.num + 1 /\ backup' = backup
          /\ numWorker' = numWorker - 1
      BY <1>1, <1>2, <2>2
    <3> QED BY <3>1, <3>2 DEF IndInv, WorkerCount
  <2>5. Turn'
    <3>1. worker'.num <= backup.num
      <4>1. WorkerEnd = 0
        BY <1>2 DEF WorkerEnd
      <4>2. BackupEnd = 0 \/ (BackupEnd = 1 /\ backup.num = Len(log) + 1)
        BY DEF BackupEnd, IndInv, Turn
      <4>3. /\ worker.num \in Nat /\ backup.num \in Nat /\ numWorker \in Nat
            /\ Len(log) \in Nat /\ numWorker > 0 /\ worker.num <= Len(log)
            /\ worker'.num = worker.num + 1
        BY <1>1, <1>2, <1>11, <2>2
      <4> QED BY <4>1, <4>2, <4>3 DEF IndInv, WorkerCount
    <3> QED BY <1>1, <1>2, <1>4, <2>2, <3>1 DEF IndInv, Turn
  <2>6. Attempt'
    BY <1>2, <2>2 DEF IndInv, Attempt
  <2>7. Connections'
    <3>1. Before(worker.num) => Before(worker.num + 1)
      BY <1>1 DEF Before
    <3>2. /\ Before(worker.num)' <=> Before(worker.num + 1)
          /\ Before(backup.num)' <=> Before(backup.num)
      BY <1>2, <2>2 DEF Before
    <3> QED BY <1>2, <2>2, <3>1, <3>2 DEF IndInv, Connections
  <2> QED BY <1>9, <1>10, <2>2, <2>3, <2>4, <2>5, <2>6, <2>7 DEF IndInv
<1>12. CASE worker.num > Len(log)
  <2>1. worker' = [worker EXCEPT !.pc = "exited"]
    BY <1>1, <1>3, <1>12 DEF WorkerTake, WorkerDone
  <2>2. /\ worker' \in WorkerStates /\ worker'.pc = "exited"
        /\ worker'.num = worker.num /\ worker'.req = worker.req
        /\ worker'.conn = worker.conn
    BY <1>1, <2>1 DEF WorkerStates
  <2>3. Places'
    <3>1. ring' = ring
      BY <1>1, <1>3, <1>5, <1>12 DEF IndInv, TypeOK
    <3> QED BY <1>2, <2>2, <3>1 DEF IndInv, Places, Slot, Slots
  <2>4. WorkerCount'
    <3>1. WorkerEnd = 0 /\ WorkerEnd' = 1 /\ BackupEnd' = BackupEnd /\ BackupEnd \in Int
      BY <1>2, <2>2 DEF WorkerEnd, BackupEnd
    <3>2. /\ worker.num \in Nat /\ backup.num \in Nat /\ numWorker \in Nat
          /\ worker'.num = worker.num /\ backup' = backup
          /\ numWorker' = numWorker - 1
      BY <1>1, <1>2, <2>2
    <3> QED BY <3>1, <3>2 DEF IndInv, WorkerCount
  <2>5. Turn'
    BY <1>2, <1>4, <2>2 DEF IndInv, Turn
  <2>6. Attempt'
    BY <1>2, <2>2 DEF IndInv, Attempt
  <2>7. Connections'
    BY <1>2, <2>2 DEF IndInv, Connections, Before
  <2> QED BY <1>9, <1>10, <2>2, <2>3, <2>4, <2>5, <2>6, <2>7 DEF IndInv
<1> QED BY <1>1, <1>11, <1>12

(* The answer belongs to the request the worker had. *)
LEMMA WorkerReportInv ==
  ASSUME IndInv, WorkerReport
  PROVE  IndInv'
<1> USE DEF rows
<1>1. /\ worker \in WorkerStates /\ answers \in Seq(BOOLEAN)
      /\ worker.success \in BOOLEAN /\ worker.num \in Nat \ {0}
  BY DEF IndInv, TypeOK, WorkerStates
<1>2. /\ UNCHANGED <<ring, log, main, shutdown, numBackup, numWorker, backup>>
      /\ UNCHANGED <<mainRows, backupRows, movedRows, saved>>
      /\ worker.pc = "report" /\ worker' = [worker EXCEPT !.pc = "test", !.req = 0]
  BY DEF WorkerReport
<1>3. answers' \in Seq(BOOLEAN) /\ Len(answers') = Len(answers) + 1 /\ Len(answers) \in Nat
  BY <1>1 DEF WorkerReport
<1>4. /\ worker'.pc = "test" /\ worker'.num = worker.num /\ worker'.req = 0
      /\ worker'.conn = worker.conn
  BY <1>1, <1>2 DEF WorkerStates
<1>5. TypeOK'
  <2>1. worker' \in WorkerStates
    <3>1. 0 \in 0 .. Len(log)
      BY DEF IndInv, TypeOK
    <3> QED BY <1>1, <1>2, <3>1 DEF WorkerStates
  <2>2. RowsOK'
    BY <1>2 DEF IndInv, TypeOK, RowsOK
  <2>3. UNCHANGED log /\ TypeOK
    BY <1>2 DEF IndInv
  <2> QED BY <1>2, <1>3, <2>1, <2>2, <2>3, SameStates DEF TypeOK, Slots
<1>6. Places' /\ BackupCount' /\ WorkerCount'
  BY <1>2, <1>4 DEF IndInv, Places, BackupCount, WorkerCount, Closing, Looking, BackupEnd,
                    WorkerEnd, Slot, Slots
<1>7. Turn'
  <2>1. worker.req # 0
    BY <1>2 DEF IndInv, Turn
  <2> QED BY <1>1, <1>2, <1>3, <1>4, <2>1 DEF IndInv, Turn
<1>8. Attempt' /\ Connections'
  BY <1>2, <1>4 DEF IndInv, Attempt, Connections, Before
<1> QED BY <1>5, <1>6, <1>7, <1>8 DEF IndInv

LEMMA NextInv == Spare /\ IndInv /\ [Next]_vars => IndInv'
<1> SUFFICES ASSUME Spare, IndInv, [Next]_vars PROVE IndInv'
  OBVIOUS
<1>1. CASE MainStep
  BY <1>1, InsertInv, ShutdownInv DEF MainStep
<1>2. CASE ShutdownStep
  BY <1>2, ShutdownInv DEF ShutdownStep
<1>3. CASE BackupStep
  BY <1>3, BackupFetchInv, BackupExecInv DEF BackupStep
<1>4. CASE WorkerStep
  BY <1>4, WorkerQuietInv, WorkerWriteInv, WorkerMovesInv, WorkerTakeInv, WorkerReportInv
     DEF WorkerStep
<1>5. CASE UNCHANGED vars
  <2>1. TypeOK'
    BY <1>5, SameStates DEF vars, IndInv, TypeOK, RowsOK, Slots
  <2>2. Places' /\ Turn'
    BY <1>5 DEF vars, IndInv, Places, Turn, Slot, Slots
  <2>3. BackupCount' /\ WorkerCount'
    BY <1>5 DEF vars, IndInv, BackupCount, WorkerCount, Closing, Looking, BackupEnd,
                WorkerEnd
  <2>4. Attempt' /\ Connections'
    BY <1>5 DEF vars, IndInv, Attempt, Connections, Before
  <2> QED BY <2>1, <2>2, <2>3, <2>4 DEF IndInv
<1> QED BY <1>1, <1>2, <1>3, <1>4, <1>5 DEF Next

LEMMA Invariant == ASSUME Spare PROVE Spec => []IndInv
<1>1. Init => IndInv
  BY InitInv
<1>2. IndInv /\ [Next]_vars => IndInv'
  BY NextInv
<1> QED BY <1>1, <1>2, PTL DEF Spec

(* The types of the variables (TypeOK). *)
THEOREM PoolTypeCorrect == ASSUME Spare PROVE Spec => []TypeOK
<1>1. IndInv => TypeOK
  BY DEF IndInv
<1> QED BY <1>1, Invariant, PTL

(* The two threads walk the ring in turn and find each request there       *)
(* (InTurn: CBackup::ProcessQueries, CWorker::ProcessQueries).             *)
THEOREM InTurnTheorem == ASSUME Spare PROVE Spec => []InTurn
<1>1. IndInv => InTurn
  BY DEF IndInv, Turn, InTurn
<1> QED BY <1>1, Invariant, PTL

-----------------------------------------------------------------------------
(* What a step does to the tables of both databases, with what is known of *)
(* the request it is for.  Most steps leave the tables alone.              *)
NoRowChanges ==
  /\ UNCHANGED <<mainRows, backupRows, movedRows, saved>>
  /\ backup'.num = backup.num
  /\ \/ worker' = worker
     \/ /\ worker.pc \notin {"remove", "drop"}
        /\ worker'.pc \in {"test", "wait", "report", "exited"}
        /\ worker'.num = worker.num
     \/ /\ worker.pc \notin {"remove", "drop"}
        /\ worker'.pc = "exec"
        /\ worker'.req = worker.num
        /\ worker'.num = worker.num + 1

(* The backup thread is ahead of the worker. *)
RowIsSaved ==
  /\ UNCHANGED <<mainRows, movedRows, worker>>
  /\ backup'.num = backup.num + 1
  /\ backup.num \in 1 .. Len(log)
  /\ backup.num # worker.req
  /\ \/ UNCHANGED <<backupRows, saved>>
     \/ /\ log[backup.num] = "write"
        /\ backupRows' = backupRows \cup {backup.num}
        /\ saved' = saved \cup {backup.num}

(* The other steps are for the worker's request, which is a write. *)
ForWrite ==
  /\ UNCHANGED <<saved, backup>>
  /\ worker'.req = worker.req
  /\ worker'.num = worker.num
  /\ worker.req \in 1 .. Len(log)
  /\ worker.req = worker.num - 1
  /\ log[worker.req] = "write"

RowIsWritten ==
  /\ ForWrite
  /\ UNCHANGED <<backupRows, movedRows>>
  /\ worker.pc = "exec"
  /\ worker'.pc \in {"report", "remove", "move"}
  /\ \/ mainRows' = mainRows \cup {worker.req}
     \/ mainRows' = mainRows /\ worker'.pc # "remove"
  /\ worker'.success /\ worker.conn => worker'.pc = "remove"
  /\ worker'.pc = "move" => ~worker'.success

RowIsRemoved ==
  /\ ForWrite
  /\ UNCHANGED <<mainRows, movedRows>>
  /\ worker.pc = "remove"
  /\ worker.req \in mainRows
  /\ worker'.pc = "report"
  /\ backupRows' = backupRows \/ backupRows' = backupRows \ {worker.req}

RowIsMoved ==
  /\ ForWrite
  /\ UNCHANGED <<mainRows, backupRows>>
  /\ worker.pc = "move"
  /\ \/ worker'.pc = "report" /\ movedRows' = movedRows
     \/ /\ worker'.pc = "drop"
        /\ movedRows' = movedRows \cup ({worker.req} \cap backupRows)

RowIsDropped ==
  /\ ForWrite
  /\ UNCHANGED <<mainRows, movedRows>>
  /\ worker.pc = "drop"
  /\ worker'.pc = "report"
  /\ backupRows' = backupRows \/ backupRows' = backupRows \ {worker.req}

LEMMA TableSteps ==
  ASSUME IndInv, [Next]_vars
  PROVE  \/ NoRowChanges \/ RowIsSaved \/ RowIsWritten
         \/ RowIsRemoved \/ RowIsMoved \/ RowIsDropped
<1> USE DEF rows
<1>1. /\ worker \in WorkerStates /\ backup \in BackupStates
      /\ worker.num \in Nat \ {0} /\ backup.num \in Nat \ {0} /\ Len(log) \in Nat
  BY DEF IndInv, TypeOK, WorkerStates, BackupStates
<1>2. CASE UNCHANGED vars
  BY <1>2 DEF vars, NoRowChanges
<1>3. CASE MainStep \/ ShutdownStep \/ BackupFetch
  <2>1. /\ UNCHANGED <<mainRows, backupRows, movedRows, saved>> /\ worker' = worker
        /\ backup'.num = backup.num
    BY <1>1, <1>3 DEF MainStep, Insert, ShutdownBegin, ShutdownStep, ShutdownReturn,
                      Destroyed, BackupFetch, BackupStates
  <2> QED BY <2>1 DEF NoRowChanges
<1>4. CASE BackupExec
  <2>1. /\ UNCHANGED <<mainRows, movedRows, worker>>
        /\ backup.req = backup.num /\ backup'.num = backup.num + 1
    BY <1>1, <1>4 DEF BackupExec, NextBackup, BackupStates, IndInv, Turn
  <2>2. backup.num \in 1 .. Len(log) /\ backup.num # worker.req
    BY <1>1, <1>4 DEF BackupExec, IndInv, Turn
  <2>3. \/ UNCHANGED <<backupRows, saved>>
        \/ /\ log[backup.num] = "write"
           /\ backupRows' = backupRows \cup {backup.num}
           /\ saved' = saved \cup {backup.num}
    BY <1>4, <2>1 DEF BackupExec, StoresBackup, StoreBackup
  <2> QED BY <2>1, <2>2, <2>3 DEF RowIsSaved
<1>5. CASE WorkerTest \/ WorkerAdd \/ WorkerRead \/ WorkerReport
  <2>1. /\ UNCHANGED <<mainRows, backupRows, movedRows, saved, backup>>
        /\ worker.pc \notin {"remove", "drop"}
        /\ worker'.pc \in {"test", "wait", "report", "exited"}
        /\ worker'.num = worker.num
    BY <1>1, <1>5 DEF WorkerTest, WorkerAdd, WorkerRead, WorkerReport, Continue, WorkerStates
  <2> QED BY <2>1 DEF NoRowChanges
<1>6. CASE WorkerTake
  <2>1. UNCHANGED <<mainRows, backupRows, movedRows, saved, backup>> /\ worker.pc = "wait"
    BY <1>6 DEF WorkerTake
  <2>2. CASE WorkerDone
    BY <1>1, <1>6, <2>1, <2>2 DEF WorkerTake, WorkerStates, NoRowChanges
  <2>3. CASE ~WorkerDone
    <3>1. ring[Slot(worker.num)] = worker.num
      <4>1. Slot(worker.num) \in Slots
        BY <1>1, SlotFacts
      <4>2. ring[Slot(worker.num)] # 0 /\ ring[Slot(worker.num)] \in 0 .. Len(log)
        BY <2>3, <4>1 DEF WorkerDone, IndInv, TypeOK
      <4>3. worker.num \in worker.num .. Len(log)
        BY <1>1, <4>1, <4>2 DEF IndInv, Places
      <4> QED BY <4>3 DEF IndInv, Places
    <3> DEFINE n == worker.num
               m == worker.num + 1
    <3>2. worker' = [worker EXCEPT !.pc = "exec", !.num = m, !.req = n, !.success = FALSE]
      BY <1>6, <2>3, <3>1 DEF WorkerTake
    <3>3. worker'.pc = "exec" /\ worker'.req = n /\ worker'.num = m
      <4> HIDE DEF n, m
      <4> QED BY <1>1, <3>2 DEF WorkerStates
    <3> QED BY <2>1, <3>3 DEF NoRowChanges
  <2> QED BY <2>2, <2>3
<1>7. CASE WorkerWrite
  <2>1. /\ UNCHANGED <<saved, backup, backupRows, movedRows>>
        /\ worker.pc = "exec" /\ log[worker.req] = "write"
    BY <1>7 DEF WorkerWrite
  <2>2. worker.req \in 1 .. Len(log) /\ worker.req = worker.num - 1
    BY <1>1, <2>1 DEF IndInv, Turn, WorkerStates
  <2>3. PICK ok \in BOOLEAN, fm \in BOOLEAN :
          /\ Continue(AfterWrite(ok), ok, fm)
          /\ \/ mainRows' = mainRows \cup {worker.req}
             \/ mainRows' = mainRows /\ ~ok
    <3>1. \A ok \in BOOLEAN : (worker.failMode \/ ~ok) \in BOOLEAN
      BY <1>1 DEF WorkerStates
    <3> QED BY <1>7, <3>1 DEF WorkerWrite
  <2>4. AfterWrite(ok) \in {"report", "remove", "move"}
        /\ (AfterWrite(ok) = "remove" => ok)
        /\ (AfterWrite(ok) = "move" => ~ok)
        /\ (ok /\ worker.conn => AfterWrite(ok) = "remove")
    BY DEF AfterWrite
  <2>5. /\ worker'.pc = AfterWrite(ok) /\ worker'.success = ok
        /\ worker'.req = worker.req /\ worker'.num = worker.num
    BY <1>1, <2>3, <2>4, ContinueFacts
  <2> QED BY <2>1, <2>2, <2>3, <2>4, <2>5 DEF RowIsWritten, ForWrite
<1>8. CASE WorkerRemove \/ WorkerMove \/ WorkerDrop
  <2>1. /\ UNCHANGED <<saved, backup, mainRows>> /\ worker.pc \in {"remove", "move", "drop"}
    BY <1>8 DEF WorkerRemove, WorkerMove, WorkerDrop
  <2>2. worker.req \in 1 .. Len(log) /\ worker.req = worker.num - 1
    BY <1>1, <2>1 DEF IndInv, Turn, WorkerStates
  <2>3. log[worker.req] = "write" /\ (worker.pc = "remove" => worker.req \in mainRows)
    BY <2>1 DEF IndInv, Attempt
  <2>4. worker'.req = worker.req /\ worker'.num = worker.num
    BY <1>1, <1>8 DEF WorkerRemove, WorkerMove, WorkerDrop, Continue, WorkerStates
  <2>5. ForWrite
    BY <2>1, <2>2, <2>3, <2>4 DEF ForWrite
  <2>6. CASE WorkerRemove
    <3>1. worker'.pc = "report"
      BY <1>1, <2>6 DEF WorkerRemove, Continue, WorkerStates
    <3> QED BY <2>3, <2>5, <2>6, <3>1 DEF RowIsRemoved, WorkerRemove
  <2>7. CASE WorkerMove
    <3>1. \/ worker'.pc = "report" /\ movedRows' = movedRows
          \/ /\ worker'.pc = "drop"
             /\ movedRows' = movedRows \cup ({worker.req} \cap backupRows)
      BY <1>1, <2>7 DEF WorkerMove, MoveRow, Continue, WorkerStates
    <3> QED BY <2>5, <2>7, <3>1 DEF RowIsMoved, WorkerMove
  <2>8. CASE WorkerDrop
    <3>1. worker'.pc = "report"
      BY <1>1, <2>8 DEF WorkerDrop, Continue, WorkerStates
    <3> QED BY <2>5, <2>8, <3>1 DEF RowIsDropped, WorkerDrop
  <2> QED BY <1>8, <2>6, <2>7, <2>8
<1> QED BY <1>2, <1>3, <1>4, <1>5, <1>6, <1>7, <1>8
        DEF Next, BackupStep, WorkerStep

(* No saved row is gone.  One that is about to leave race_backup has got   *)
(* into race.                                                              *)
Rows ==
  /\ saved \subseteq Stored
  /\ worker.pc = "drop" /\ worker.req \in backupRows => worker.req \in movedRows

LEMMA RowsInit == Init => Rows
BY DEF Init, Rows, Stored

LEMMA RowsNext == IndInv /\ Rows /\ [Next]_vars => Rows'
<1> SUFFICES ASSUME IndInv, Rows, [Next]_vars PROVE Rows'
  OBVIOUS
<1> USE DEF Rows, Stored
<1>1. CASE NoRowChanges
  BY <1>1 DEF NoRowChanges
<1>2. CASE RowIsSaved
  BY <1>2 DEF RowIsSaved
<1>3. CASE RowIsWritten
  BY <1>3 DEF RowIsWritten, ForWrite
<1>4. CASE RowIsRemoved
  BY <1>4 DEF RowIsRemoved, ForWrite
<1>5. CASE RowIsMoved
  BY <1>5 DEF RowIsMoved, ForWrite
<1>6. CASE RowIsDropped
  BY <1>6 DEF RowIsDropped, ForWrite
<1> QED BY <1>1, <1>2, <1>3, <1>4, <1>5, <1>6, TableSteps

LEMMA RowsInvariant == ASSUME Spare PROVE Spec => [](IndInv /\ Rows)
<1>1. Init => IndInv /\ Rows
  BY InitInv, RowsInit
<1>2. (IndInv /\ Rows) /\ [Next]_vars => (IndInv /\ Rows)'
  BY NextInv, RowsNext
<1> QED BY <1>1, <1>2, PTL DEF Spec

(* With a ring that always has a free slot, a rank that the backup         *)
(* database has taken is in some table in every state, whatever statements *)
(* of the databases fail (Durable: CBackup::ProcessQueries,                *)
(* CWorker::ProcessQueries, CScoreWorker::SaveScore).                      *)
THEOREM DurableTheorem == ASSUME Spare PROVE Spec => []Durable
<1>1. Rows => Durable
  BY DEF Rows, Durable, Stored
<1> QED BY <1>1, RowsInvariant, PTL

-----------------------------------------------------------------------------
(* What a backup that does not fail adds: every write behind the           *)
(* registration that the backup thread has seen is saved, and one that is  *)
(* answered with success is stored.                                        *)
KeptInv ==
  /\ \A n \in mainRows : n < backup.num
  /\ \A n \in 1 .. (backup.num - 1) : log[n] = "write" /\ Before(n) => n \in saved
  /\ worker.pc = "report" /\ worker.success /\ log[worker.req] = "write"
       => worker.req \in Stored

(* No step takes a row out of all tables, and each adds at most one write. *)
LEMMA StoredStep ==
  ASSUME IndInv, Rows, Next
  PROVE  /\ saved \subseteq saved'
         /\ \/ Stored' = Stored
            \/ \E n \in 1 .. Len(log) : log[n] = "write" /\ Stored' = Stored \cup {n}
<1> USE DEF rows
<1>1. CASE MainStep \/ ShutdownStep \/ BackupFetch \/ WorkerTest \/ WorkerTake
           \/ WorkerAdd \/ WorkerRead \/ WorkerReport
  <2>1. UNCHANGED <<mainRows, backupRows, movedRows, saved>>
    BY <1>1 DEF MainStep, ShutdownStep, Insert, ShutdownBegin, ShutdownReturn, Destroyed,
                BackupFetch, WorkerTest, WorkerTake, WorkerAdd, WorkerRead, WorkerReport
  <2> QED BY <2>1 DEF Stored
<1>2. CASE BackupExec
  <2>1. backup.req \in 1 .. Len(log)
    BY <1>2 DEF BackupExec, IndInv, TypeOK, BackupStates, Turn
  <2>2. /\ UNCHANGED <<mainRows, movedRows>>
        /\ \/ UNCHANGED <<backupRows, saved>>
           \/ /\ log[backup.req] = "write"
              /\ backupRows' = backupRows \cup {backup.req}
              /\ saved' = saved \cup {backup.req}
    BY <1>2 DEF BackupExec, StoresBackup, StoreBackup
  <2> QED BY <2>1, <2>2 DEF Stored
<1>3. CASE WorkerWrite
  <2>1. worker.req \in 1 .. Len(log)
    BY <1>3 DEF WorkerWrite, IndInv, TypeOK, WorkerStates, Turn
  <2>2. /\ UNCHANGED <<backupRows, movedRows, saved>> /\ log[worker.req] = "write"
        /\ mainRows' = mainRows \/ mainRows' = mainRows \cup {worker.req}
    BY <1>3 DEF WorkerWrite
  <2> QED BY <2>1, <2>2 DEF Stored
<1>4. CASE WorkerRemove
  <2>1. /\ UNCHANGED <<mainRows, movedRows, saved>> /\ worker.req \in mainRows
        /\ backupRows' = backupRows \/ backupRows' = backupRows \ {worker.req}
    BY <1>4 DEF WorkerRemove, IndInv, Attempt
  <2> QED BY <2>1 DEF Stored
<1>5. CASE WorkerMove
  <2>1. /\ UNCHANGED <<mainRows, backupRows, saved>>
        /\ \/ movedRows' = movedRows
           \/ movedRows' = movedRows \cup ({worker.req} \cap backupRows)
    BY <1>5 DEF WorkerMove, MoveRow
  <2> QED BY <2>1 DEF Stored
<1>6. CASE WorkerDrop
  <2>1. /\ UNCHANGED <<mainRows, movedRows, saved>>
        /\ worker.req \in backupRows => worker.req \in movedRows
        /\ backupRows' = backupRows \/ backupRows' = backupRows \ {worker.req}
    BY <1>6 DEF WorkerDrop, Rows
  <2> QED BY <2>1 DEF Stored
<1> QED BY <1>1, <1>2, <1>3, <1>4, <1>5, <1>6 DEF Next, BackupStep, WorkerStep

LEMMA KeptInit == Init => KeptInv
BY DEF Init, KeptInv, Stored

LEMMA KeptNext == Spare /\ Kept /\ IndInv /\ Rows /\ KeptInv /\ [Next]_vars => KeptInv'
<1> SUFFICES ASSUME Spare, Kept, IndInv, Rows, KeptInv, [Next]_vars PROVE KeptInv'
  OBVIOUS
<1> USE DEF rows
<1>1. IndInv' /\ Rows'
  BY NextInv, RowsNext
<1>2. /\ backup.num \in Nat \ {0} /\ worker.num \in Nat \ {0} /\ Len(log) \in Nat
      /\ worker.num <= backup.num /\ backup.num <= Len(log) + 1
      /\ worker \in WorkerStates
  BY DEF IndInv, TypeOK, BackupStates, WorkerStates, Turn
<1>3. ASSUME UNCHANGED <<log, mainRows, saved>>, backup'.num = backup.num
      PROVE  /\ \A n \in mainRows' : n < backup'.num
             /\ \A n \in 1 .. (backup'.num - 1) :
                  log'[n] = "write" /\ Before(n)' => n \in saved'
  BY <1>3 DEF KeptInv, Before
<1>4. CASE UNCHANGED vars
  BY <1>4 DEF vars, KeptInv, Before, Stored
<1>5. ASSUME NEW k \in Kinds, Insert(k) PROVE KeptInv'
  <2>1. UNCHANGED <<backup, worker, mainRows, backupRows, movedRows, saved>>
    BY <1>5 DEF Insert
  <2>2. \A n \in 1 .. Len(log) : log'[n] = log[n]
    BY <1>5 DEF Insert, IndInv, TypeOK
  <2>3. ASSUME NEW n \in 1 .. (backup.num - 1) PROVE Before(n)' <=> Before(n)
    <3>1. \A j \in 1 .. (n - 1) : log'[j] = log[j]
      BY <1>2, <2>2
    <3> QED BY <3>1 DEF Before
  <2>4. worker.pc = "report" => worker.req \in 1 .. Len(log)
    BY <1>2 DEF IndInv, Turn, WorkerStates
  <2> QED BY <1>2, <2>1, <2>2, <2>3, <2>4 DEF KeptInv, Stored
<1>6. CASE ShutdownBegin \/ ShutdownStep \/ BackupFetch
  <2>1. /\ UNCHANGED <<log, worker, mainRows, backupRows, movedRows, saved>>
        /\ backup'.num = backup.num
    BY <1>6 DEF ShutdownStep, ShutdownBegin, ShutdownReturn, Destroyed, BackupFetch,
                IndInv, TypeOK, BackupStates
  <2> QED BY <1>3, <2>1 DEF KeptInv, Stored
<1>7. CASE BackupExec
  <2>1. /\ UNCHANGED <<log, worker, mainRows, movedRows>>
        /\ backup.req = backup.num /\ backup'.num = backup.num + 1
    BY <1>7 DEF BackupExec, NextBackup, IndInv, TypeOK, BackupStates, Turn
  <2>2. log[backup.num] = "write" /\ Before(backup.num) => backup.num \in saved'
    BY <1>7, <2>1 DEF BackupExec, StoresBackup, StoreBackup, IndInv, Connections, Kept
  <2>3. saved \subseteq saved' /\ backupRows \subseteq backupRows'
    BY <1>7 DEF BackupExec, StoreBackup
  <2>4. \A n \in 1 .. (backup'.num - 1) : log'[n] = "write" /\ Before(n)' => n \in saved'
    BY <1>2, <2>1, <2>2, <2>3 DEF KeptInv, Before
  <2>5. \A n \in mainRows' : n < backup'.num
    <3>1. \A n \in mainRows : n \in Nat
      BY DEF IndInv, TypeOK, RowsOK
    <3> QED BY <1>2, <2>1, <3>1 DEF KeptInv
  <2> QED BY <2>1, <2>3, <2>4, <2>5 DEF KeptInv, Stored
<1>8. CASE WorkerTest \/ WorkerTake \/ WorkerReport
  <2>1. UNCHANGED <<log, backup, mainRows, saved>>
    BY <1>8 DEF WorkerTest, WorkerTake, WorkerReport
  <2>2. worker'.pc # "report"
    BY <1>2, <1>8 DEF WorkerTest, WorkerTake, WorkerReport, WorkerStates
  <2> QED BY <1>3, <2>1, <2>2 DEF KeptInv
<1>9. CASE WorkerAdd \/ WorkerRead
  <2>1. UNCHANGED <<log, backup, mainRows, saved>> /\ log[worker.req] # "write"
    BY <1>9 DEF WorkerAdd, WorkerRead
  <2>2. worker'.req = worker.req
    BY <1>2, <1>9 DEF WorkerAdd, WorkerRead, Continue, WorkerStates
  <2> QED BY <1>3, <2>1, <2>2 DEF KeptInv
<1>10. CASE WorkerWrite
  <2>1. /\ UNCHANGED <<log, backup, saved>>
        /\ mainRows' = mainRows \/ mainRows' = mainRows \cup {worker.req}
        /\ worker.pc = "exec"
    BY <1>10 DEF WorkerWrite
  <2>2. worker.req \in Nat /\ worker.req < backup.num
    BY <1>2, <2>1 DEF IndInv, Turn, WorkerStates
  <2>3. \A n \in mainRows' : n < backup'.num
    BY <2>1, <2>2 DEF KeptInv
  <2>4. \A n \in 1 .. (backup'.num - 1) : log'[n] = "write" /\ Before(n)' => n \in saved'
    BY <2>1 DEF KeptInv, Before
  <2>5. worker'.success => worker'.req \in mainRows'
    BY <1>2, <1>10 DEF WorkerWrite, Continue, WorkerStates
  <2> QED BY <2>3, <2>4, <2>5 DEF KeptInv, Stored
<1>11. CASE WorkerRemove
  <2>1. UNCHANGED <<log, backup, mainRows, saved>> /\ worker.req \in mainRows
    BY <1>11 DEF WorkerRemove, IndInv, Attempt
  <2>2. worker'.req = worker.req
    BY <1>2, <1>11 DEF WorkerRemove, Continue, WorkerStates
  <2> QED BY <1>3, <2>1, <2>2 DEF KeptInv, Stored
<1>12. CASE WorkerMove
  <2>1. UNCHANGED <<log, backup, mainRows, saved>>
    BY <1>12 DEF WorkerMove
  <2>2. worker'.success = FALSE
    BY <1>2, <1>12 DEF WorkerMove, Continue, WorkerStates
  <2> QED BY <1>3, <2>1, <2>2 DEF KeptInv
<1>13. CASE WorkerDrop
  <2>1. UNCHANGED <<log, backup, mainRows, saved>> /\ worker.pc = "drop"
    BY <1>13 DEF WorkerDrop
  <2>2. worker'.req = worker.req
    BY <1>2, <1>13 DEF WorkerDrop, Continue, WorkerStates
  <2>3. worker.req \in 1 .. (backup.num - 1) /\ worker.req = worker.num - 1
    BY <1>2, <2>1 DEF IndInv, Turn, WorkerStates
  <2>4. log[worker.req] = "write" /\ Before(worker.num)
    BY <2>1 DEF IndInv, Attempt, Connections
  <2>5. Before(worker.req)
    <3>1. PICK k \in 1 .. (worker.num - 1) : log[k] = "addBackup"
      BY <2>4 DEF Before
    <3>2. k # worker.req
      BY <2>4, <3>1
    <3> QED BY <1>2, <2>3, <3>1, <3>2 DEF Before
  <2>6. worker.req \in saved'
    BY <2>1, <2>3, <2>4, <2>5 DEF KeptInv
  <2>7. worker'.req \in Stored'
    BY <1>1, <2>2, <2>6 DEF Rows
  <2> QED BY <1>3, <2>1, <2>7 DEF KeptInv
<1> QED BY <1>4, <1>5, <1>6, <1>7, <1>8, <1>9, <1>10, <1>11, <1>12, <1>13
        DEF Next, MainStep, BackupStep, WorkerStep

LEMMA KeptInvariant == ASSUME Spare, Kept PROVE Spec => [](IndInv /\ Rows /\ KeptInv)
<1>1. Init => IndInv /\ Rows /\ KeptInv
  BY InitInv, RowsInit, KeptInit
<1>2. (IndInv /\ Rows /\ KeptInv) /\ [Next]_vars => (IndInv /\ Rows /\ KeptInv)'
  BY NextInv, RowsNext, KeptNext
<1> QED BY <1>1, <1>2, PTL DEF Spec

(* If inserts into the backup database do not fail, the write database has *)
(* no row whose copy was not saved first (BackupFirst:                     *)
(* CBackup::ProcessQueries before CWorker::ProcessQueries).                *)
THEOREM BackupFirstTheorem == ASSUME Spare, Kept PROVE Spec => []BackupFirst
<1>1. IndInv /\ KeptInv => BackupFirst
  <2> SUFFICES ASSUME IndInv, KeptInv, NEW n \in mainRows, Before(n)
               PROVE  n \in saved
    BY DEF BackupFirst, Before
  <2>1. n \in 1 .. Len(log) /\ log[n] = "write"
    BY DEF IndInv, TypeOK, RowsOK
  <2>2. n \in 1 .. (backup.num - 1)
    BY <2>1 DEF KeptInv, IndInv, TypeOK, BackupStates
  <2> QED BY <2>1, <2>2 DEF KeptInv
<1> QED BY <1>1, KeptInvariant, PTL

(* Every step of the pool is one of the abstract log, or none. *)
LEMMA RefinementStep ==
  Spare /\ Kept /\ IndInv /\ Rows /\ KeptInv /\ [Next]_vars
    => [Abstract!Next]_<<log, answers, Stored>>
<1> SUFFICES ASSUME Spare, Kept, IndInv, Rows, KeptInv, [Next]_vars
             PROVE  [Abstract!Next]_<<log, answers, Stored>>
  OBVIOUS
<1> USE DEF rows
<1>1. CASE UNCHANGED vars
  BY <1>1 DEF vars, Stored
<1>2. ASSUME NEW k \in Kinds, Insert(k)
      PROVE  Abstract!Next
  <2>1. log' = Append(log, k) /\ UNCHANGED answers /\ Stored' = Stored
    BY <1>2 DEF Insert, Stored
  <2> QED BY <2>1 DEF Abstract!Next, Abstract!Request, Stored
<1>3. CASE WorkerReport
  <2> DEFINE ok == worker.success
  <2>1. /\ answers' = Append(answers, ok) /\ UNCHANGED log /\ Stored' = Stored
        /\ worker.pc = "report"
    BY <1>3 DEF WorkerReport, Stored
  <2>2. ok \in BOOLEAN
    BY DEF IndInv, TypeOK, WorkerStates
  <2>3. worker.req = Len(answers) + 1 /\ Len(answers) < Len(log)
    BY <2>1 DEF IndInv, TypeOK, BackupStates, WorkerStates, Turn
  <2>4. ok /\ log[Len(answers) + 1] = "write" => Len(answers) + 1 \in Stored
    BY <2>1, <2>3 DEF KeptInv
  <2>5. Abstract!Answer(ok)
    BY <2>1, <2>3, <2>4 DEF Abstract!Answer, Stored
  <2> HIDE DEF ok
  <2> QED BY <2>2, <2>5 DEF Abstract!Next
<1>4. CASE ShutdownBegin \/ ShutdownStep \/ BackupStep \/ WorkerTest \/ WorkerTake
           \/ WorkerAdd \/ WorkerRead \/ WorkerWrite \/ WorkerRemove \/ WorkerMove
           \/ WorkerDrop
  <2>1. UNCHANGED <<log, answers>>
    BY <1>4 DEF ShutdownStep, ShutdownBegin, ShutdownReturn, Destroyed, BackupStep,
                BackupFetch, BackupExec, WorkerTest, WorkerTake, WorkerAdd, WorkerRead,
                WorkerWrite, WorkerRemove, WorkerMove, WorkerDrop
  <2>2. CASE Stored' = Stored
    BY <2>1, <2>2
  <2>3. ASSUME NEW n \in 1 .. Len(log), log[n] = "write", Stored' = Stored \cup {n}
        PROVE  Abstract!Next
    BY <2>1, <2>3 DEF Abstract!Next, Abstract!Store, Stored
  <2>4. Next
    BY <1>4 DEF Next, MainStep, WorkerStep
  <2> QED BY <2>2, <2>3, <2>4, StoredStep
<1> QED BY <1>1, <1>2, <1>3, <1>4 DEF Next, MainStep, WorkerStep

(* If inserts into the backup database do not fail, the pool is a          *)
(* RequestLog (RequestSpec): requests are answered once each and in order, *)
(* rows are stored for good, and a rank that is reported as stored is.     *)
THEOREM RequestTheorem == ASSUME Spare, Kept PROVE Spec => RequestSpec
<1>1. Init => Abstract!Init
  BY DEF Init, Abstract!Init
<1>2. IndInv /\ Rows /\ KeptInv /\ [Next]_vars => [Abstract!Next]_<<log, answers, Stored>>
  BY RefinementStep
<1> QED BY <1>1, <1>2, KeptInvariant, PTL DEF Spec, RequestSpec, Abstract!Spec, Stored
-----------------------------------------------------------------------------
(* The script beside the pool.  What it has read covers what it will       *)
(* delete, but for the rows that have moved since.                         *)
ScriptStates ==
  [pc : {"idle", "raced", "read", "written"}, left : Nat, date : Nat, races : SUBSET Nat,
   backups : SUBSET Nat]

Lost == imported \cup missed

ImportInv ==
  /\ IndInv
  /\ script \in ScriptStates
  /\ saved \subseteq Stored \cup Lost
  /\ worker.pc = "drop" /\ worker.req \in backupRows
       => worker.req \in movedRows \cup Lost
  /\ script.pc # "idle" => /\ script.date < backup.num
                           /\ movedRows \subseteq script.races \cup missed
  /\ script.pc \in {"read", "written"} => DeletedBackups \subseteq script.backups
  /\ script.pc \in {"read", "written"} => script.races \subseteq imported
  /\ script.pc = "written" => script.backups \subseteq imported

LEMMA ImportInitInv == ImportInit => ImportInv
<1> SUFFICES ASSUME ImportInit PROVE ImportInv
  OBVIOUS
<1>1. IndInv
  BY InitInv DEF ImportInit
<1>2. script \in ScriptStates /\ script.pc = "idle"
  BY ImportAssumption DEF ImportInit, Idle, ScriptStates
<1> QED BY <1>1, <1>2 DEF ImportInit, Init, ImportInv

(* The script's statements change nothing the threads depend on. *)
LEMMA ImportKeepsIndInv ==
  ASSUME IndInv, Import
  PROVE  /\ IndInv'
         /\ UNCHANGED <<ring, log, main, shutdown, numBackup, numWorker, backup, worker,
                        answers, mainRows, saved>>
<1>1. /\ UNCHANGED <<ring, log, main, shutdown, numBackup, numWorker, backup, worker,
                     answers, mainRows, saved>>
      /\ backupRows' \subseteq backupRows /\ movedRows' \subseteq movedRows
  BY DEF Import, ReadRaces, ReadBackups, CommitCopy, DeleteRows, Killed, vars
<1>2. TypeOK'
  <2>1. RowsOK'
    BY <1>1 DEF IndInv, TypeOK, RowsOK
  <2> QED BY <1>1, <2>1, SameStates DEF IndInv, TypeOK, Slots
<1>3. Places' /\ Turn'
  BY <1>1 DEF IndInv, Places, Turn, Slot, Slots
<1>4. BackupCount' /\ WorkerCount'
  BY <1>1 DEF IndInv, BackupCount, WorkerCount, Closing, Looking, BackupEnd, WorkerEnd
<1>5. Attempt' /\ Connections'
  BY <1>1 DEF IndInv, Attempt, Connections, Before
<1> QED BY <1>1, <1>2, <1>3, <1>4, <1>5 DEF IndInv

LEMMA ImportStepInv == ImportInv /\ Import => ImportInv'
<1> SUFFICES ASSUME ImportInv, Import PROVE ImportInv'
  OBVIOUS
<1>1. /\ IndInv'
      /\ UNCHANGED <<backup, worker, mainRows, saved>>
  BY ImportKeepsIndInv DEF ImportInv
<1>2. /\ script \in ScriptStates /\ backup.num \in Nat \ {0}
      /\ \A n \in backupRows \cup movedRows : n \in Nat
  BY DEF ImportInv, IndInv, TypeOK, BackupStates, RowsOK
<1>3. CASE ReadRaces
  <2>1. PICK date \in 0 .. (backup.num - 1) :
          script' = [pc |-> "raced", left |-> script.left - 1, date |-> date,
                     races |-> movedRows, backups |-> {}]
    BY <1>3 DEF ReadRaces
  <2>2. script.left - 1 \in Nat
    BY <1>2, <1>3 DEF ReadRaces, ScriptStates
  <2>3. script' \in ScriptStates /\ script'.pc = "raced" /\ script'.date < backup.num
        /\ script'.races = movedRows
    BY <1>2, <2>1, <2>2 DEF ScriptStates
  <2>4. UNCHANGED <<backupRows, movedRows, imported, missed>>
    BY <1>3 DEF ReadRaces, vars
  <2> QED BY <1>1, <2>3, <2>4 DEF ImportInv, Stored, Lost
<1>4. CASE ReadBackups
  <2> DEFINE old == OlderThan(script.date, backupRows)
  <2>1. /\ UNCHANGED <<backupRows, movedRows, missed>> /\ script.pc = "raced"
        /\ imported' = imported \cup script.races
    BY <1>4 DEF ReadBackups, vars
  <2>2. \/ script' = [script EXCEPT !.pc = "read", !.backups = old]
        \/ script' = Idle(script.left)
    BY <1>4 DEF ReadBackups
  <2>3. old \in SUBSET Nat
    BY <1>2 DEF OlderThan
  <2>4. CASE script' = [script EXCEPT !.pc = "read", !.backups = old]
    <3>1. /\ script' \in ScriptStates /\ script'.date = script.date
          /\ script'.pc = "read" /\ script'.races = script.races /\ script'.backups = old
      <4> HIDE DEF old
      <4> QED BY <1>2, <2>3, <2>4 DEF ScriptStates
    <3>2. DeletedBackups' = old
      BY <2>1, <3>1 DEF DeletedBackups, OlderThan
    <3> HIDE DEF old
    <3> QED BY <1>1, <2>1, <3>1, <3>2 DEF ImportInv, Stored, Lost
  <2>5. CASE script' = Idle(script.left)
    <3>1. script' \in ScriptStates /\ script'.pc = "idle"
      BY <1>2, <2>5 DEF Idle, ScriptStates
    <3> QED BY <1>1, <2>1, <3>1 DEF ImportInv, Stored, Lost
  <2> QED BY <2>2, <2>4, <2>5
<1>5. CASE CommitCopy
  <2>1. /\ imported' = imported \cup script.backups
        /\ UNCHANGED <<backupRows, movedRows, missed>> /\ script.pc = "read"
        /\ script' = [script EXCEPT !.pc = "written"]
    BY <1>5 DEF CommitCopy, vars
  <2>2. /\ script' \in ScriptStates /\ script'.pc = "written" /\ script'.date = script.date
        /\ script'.races = script.races /\ script'.backups = script.backups
    BY <1>2, <2>1 DEF ScriptStates
  <2>3. DeletedBackups' = DeletedBackups
    BY <2>1, <2>2 DEF DeletedBackups, OlderThan
  <2> QED BY <1>1, <2>1, <2>2, <2>3 DEF ImportInv, Stored, Lost
<1>6. CASE DeleteRows
  <2>1. /\ movedRows' = {} /\ backupRows' = backupRows \ DeletedBackups
        /\ UNCHANGED <<imported, missed>> /\ script.pc = "written"
    BY <1>6 DEF DeleteRows, DeletedRaces
  <2>2. script' \in ScriptStates /\ script'.pc = "idle"
    BY <1>2, <1>6 DEF DeleteRows, Idle, ScriptStates
  <2>3. movedRows \subseteq Lost' /\ DeletedBackups \subseteq Lost' /\ Lost' = Lost
    BY <2>1 DEF ImportInv, Lost
  <2>4. saved' \subseteq Stored' \cup Lost'
    BY <1>1, <2>1, <2>3 DEF ImportInv, Stored
  <2>5. worker'.pc = "drop" /\ worker'.req \in backupRows'
          => worker'.req \in movedRows' \cup Lost'
    BY <1>1, <2>1, <2>3 DEF ImportInv
  <2> QED BY <1>1, <2>2, <2>4, <2>5 DEF ImportInv
<1>7. CASE Killed
  <2>1. UNCHANGED <<backupRows, movedRows, imported, missed>>
    BY <1>7 DEF Killed, vars
  <2>2. script' \in ScriptStates /\ script'.pc = "idle"
    BY <1>2, <1>7 DEF Killed, Idle, ScriptStates
  <2> QED BY <1>1, <2>1, <2>2 DEF ImportInv, Stored, Lost
<1> QED BY <1>3, <1>4, <1>5, <1>6, <1>7 DEF Import

LEMMA PoolStepInv ==
  ImportInv /\ Spare /\ (PoolStep \/ UNCHANGED <<vars, importVars>>) => ImportInv'
<1> SUFFICES ASSUME ImportInv, Spare, PoolStep \/ UNCHANGED <<vars, importVars>>
             PROVE  ImportInv'
  OBVIOUS
<1>1. IndInv /\ IndInv' /\ [Next]_vars
  BY NextInv DEF ImportInv, PoolStep
<1>2. /\ UNCHANGED <<script, imported>> /\ missed \subseteq missed'
      /\ script.pc # "idle" => movedRows' \ movedRows \subseteq missed'
  BY DEF PoolStep, importVars, vars
<1>3. script' \in ScriptStates
  BY <1>2 DEF ImportInv
<1>4. Lost \subseteq Lost'
  BY <1>2 DEF Lost
<1>5. /\ backup.num \in Nat /\ (backup'.num = backup.num \/ backup'.num = backup.num + 1)
      /\ backupRows' \subseteq backupRows
           \/ (backupRows' = backupRows \cup {backup.num} /\ backup.num \in Nat)
  <2>1. backup.num \in Nat
    BY <1>1 DEF IndInv, TypeOK, BackupStates
  <2> QED BY <1>1, <2>1, TableSteps DEF NoRowChanges, RowIsSaved, RowIsWritten, RowIsRemoved,
             RowIsMoved, RowIsDropped, ForWrite
<1>6. script.pc # "idle" => /\ script'.date < backup'.num
                            /\ movedRows' \subseteq script'.races \cup missed'
  BY <1>2, <1>5 DEF ImportInv, ScriptStates
<1>7. script.pc \in {"read", "written"} => DeletedBackups' \subseteq script'.backups
  <2> SUFFICES ASSUME script.pc \in {"read", "written"},
                      NEW n \in backupRows', n <= script.date
               PROVE  n \in script.backups
    BY <1>2 DEF DeletedBackups, OlderThan
  <2>1. script.date < backup.num /\ script.date \in Nat
    BY DEF ImportInv, ScriptStates
  <2>2. n \in backupRows
    BY <1>5, <2>1
  <2> QED BY <2>2 DEF ImportInv, DeletedBackups, OlderThan
<1>8. /\ saved' \subseteq Stored' \cup Lost'
      /\ worker'.pc = "drop" /\ worker'.req \in backupRows'
           => worker'.req \in movedRows' \cup Lost'
  <2>1. /\ saved \subseteq Stored \cup Lost
        /\ worker.pc = "drop" /\ worker.req \in backupRows
             => worker.req \in movedRows \cup Lost
    BY DEF ImportInv
  <2>2. CASE NoRowChanges
    BY <1>4, <2>1, <2>2 DEF NoRowChanges, Stored
  <2>3. CASE RowIsSaved
    BY <1>4, <2>1, <2>3 DEF RowIsSaved, Stored
  <2>4. CASE RowIsWritten
    BY <1>4, <2>1, <2>4 DEF RowIsWritten, ForWrite, Stored
  <2>5. CASE RowIsRemoved
    BY <1>4, <2>1, <2>5 DEF RowIsRemoved, ForWrite, Stored
  <2>6. CASE RowIsMoved
    BY <1>4, <2>1, <2>6 DEF RowIsMoved, ForWrite, Stored
  <2>7. CASE RowIsDropped
    BY <1>4, <2>1, <2>7 DEF RowIsDropped, ForWrite, Stored
  <2> QED BY <1>1, <2>2, <2>3, <2>4, <2>5, <2>6, <2>7, TableSteps
<1> QED BY <1>1, <1>2, <1>3, <1>6, <1>7, <1>8 DEF ImportInv

LEMMA ImportInvariant == ASSUME Spare PROVE ImportSpec => []ImportInv
<1>1. ImportInit => ImportInv
  BY ImportInitInv
<1>2. ImportInv /\ [ImportNext]_<<vars, importVars>> => ImportInv'
  BY ImportStepInv, PoolStepInv DEF ImportNext
<1> QED BY <1>1, <1>2, PTL DEF ImportSpec

(* With a ring that always has a free slot: whatever statements fail and   *)
(* however the script's statements fall between those of the threads, a    *)
(* rank that the backup database has taken is in a table, in a file of the *)
(* script, or was moved between its reading of record_race and its delete  *)
(* (LostOnlyBehindTheDump: move_sqlite.py beside CWorker::ProcessQueries   *)
(* and CScoreWorker::SaveScore).                                           *)
THEOREM ImportTheorem == ASSUME Spare PROVE ImportSpec => []LostOnlyBehindTheDump
<1>1. ImportInv => LostOnlyBehindTheDump
  BY DEF ImportInv, LostOnlyBehindTheDump, Somewhere, Stored, Lost
<1> QED BY <1>1, ImportInvariant, PTL


-----------------------------------------------------------------------------
(* Where the copies of a rank are.                                         *)

(* The worker knows of the backup database when it gets to a request that  *)
(* was saved there; a registration it learns of when it executes it.       *)
Registered ==
  /\ \A n \in backupRows : Before(n)
  /\ Before(worker.num) /\ ~worker.conn
       => worker.pc = "exec" /\ log[worker.req] = "addBackup"

(* A rank that nothing may leave in two places is in two only while the    *)
(* worker is between the two statements that move it, or the script        *)
(* between its two transactions; what the script has read of record_race   *)
(* counts as being there.  A rank the worker has not come to is at most in *)
(* race_backup.                                                            *)
OneCopy(n) ==
  /\ n \in mainRows => n \notin movedRows \cup script.races \cup imported
  /\ n \in mainRows \cap backupRows => worker.pc = "remove" /\ n = worker.req
  /\ n \in backupRows \cap (movedRows \cup script.races)
       => worker.pc = "drop" /\ n = worker.req
  /\ n \in backupRows \cap imported
       => \/ worker.pc = "drop" /\ n = worker.req
          \/ script.pc = "written" /\ n \in script.backups
  /\ n \in movedRows \cap imported
       => \/ script.pc \in {"read", "written"} /\ n \in script.races
          \/ script.pc = "written" /\ n \in script.backups
  /\ n \in mainRows \cup movedRows \cup script.races \cup imported
       => n < worker.num /\ (n = worker.req => worker.pc \notin {"exec", "move"})

CopyInv ==
  /\ Registered
  /\ imported \subseteq Nat
  /\ \A n \in script.backups : n <= script.date
  /\ \A n \in Nat \ twice : OneCopy(n)

LEMMA RegisteredNext == IndInv /\ Registered /\ [Next]_vars => Registered'
<1> SUFFICES ASSUME IndInv, Registered, [Next]_vars PROVE Registered'
  OBVIOUS
<1> USE DEF rows
<1>1. /\ backup.num \in Nat \ {0} /\ worker.num \in Nat \ {0} /\ Len(log) \in Nat
      /\ worker.num <= backup.num /\ backup.num <= Len(log) + 1
      /\ worker \in WorkerStates
      /\ \A n \in backupRows : n \in 1 .. Len(log)
  BY DEF IndInv, TypeOK, BackupStates, WorkerStates, Turn, RowsOK
<1>2. ASSUME UNCHANGED <<log, worker>>, backupRows' \subseteq backupRows
      PROVE  Registered'
  BY <1>2 DEF Registered, Before
<1>3. CASE UNCHANGED vars
  BY <1>2, <1>3 DEF vars
<1>4. ASSUME NEW k \in Kinds, Insert(k) PROVE Registered'
  <2>1. UNCHANGED <<worker, backupRows>>
    BY <1>4 DEF Insert
  <2>2. \A j \in 1 .. Len(log) : log'[j] = log[j]
    BY <1>4 DEF Insert, IndInv, TypeOK
  <2>3. ASSUME NEW n \in 1 .. (Len(log) + 1) PROVE Before(n)' <=> Before(n)
    <3>1. \A j \in 1 .. (n - 1) : log'[j] = log[j]
      BY <1>1, <2>2
    <3> QED BY <3>1 DEF Before
  <2>4. worker.pc = "exec" => worker.req \in 1 .. Len(log)
    BY <1>1 DEF IndInv, Turn, WorkerStates
  <2>5. worker.num \in 1 .. (Len(log) + 1)
    BY <1>1
  <2> QED BY <1>1, <2>1, <2>2, <2>3, <2>4, <2>5 DEF Registered
<1>5. CASE ShutdownBegin \/ ShutdownStep \/ BackupFetch
  BY <1>2, <1>5 DEF ShutdownStep, ShutdownBegin, ShutdownReturn, Destroyed, BackupFetch
<1>6. CASE BackupExec
  <2>1. UNCHANGED <<log, worker>> /\ backup.req = backup.num
    BY <1>6 DEF BackupExec, IndInv, Turn
  <2>2. \/ backupRows' = backupRows
        \/ backup.conn /\ backupRows' = backupRows \cup {backup.num}
    BY <1>6, <2>1 DEF BackupExec, StoresBackup, StoreBackup
  <2>3. backup.conn => Before(backup.num)
    BY DEF IndInv, Connections
  <2> QED BY <2>1, <2>2, <2>3 DEF Registered, Before
<1>7. CASE WorkerTake
  <2>1. UNCHANGED <<log, backupRows>> /\ worker.pc = "wait"
    BY <1>7 DEF WorkerTake
  <2>2. CASE WorkerDone
    BY <1>1, <1>7, <2>1, <2>2 DEF WorkerTake, WorkerStates, Registered, Before
  <2>3. CASE ~WorkerDone
    <3> DEFINE n == ring[Slot(worker.num)]
               m == worker.num + 1
    <3>1. worker' = [worker EXCEPT !.pc = "exec", !.num = m, !.req = n, !.success = FALSE]
      BY <1>7, <2>3 DEF WorkerTake
    <3>2. /\ worker'.pc = "exec" /\ worker'.req = n /\ worker'.num = m
          /\ worker'.conn = worker.conn
      <4> HIDE DEF n, m
      <4> QED BY <1>1, <3>1 DEF WorkerStates
    <3>3. n = worker.num
      <4>1. Slot(worker.num) \in Slots
        BY <1>1, SlotFacts
      <4>2. n # 0 /\ n \in 0 .. Len(log)
        BY <2>3, <4>1 DEF WorkerDone, IndInv, TypeOK
      <4>3. worker.num \in worker.num .. Len(log)
        BY <1>1, <4>1, <4>2 DEF IndInv, Places
      <4> QED BY <4>3 DEF IndInv, Places
    <3>4. Before(worker.num)' /\ ~ Before(worker.num) => log[worker.num] = "addBackup"
      BY <1>1, <2>1, <3>2 DEF Before
    <3>5. \A k \in backupRows' : Before(k)'
      BY <2>1 DEF Registered, Before
    <3> HIDE DEF n, m
    <3> QED BY <2>1, <3>2, <3>3, <3>4, <3>5 DEF Registered
  <2> QED BY <2>2, <2>3
<1>8. CASE WorkerTest \/ WorkerReport
  <2>1. UNCHANGED <<log, backupRows>> /\ worker'.num = worker.num
        /\ worker'.conn = worker.conn /\ worker.pc # "exec"
    BY <1>1, <1>8 DEF WorkerTest, WorkerReport, WorkerStates
  <2> QED BY <2>1 DEF Registered, Before
<1>9. CASE WorkerAdd
  <2>1. /\ UNCHANGED <<log, backupRows>> /\ worker'.num = worker.num
        /\ worker'.conn <=> worker.conn \/ log[worker.req] = "addBackup"
    <3> DEFINE k == log[worker.req]
               reads == worker.reads \/ k = "addRead"
               write == worker.write \/ k = "addWrite"
               conn == worker.conn \/ k = "addBackup"
    <3>1. /\ UNCHANGED <<log, backupRows>>
          /\ worker' = [worker EXCEPT !.pc = "report", !.success = TRUE, !.reads = reads,
                                      !.write = write, !.conn = conn]
      BY <1>9 DEF WorkerAdd
    <3>2. worker'.num = worker.num /\ worker'.conn = conn
      <4> HIDE DEF reads, write, conn
      <4> QED BY <1>1, <3>1 DEF WorkerStates
    <3> QED BY <3>1, <3>2
  <2> QED BY <2>1 DEF Registered, Before
<1>10. CASE WorkerRead \/ WorkerWrite \/ WorkerRemove \/ WorkerMove \/ WorkerDrop
  <2>1. /\ UNCHANGED log /\ backupRows' \subseteq backupRows
        /\ worker'.num = worker.num /\ worker'.conn = worker.conn
        /\ worker.pc = "exec" => log[worker.req] # "addBackup"
    BY <1>1, <1>10 DEF WorkerRead, WorkerWrite, WorkerRemove, WorkerMove, WorkerDrop,
                       Continue, WorkerStates
  <2> QED BY <2>1 DEF Registered, Before
<1> QED BY <1>3, <1>4, <1>5, <1>6, <1>7, <1>8, <1>9, <1>10
        DEF Next, MainStep, BackupStep, WorkerStep

(* The script takes copies, and says which of them it may leave behind.    *)
LEMMA ImportCopies == ImportInv /\ CopyInv /\ Import => CopyInv'
<1> SUFFICES ASSUME ImportInv, CopyInv, Import PROVE CopyInv'
  OBVIOUS
<1>1. UNCHANGED <<log, worker, answers, mainRows>>
  BY ImportKeepsIndInv DEF ImportInv
<1>2. /\ script \in ScriptStates
      /\ \A n \in backupRows : n \in Nat \ {0}
      /\ \A n \in 1 .. Len(answers) : n < worker.num /\ n # worker.req
  BY DEF ImportInv, IndInv, TypeOK, RowsOK, Turn, WorkerStates
<1>3. ASSUME backupRows' \subseteq backupRows PROVE Registered'
  BY <1>1, <1>3 DEF CopyInv, Registered, Before
<1> USE DEF CopyInv
<1>4. CASE ReadRaces
  <2>1. /\ UNCHANGED <<backupRows, movedRows, imported, twice>> /\ script.pc = "idle"
        /\ script'.pc = "raced" /\ script'.races = movedRows /\ script'.backups = {}
    BY <1>4 DEF ReadRaces, vars
  <2> QED BY <1>1, <1>3, <2>1 DEF OneCopy
<1>5. CASE ReadBackups
  <2>1. /\ UNCHANGED <<backupRows, movedRows>> /\ script.pc = "raced"
        /\ imported' = imported \cup script.races
        /\ \/ script'.pc = "read" /\ script'.races = script.races /\ twice' = twice
           \/ script'.pc = "idle" /\ script'.races = {} /\ twice' = twice \cup script.races
        /\ \A n \in script'.backups : n <= script'.date
    <3> DEFINE old == OlderThan(script.date, backupRows)
    <3>1. \A n \in old : n <= script.date
      BY DEF OlderThan
    <3>2. \/ script' = [script EXCEPT !.pc = "read", !.backups = old]
             /\ twice' = twice
          \/ script' = Idle(script.left) /\ twice' = twice \cup script.races
      BY <1>5 DEF ReadBackups
    <3>3. /\ UNCHANGED <<backupRows, movedRows>> /\ script.pc = "raced"
          /\ imported' = imported \cup script.races
      BY <1>5 DEF ReadBackups, vars
    <3>4. CASE /\ script' = [script EXCEPT !.pc = "read", !.backups = old]
               /\ twice' = twice
      <4>1. /\ script'.pc = "read" /\ script'.races = script.races
            /\ script'.backups = old /\ script'.date = script.date
        <5> HIDE DEF old
        <5> QED BY <1>2, <3>4 DEF ScriptStates
      <4>2. twice' = twice
        BY <3>4
      <4> HIDE DEF old
      <4> QED BY <3>1, <3>3, <4>1, <4>2
    <3>5. CASE script' = Idle(script.left) /\ twice' = twice \cup script.races
      BY <3>3, <3>5 DEF Idle
    <3> QED BY <3>2, <3>4, <3>5
  <2>2. imported' \subseteq Nat
    BY <1>2, <2>1 DEF ScriptStates
  <2> QED BY <1>1, <1>3, <2>1, <2>2 DEF OneCopy
<1>6. CASE CommitCopy
  <2>1. /\ UNCHANGED <<backupRows, movedRows>> /\ script.pc = "read"
        /\ imported' = imported \cup script.backups
        /\ twice' = twice \cup (script.backups \ backupRows)
                         \cup {n \in script.backups : n > Len(answers)}
        /\ script'.pc = "written" /\ script'.date = script.date
        /\ script'.races = script.races /\ script'.backups = script.backups
    BY <1>2, <1>6 DEF CommitCopy, vars, ScriptStates
  <2>2. imported' \subseteq Nat /\ \A n \in script'.backups : n <= script'.date
    BY <1>2, <2>1 DEF ScriptStates
  <2>3. ASSUME NEW n \in Nat \ twice' PROVE OneCopy(n)'
    <3>1. OneCopy(n)
      BY <2>1, <2>3
    <3>2. n \in script.backups
            => n \in backupRows /\ n < worker.num /\ n # worker.req
      <4>1. n \in script.backups => n \in backupRows /\ ~ (n > Len(answers))
        BY <2>1, <2>3
      <4>2. Len(answers) \in Nat
        BY DEF ImportInv, IndInv, TypeOK
      <4> QED BY <1>2, <4>1, <4>2
    <3> QED BY <1>1, <2>1, <3>1, <3>2 DEF OneCopy
  <2> QED BY <1>3, <2>1, <2>2, <2>3
<1>7. CASE DeleteRows
  <2>1. /\ movedRows' = {} /\ backupRows' = backupRows \ OlderThan(script.date, backupRows)
        /\ UNCHANGED <<imported, twice>> /\ script.pc = "written"
        /\ script'.pc = "idle" /\ script'.races = {} /\ script'.backups = {}
    BY <1>7 DEF DeleteRows, DeletedRaces, DeletedBackups, Idle
  <2>2. \A n \in backupRows' : n \in backupRows /\ n \notin script.backups
    BY <2>1 DEF OlderThan
  <2> QED BY <1>1, <1>3, <2>1, <2>2 DEF OneCopy
<1>8. CASE Killed
  <2>1. /\ UNCHANGED <<backupRows, movedRows, imported>>
        /\ script'.pc = "idle" /\ script'.races = {} /\ script'.backups = {}
        /\ twice \subseteq twice'
        /\ script.pc \in {"read", "written"} => script.races \subseteq twice'
        /\ script.pc = "written" => script.backups \subseteq twice'
    BY <1>2, <1>8 DEF Killed, Idle, ScriptStates, vars
  <2> QED BY <1>1, <1>3, <2>1 DEF OneCopy
<1> QED BY <1>4, <1>5, <1>6, <1>7, <1>8 DEF Import

(* The pool makes a second copy only on the way from one table to the      *)
(* other, or where LeftTwice says so.                                      *)
LEMMA PoolCopies ==
  ImportInv /\ CopyInv /\ (PoolStep \/ UNCHANGED <<vars, importVars>>) => CopyInv'
<1> SUFFICES ASSUME ImportInv, CopyInv, PoolStep \/ UNCHANGED <<vars, importVars>>
             PROVE  CopyInv'
  OBVIOUS
<1>1. IndInv /\ [Next]_vars /\ UNCHANGED <<script, imported>>
  BY DEF ImportInv, PoolStep, importVars, vars
<1>2. Registered'
  BY <1>1, RegisteredNext DEF CopyInv
<1>3. /\ twice \subseteq twice'
      /\ worker'.success \/ mainRows' \ mainRows \subseteq twice'
      /\ worker.pc \in {"remove", "drop"} /\ worker'.pc = "report"
           => {worker.req} \cap backupRows' \subseteq twice'
  BY DEF PoolStep, LeftTwice, importVars, vars
<1>4. /\ worker.num \in Nat \ {0} /\ backup.num \in Nat \ {0} /\ worker.num <= backup.num
      /\ worker \in WorkerStates
  BY <1>1 DEF IndInv, TypeOK, WorkerStates, BackupStates, Turn
<1>5. ASSUME NEW n \in Nat \ twice' PROVE OneCopy(n)'
  <2>1. OneCopy(n)
    BY <1>3, <1>5 DEF CopyInv
  <2>2. CASE NoRowChanges
    BY <1>1, <1>4, <2>1, <2>2 DEF NoRowChanges, OneCopy
  <2>3. CASE RowIsSaved
    BY <1>1, <1>4, <2>1, <2>3 DEF RowIsSaved, OneCopy
  <2>4. CASE RowIsWritten
    <3>1. worker.req \in backupRows => worker.conn
      <4>1. worker.req \in backupRows => Before(worker.num)
        BY <1>4, <2>4 DEF RowIsWritten, ForWrite, CopyInv, Registered, Before
      <4> QED BY <2>4, <4>1 DEF RowIsWritten, ForWrite, CopyInv, Registered
    <3>2. n \in mainRows' => \/ n \in mainRows
                             \/ n = worker.req /\ (n \in backupRows => worker'.pc = "remove")
      BY <1>3, <1>5, <2>4, <3>1 DEF RowIsWritten
    <3>3. n = worker.req => /\ n \notin mainRows \cup movedRows \cup script.races \cup imported
                            /\ n < worker.num
                            /\ n \in mainRows' => worker'.pc # "move"
      BY <1>3, <1>4, <1>5, <2>1, <2>4 DEF OneCopy, RowIsWritten, ForWrite
    <3> QED BY <1>1, <1>4, <2>1, <2>4, <3>2, <3>3 DEF RowIsWritten, ForWrite, OneCopy
  <2>5. CASE RowIsRemoved
    BY <1>1, <1>3, <1>5, <2>1, <2>5 DEF RowIsRemoved, ForWrite, OneCopy
  <2>6. CASE RowIsMoved
    BY <1>1, <1>4, <2>1, <2>6 DEF RowIsMoved, ForWrite, OneCopy
  <2>7. CASE RowIsDropped
    BY <1>1, <1>3, <1>5, <2>1, <2>7 DEF RowIsDropped, ForWrite, OneCopy
  <2> QED BY <1>1, <2>2, <2>3, <2>4, <2>5, <2>6, <2>7, TableSteps
<1> QED BY <1>1, <1>2, <1>5 DEF CopyInv

(* With a ring that always has a free slot: an answered rank is in one     *)
(* table or file, but for the ranks that a lost answer of the write        *)
(* database, a row that could not be deleted, a script that ended between  *)
(* its transactions or a worker later than the timeout leaves in two       *)
(* (StoredOnce: move_sqlite.py beside CWorker::ProcessQueries and          *)
(* CScoreWorker::SaveScore).                                               *)
THEOREM StoredOnceTheorem == ASSUME Spare PROVE ImportSpec => []StoredOnce
<1>1. ImportInit => CopyInv
  BY DEF ImportInit, Init, Idle, CopyInv, Registered, OneCopy, Before
<1>2. ImportInv /\ CopyInv /\ [ImportNext]_<<vars, importVars>> => CopyInv'
  BY ImportCopies, PoolCopies DEF ImportNext
<1>3. ImportInv /\ CopyInv => StoredOnce
  <2> SUFFICES ASSUME ImportInv, CopyInv, script.pc \notin {"read", "written"},
                      NEW n \in 1 .. Len(answers), n \notin twice
               PROVE  /\ ~ (n \in mainRows /\ n \in backupRows \cup movedRows \cup imported)
                      /\ ~ (n \in backupRows /\ n \in movedRows \cup imported)
                      /\ ~ (n \in movedRows /\ n \in imported)
    BY DEF StoredOnce
  <2>1. n # worker.req
    BY DEF ImportInv, IndInv, TypeOK, Turn, WorkerStates
  <2>2. OneCopy(n)
    BY DEF CopyInv
  <2> QED BY <2>1, <2>2 DEF OneCopy
<1> QED BY <1>1, <1>2, <1>3, ImportInvariant, PTL DEF ImportSpec
=============================================================================

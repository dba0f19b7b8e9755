------------------------------- MODULE DbPool -------------------------------
(***************************************************************************)
(* CDbConnectionPool (engine/server/databases/connection_pool.cpp): the    *)
(* main thread puts requests into a ring, the backup thread looks at each  *)
(* first and stores writes in the backup database, the worker thread then  *)
(* executes it and moves or removes the backup row.  The write itself is a *)
(* rank as CScoreWorker::SaveScore stores it.                              *)
(*                                                                         *)
(* A request is its number in the log of all requests.  A database may     *)
(* fail at any statement of the kinds in Faults.  Rows survive a crash of  *)
(* the server and nothing else does, so what holds of the tables in every  *)
(* state holds of what a crash leaves behind.                              *)
(***************************************************************************)
EXTENDS Integers, Sequences

CONSTANTS
  RingSize,         \* std::size(m_aQueries), 512
  Setup,            \* the databases registered before the first request
  Requests,         \* the kinds of request made after that
  MaxRequests,      \* bound: entries ever put into the ring
  MaxOutstanding,   \* bound: entries the worker has not taken yet
  Faults            \* what may fail

Kinds == {"read", "write", "print", "addRead", "addWrite", "addBackup"}
FaultKinds == {"backup", "main", "reply", "remove", "move", "read"}

ASSUME RingAssumption ==
  /\ RingSize \in Nat \ {0}
  /\ Setup \in Seq(Kinds)
  /\ Requests \subseteq Kinds
  /\ MaxRequests \in Nat
  /\ MaxOutstanding \in 0 .. RingSize
  /\ Faults \subseteq FaultKinds

VARIABLES
  ring,             \* m_aQueries: slot -> number of the request in it, or 0
  log,              \* history: the kinds of the requests made so far; its
                    \* length modulo RingSize is m_InsertIdx
  main,             \* main thread: "running", "waiting" (OnShutdown),
                    \* "joining" (destructor) or "gone"
  shutdown,         \* m_pShared->m_Shutdown
  numBackup,        \* m_NumBackup
  numWorker,        \* m_NumWorker
  backup,           \* backup thread: pc, JobNum, the request it looks at and
                    \* whether it has a connection
  worker,           \* worker thread: the same, with its other locals
  answers,          \* results: answers[n] is m_Success of request n once its
                    \* m_Completed is set
  mainRows,         \* the race table of the write database
  backupRows,       \* race_backup in the backup database
  movedRows,        \* race in the backup database
  saved             \* history: the writes that were put into race_backup

vars == <<ring, log, main, shutdown, numBackup, numWorker, backup, worker,
          answers, mainRows, backupRows, movedRows, saved>>

rows == <<mainRows, backupRows, movedRows, saved>>

Slot(n) == (n - 1) % RingSize
Slots == 0 .. (RingSize - 1)

BackupStates ==
  [pc : {"wait", "exec", "exited"}, num : Nat \ {0}, req : 0 .. Len(log),
   conn : BOOLEAN]

WorkerStates ==
  [pc : {"test", "wait", "exec", "remove", "move", "drop", "report", "exited"},
   num : Nat \ {0}, req : 0 .. Len(log), failMode : BOOLEAN,
   success : BOOLEAN, reads : BOOLEAN, write : BOOLEAN, conn : BOOLEAN]

RowsOK ==
  \A n \in mainRows \cup backupRows \cup movedRows \cup saved :
    n \in 1 .. Len(log) /\ log[n] = "write"

(* The types of the variables. *)
TypeOK ==
  /\ ring \in [Slots -> 0 .. Len(log)]
  /\ log \in Seq(Kinds)
  /\ main \in {"running", "waiting", "joining", "gone"}
  /\ shutdown \in BOOLEAN
  /\ numBackup \in Nat
  /\ numWorker \in Nat
  /\ backup \in BackupStates
  /\ worker \in WorkerStates
  /\ answers \in Seq(BOOLEAN)
  /\ RowsOK

Init ==
  /\ ring = [i \in Slots |-> 0]
  /\ log = << >>
  /\ main = "running"
  /\ shutdown = FALSE
  /\ numBackup = 0
  /\ numWorker = 0
  /\ backup = [pc |-> "wait", num |-> 1, req |-> 0, conn |-> FALSE]
  /\ worker = [pc |-> "test", num |-> 1, req |-> 0, failMode |-> FALSE,
               success |-> FALSE, reads |-> FALSE, write |-> FALSE,
               conn |-> FALSE]
  /\ answers = << >>
  /\ mainRows = {}
  /\ backupRows = {}
  /\ movedRows = {}
  /\ saved = {}

-----------------------------------------------------------------------------
(* The main thread *)

(* Requests the worker has not moved out of the ring. *)
Outstanding == Len(log) - (worker.num - 1)

(* Register..., Execute, ExecuteWrite and Print: the next slot gets the    *)
(* request and the backup thread is signalled.  The code does not look     *)
(* whether the slot is free; MaxOutstanding keeps the model below the      *)
(* point where it is not.                                                  *)
Insert(k) ==
  /\ main = "running"
  /\ Len(log) < MaxRequests
  /\ Outstanding < MaxOutstanding
  /\ IF Len(log) < Len(Setup) THEN k = Setup[Len(log) + 1] ELSE k \in Requests
  /\ log' = Append(log, k)
  /\ ring' = [ring EXCEPT ![Slot(Len(log'))] = Len(log')]
  /\ numBackup' = numBackup + 1
  /\ UNCHANGED <<main, shutdown, numWorker, backup, worker, answers>>
  /\ UNCHANGED rows

(* OnShutdown, up to its wait. *)
ShutdownBegin ==
  /\ main = "running"
  /\ Len(log) >= Len(Setup)
  /\ main' = "waiting"
  /\ shutdown' = TRUE
  /\ numBackup' = numBackup + 1
  /\ UNCHANGED <<ring, log, numWorker, backup, worker, answers>>
  /\ UNCHANGED rows

(* OnShutdown returns; the destructor follows and joins the threads. *)
ShutdownReturn ==
  /\ main = "waiting"
  /\ ~shutdown
  /\ main' = "joining"
  /\ UNCHANGED <<ring, log, shutdown, numBackup, numWorker, backup, worker,
                 answers>>
  /\ UNCHANGED rows

Destroyed ==
  /\ main = "joining"
  /\ worker.pc = "exited"
  /\ backup.pc = "exited"
  /\ main' = "gone"
  /\ UNCHANGED <<ring, log, shutdown, numBackup, numWorker, backup, worker,
                 answers>>
  /\ UNCHANGED rows

-----------------------------------------------------------------------------
(* The backup thread, CBackup::ProcessQueries *)

(* It waits for a request and looks at it; an empty slot ends it. *)
BackupFetch ==
  /\ backup.pc = "wait"
  /\ numBackup > 0
  /\ numBackup' = numBackup - 1
  /\ IF ring[Slot(backup.num)] = 0
       THEN /\ backup' = [backup EXCEPT !.pc = "exited"]
            /\ numWorker' = numWorker + 1
       ELSE /\ backup' = [backup EXCEPT !.pc = "exec",
                                        !.req = ring[Slot(backup.num)]]
            /\ UNCHANGED numWorker
  /\ UNCHANGED <<ring, log, main, shutdown, worker, answers>>
  /\ UNCHANGED rows

(* BACKUP_FIRST: a write is inserted into race_backup.  Its failure is     *)
(* only logged.                                                            *)
StoreBackup(req) ==
  \/ /\ backupRows' = backupRows \cup {req}
     /\ saved' = saved \cup {req}
  \/ /\ "backup" \in Faults
     /\ UNCHANGED <<backupRows, saved>>

StoresBackup_Shutdown(req) == log[req] = "write" /\ backup.conn /\ shutdown

StoresBackup(req) == log[req] = "write" /\ backup.conn

NextBackup_SkipsReads(conn) ==
  backup' = [backup EXCEPT !.pc = "wait", !.req = 0, !.conn = conn,
                           !.num = IF log[backup.req] = "read" THEN @ ELSE @ + 1]

NextBackup(conn) ==
  backup' = [backup EXCEPT !.pc = "wait", !.num = @ + 1, !.req = 0,
                           !.conn = conn]

BackupExec ==
  /\ backup.pc = "exec"
  /\ IF StoresBackup(backup.req)
       THEN StoreBackup(backup.req)
       ELSE UNCHANGED <<backupRows, saved>>
  /\ NextBackup(backup.conn \/ log[backup.req] = "addBackup")
  /\ numWorker' = numWorker + 1
  /\ UNCHANGED <<ring, log, main, shutdown, numBackup, worker, answers,
                 mainRows, movedRows>>

-----------------------------------------------------------------------------
(* The worker thread, CWorker::ProcessQueries *)

(* Fail mode ends when no request is ready. *)
WorkerTest ==
  /\ worker.pc = "test"
  /\ worker' = [worker EXCEPT !.pc = "wait",
                              !.failMode = @ /\ numWorker # 0]
  /\ UNCHANGED <<ring, log, main, shutdown, numBackup, numWorker, backup,
                 answers>>
  /\ UNCHANGED rows

WorkerDone_Flag == shutdown \/ ring[Slot(worker.num)] = 0

WorkerDone == ring[Slot(worker.num)] = 0

(* It waits for a request and moves it out of the ring; an empty slot ends *)
(* it, which the main thread is waiting for.                               *)
WorkerTake ==
  /\ worker.pc = "wait"
  /\ numWorker > 0
  /\ numWorker' = numWorker - 1
  /\ ring' = [ring EXCEPT ![Slot(worker.num)] = 0]
  /\ IF WorkerDone
       THEN /\ worker' = [worker EXCEPT !.pc = "exited"]
            /\ shutdown' = FALSE
       ELSE /\ worker' = [worker EXCEPT !.pc = "exec", !.num = @ + 1,
                                        !.req = ring[Slot(worker.num)],
                                        !.success = FALSE]
            /\ UNCHANGED shutdown
  /\ UNCHANGED <<log, main, numBackup, backup, answers>>
  /\ UNCHANGED rows

(* The worker goes on to l, with success ok and fail mode fm. *)
Continue(l, ok, fm) ==
  worker' = [worker EXCEPT !.pc = l, !.success = ok, !.failMode = fm]

(* A registration gives it the connection; printing changes nothing. *)
WorkerAdd ==
  LET k == log[worker.req] IN
  /\ worker.pc = "exec"
  /\ k \notin {"read", "write"}
  /\ worker' = [worker EXCEPT !.pc = "report", !.success = TRUE,
                              !.reads = @ \/ k = "addRead",
                              !.write = @ \/ k = "addWrite",
                              !.conn = @ \/ k = "addBackup"]
  /\ UNCHANGED <<ring, log, main, shutdown, numBackup, numWorker, backup,
                 answers>>
  /\ UNCHANGED rows

(* A read is tried on one server after the other, unless the server shuts  *)
(* down or is in fail mode; which of them answers is left open.            *)
WorkerRead ==
  LET tried == worker.reads /\ ~shutdown /\ ~worker.failMode IN
  /\ worker.pc = "exec"
  /\ log[worker.req] = "read"
  /\ \/ tried /\ Continue("report", TRUE, worker.failMode)
     \/ (tried => "read" \in Faults) /\ Continue("report", FALSE, TRUE)
  /\ UNCHANGED <<ring, log, main, shutdown, numBackup, numWorker, backup,
                 answers>>
  /\ UNCHANGED rows

(* With a backup database, a write goes no further than that database      *)
(* during shutdown and in fail mode.                                       *)
Skipped == worker.conn /\ (shutdown \/ worker.failMode)

(* What follows the attempt on the write database. *)
AfterWrite_RemoveAlways(ok) == IF worker.conn THEN "remove" ELSE "report"

AfterWrite(ok) ==
  IF ~worker.conn THEN "report" ELSE IF ok THEN "remove" ELSE "move"

(* NORMAL: the rank is inserted into the write database.  It may fail, or  *)
(* fail to be confirmed after the row was stored.                          *)
WorkerWrite ==
  LET done(ok) == Continue(AfterWrite(ok), ok, worker.failMode \/ ~ok)
      tried == worker.write /\ ~Skipped
  IN
  /\ worker.pc = "exec"
  /\ log[worker.req] = "write"
  /\ \/ /\ tried
        /\ mainRows' = mainRows \cup {worker.req}
        /\ \E ok \in {TRUE} \cup {~("reply" \in Faults)} : done(ok)
     \/ /\ tried => "main" \in Faults
        /\ UNCHANGED mainRows
        /\ done(FALSE)
  /\ UNCHANGED <<ring, log, main, shutdown, numBackup, numWorker, backup,
                 answers, backupRows, movedRows, saved>>

(* NORMAL_SUCCEEDED: the row is removed from race_backup.  Whether that    *)
(* works makes no difference to the result.                                *)
WorkerRemove ==
  /\ worker.pc = "remove"
  /\ \/ backupRows' = backupRows \ {worker.req}
     \/ "remove" \in Faults /\ UNCHANGED backupRows
  /\ Continue("report", worker.success, worker.failMode)
  /\ UNCHANGED <<ring, log, main, shutdown, numBackup, numWorker, backup,
                 answers, mainRows, movedRows, saved>>

(* NORMAL_FAILED, its first statement: the row is copied from race_backup  *)
(* to race.  Copying no row is no error.                                   *)
MoveRow_Unsaved(req) == movedRows' = movedRows

MoveRow(req) == movedRows' = movedRows \cup ({req} \cap backupRows)

WorkerMove ==
  /\ worker.pc = "move"
  /\ \/ MoveRow(worker.req) /\ Continue("drop", FALSE, worker.failMode)
     \/ /\ "move" \in Faults
        /\ UNCHANGED movedRows
        /\ Continue("report", FALSE, worker.failMode)
  /\ UNCHANGED <<ring, log, main, shutdown, numBackup, numWorker, backup,
                 answers, mainRows, backupRows, saved>>

(* NORMAL_FAILED, its second statement: the row leaves race_backup. *)
WorkerDrop ==
  /\ worker.pc = "drop"
  /\ \/ /\ backupRows' = backupRows \ {worker.req}
        /\ Continue("report", TRUE, worker.failMode)
     \/ /\ "move" \in Faults
        /\ UNCHANGED backupRows
        /\ Continue("report", FALSE, worker.failMode)
  /\ UNCHANGED <<ring, log, main, shutdown, numBackup, numWorker, backup,
                 answers, mainRows, movedRows, saved>>

(* m_Success and m_Completed are set. *)
WorkerReport ==
  /\ worker.pc = "report"
  /\ answers' = Append(answers, worker.success)
  /\ worker' = [worker EXCEPT !.pc = "test", !.req = 0]
  /\ UNCHANGED <<ring, log, main, shutdown, numBackup, numWorker, backup>>
  /\ UNCHANGED rows

-----------------------------------------------------------------------------
MainStep == (\E k \in Kinds : Insert(k)) \/ ShutdownBegin
ShutdownStep == ShutdownReturn \/ Destroyed
BackupStep == BackupFetch \/ BackupExec
WorkerStep == \/ WorkerTest \/ WorkerTake \/ WorkerAdd \/ WorkerRead
              \/ WorkerWrite \/ WorkerRemove \/ WorkerMove \/ WorkerDrop
              \/ WorkerReport

Next == MainStep \/ ShutdownStep \/ BackupStep \/ WorkerStep

Spec == Init /\ [][Next]_vars

(* The threads run, and every call into a database returns. *)
FairSpec ==
  /\ Spec
  /\ WF_vars(ShutdownStep)
  /\ WF_vars(BackupStep)
  /\ WF_vars(WorkerStep)

-----------------------------------------------------------------------------
(* A rank the backup database has taken is never lost: at every moment,    *)
(* hence after a crash at any moment, its row is in some table.  ("This is *)
(* done to not loose ranks when the server shuts down before all queries   *)
(* are executed on the mysql server.")                                     *)
Durable == saved \subseteq mainRows \cup backupRows \cup movedRows

(* The ring is a queue: each thread finds in its next slot the request     *)
(* whose turn it is, the backup thread is never overtaken by the worker,   *)
(* and a request is answered before the next one is taken.                 *)
InTurn ==
  /\ worker.num <= backup.num
  /\ backup.pc = "exec" => backup.req = backup.num
  /\ worker.req # 0 => worker.req = worker.num - 1
  /\ Len(answers) = worker.num - 1 - (IF worker.req = 0 THEN 0 ELSE 1)

(* A row gets into the write database only after its copy was put into the *)
(* backup database, if there was one when the request was made.            *)
BackupFirst ==
  \A n \in mainRows :
    (\E k \in 1 .. (n - 1) : log[k] = "addBackup") => n \in saved

(* The pool is a RequestLog. *)
Abstract == INSTANCE RequestLog
              WITH stored <- mainRows \cup backupRows \cup movedRows
RequestSpec == Abstract!Spec

(* Shutting down comes to an end: both threads work through all requests   *)
(* and exit.                                                               *)
ShutdownEnds == (main = "waiting") ~> (main = "gone")

(* Every request is answered. *)
EveryRequestAnswered ==
  \A n \in 1 .. MaxRequests : (Len(log) >= n) ~> (Len(answers) >= n)
=============================================================================

------------------------------ MODULE DbImport ------------------------------
(***************************************************************************)
(* scripts/move_sqlite.py beside a running DbPool: once a day it copies    *)
(* the ranks of the backup database to a new file, to be imported into the *)
(* write database, and deletes them.  It takes all of record_race and the  *)
(* rows of record_race_backup older than --backup-timeout.  Its dump reads *)
(* one table after the other; the dump, the rows added to it and the       *)
(* deletes are a transaction each, and the script may end before any.      *)
(***************************************************************************)
EXTENDS DbPool

CONSTANT MaxImports   \* bound: how often the script starts

ASSUME ImportAssumption == MaxImports \in Nat

VARIABLES
  script,           \* pc, runs left, the newest request whose row is older
                    \* than the timeout, the rows read from either table
  imported,         \* the rows in the files the script has written
  missed,           \* history: the rows that got into record_race after the
                    \* script had read it and before it deleted
  twice             \* history: the ranks that a failure, or a worker later
                    \* than the timeout, may leave in two places

importVars == <<script, imported, missed, twice>>

Idle(n) == [pc |-> "idle", left |-> n, date |-> 0, races |-> {}, backups |-> {}]

ImportInit ==
  /\ Init
  /\ script = Idle(MaxImports)
  /\ imported = {}
  /\ missed = {}
  /\ twice = {}

-----------------------------------------------------------------------------
OlderThan(date, table) == {n \in table : n <= date}

(* If there is anything to move, record_race is dumped.  The timeout is    *)
(* long enough for the backup thread to have come past the older requests; *)
(* the worker, which waits for a remote server, may still be at them.      *)
ReadRaces ==
  /\ script.pc = "idle"
  /\ script.left > 0
  /\ \E date \in 0 .. (backup.num - 1) :
       /\ movedRows \cup OlderThan(date, backupRows) # {}
       /\ script' = [pc |-> "raced", left |-> script.left - 1, date |-> date,
                     races |-> movedRows, backups |-> {}]
  /\ UNCHANGED <<imported, missed, twice>>
  /\ UNCHANGED vars

(* The dump goes on to record_race_backup and ends with a COMMIT.  A row   *)
(* in both tables breaks the primary key of the copy when the old rows are *)
(* added to it and ends the script, with the dump in the file.             *)
ReadBackups ==
  /\ script.pc = "raced"
  /\ imported' = imported \cup script.races
  /\ LET old == OlderThan(script.date, backupRows) IN
     IF script.races \cap old = {}
       THEN /\ script' = [script EXCEPT !.pc = "read", !.backups = old]
            /\ UNCHANGED twice
       ELSE /\ script' = Idle(script.left)
            /\ twice' = twice \cup script.races
  /\ UNCHANGED missed
  /\ UNCHANGED vars

(* The old rows are committed, too.  The worker may have stored some of    *)
(* them since they were read, and may yet store the one it is at.          *)
CommitCopy ==
  /\ script.pc = "read"
  /\ imported' = imported \cup script.backups
  /\ script' = [script EXCEPT !.pc = "written"]
  /\ twice' = twice \cup (script.backups \ backupRows)
                   \cup {n \in script.backups : n > Len(answers)}
  /\ UNCHANGED missed
  /\ UNCHANGED vars

DeletedBackups_All == backupRows

DeletedBackups_Earlier == OlderThan(script.date - 1, backupRows)

DeletedRaces == movedRows

DeletedBackups == OlderThan(script.date, backupRows)

(* The originals are deleted. *)
DeleteRows ==
  /\ script.pc = "written"
  /\ movedRows' = movedRows \ DeletedRaces
  /\ backupRows' = backupRows \ DeletedBackups
  /\ script' = Idle(script.left)
  /\ UNCHANGED <<imported, missed, twice, ring, log, main, shutdown, numBackup,
                 numWorker, backup, worker, answers, mainRows, saved>>

(* The script is killed, or cannot get at the database; what it has not    *)
(* committed is gone, and what it has is not deleted any more.             *)
Killed ==
  /\ script.pc # "idle"
  /\ script' = Idle(script.left)
  /\ twice' = CASE script.pc = "raced" -> twice
               [] script.pc = "read" -> twice \cup script.races
               [] script.pc = "written" -> twice \cup script.races \cup script.backups
  /\ UNCHANGED <<imported, missed>>
  /\ UNCHANGED vars

Import == ReadRaces \/ ReadBackups \/ CommitCopy \/ DeleteRows \/ Killed

(* A row the worker has stored without knowing that it has, and a row it   *)
(* could not delete from race_backup when it had stored or moved it.       *)
LeftTwice ==
  (IF worker'.success THEN {} ELSE mainRows' \ mainRows)
    \cup (IF worker.pc \in {"remove", "drop"} /\ worker'.pc = "report"
            THEN {worker.req} \cap backupRows' ELSE {})

(* A step of the pool; a row that moves behind the script's back is noted. *)
PoolStep ==
  /\ Next
  /\ missed' = IF script.pc = "idle" THEN missed
                 ELSE missed \cup (movedRows' \ movedRows)
  /\ twice' = twice \cup LeftTwice
  /\ UNCHANGED <<script, imported>>

ImportNext == PoolStep \/ Import

ImportSpec == ImportInit /\ [][ImportNext]_<<vars, importVars>>

-----------------------------------------------------------------------------
Somewhere == mainRows \cup backupRows \cup movedRows \cup imported

(* "Move DDNet ranks, teamranks and saves from a possible active SQLite3   *)
(* to a new one", "where ranks are deleted from when moved successfully":  *)
(* a rank the backup database has taken is in some table or in the file,   *)
(* but for one case: the worker moves it to record_race after the script   *)
(* has read that table, and it is deleted unread.  Whatever else the two   *)
(* interleave does no harm, above all a worker later than the timeout.     *)
LostOnlyBehindTheDump == saved \ Somewhere \subseteq missed

(* Once a request is answered its rank is in one place: in the write       *)
(* database, in race_backup or in race of the backup database, or in a     *)
(* file to be imported.  The exceptions are those of twice: the answer of  *)
(* the write database was lost, a row could not be deleted, the script     *)
(* ended between its transactions, or it copied the row out of race_backup *)
(* while the worker was at it.  Such a rank "will show up as duplicate     *)
(* rank in MySQL".                                                         *)
StoredOnce ==
  LET once == (1 .. Len(answers)) \ twice IN
  script.pc \notin {"read", "written"} =>
    /\ once \cap mainRows \cap (backupRows \cup movedRows \cup imported) = {}
    /\ once \cap backupRows \cap (movedRows \cup imported) = {}
    /\ once \cap movedRows \cap imported = {}
=============================================================================

------------------------------ MODULE MCDbPool ------------------------------
(* Instances of DbPool for TLC. *)
EXTENDS DbPool

(* sv_use_sql 1: a remote write server, a read server, a local backup. *)
Mysql == <<"addWrite", "addRead", "addBackup">>
=============================================================================

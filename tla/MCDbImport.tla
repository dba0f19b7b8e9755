----------------------------- MODULE MCDbImport -----------------------------
(* Instances of DbImport for TLC. *)
EXTENDS DbImport

(* One database for writes; another may be registered behind it later. *)
Local == <<"addWrite">>
=============================================================================

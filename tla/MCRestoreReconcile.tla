-------------------------- MODULE MCRestoreReconcile --------------------------
(* Small instances of RestoreReconcile for TLC. *)
EXTENDS RestoreReconcile

===============================================================================

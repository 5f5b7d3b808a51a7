----------------------------- MODULE MCRestoreGate ----------------------------
(* Small instances of RestoreGate for TLC. *)
EXTENDS RestoreGate

==============================================================================

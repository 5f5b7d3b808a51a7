---------------------------- MODULE OperationRows ----------------------------
(***************************************************************************)
(* The operations table, which the lease protocol and the executors share. *)
(* What a row records is up to the module that writes it.                  *)
(***************************************************************************)
CONSTANT Ops        \* operation ids

VARIABLE op         \* the operations table: a row for each id
==============================================================================

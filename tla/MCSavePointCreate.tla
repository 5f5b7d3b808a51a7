--------------------------- MODULE MCSavePointCreate --------------------------
(* Small instances of SavePointCreate for TLC. *)
EXTENDS SavePointCreate

==============================================================================

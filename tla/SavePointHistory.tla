--------------------------- MODULE SavePointHistory --------------------------
(***************************************************************************)
(* The JVS history of a repo, and what the rows of its save_point_create   *)
(* operations promise about it.  `history' lists the operations that       *)
(* saved, oldest first; the id of a save point is its place in it.         *)
(***************************************************************************)
EXTENDS OperationRows, Integers, Sequences

VARIABLE history

SavesOf(o) == {i \in DOMAIN history : history[i] = o}

\* A succeeded operation names a save point that exists and that this very
\* operation made, and no other operation names it, even when a worker that
\* lost its lease saves in between.
SuccessNamesOwnSave ==
    \A o \in Ops : op[o].state = "succeeded" => op[o].save \in SavesOf(o)

\* A failure is honest: when the first attempt itself ends "failed" although
\* it saved (the save was no longer the head when it was verified), the
\* history has moved on past that save; nothing fails with its own save
\* still at the head.
FailureLeavesNoHead ==
    \A o \in Ops :
        op[o].state = "failed" /\ op[o].attempt = "first" =>
            \A i \in SavesOf(o) : i < Len(history)
==============================================================================

------------------------------ MODULE RepoSession -----------------------------
(***************************************************************************)
(* What a repo lifecycle operation relies on about the sessions of a repo, *)
(* exports and mounts together: `session' is "active" while one of them    *)
(* has a live lease, "stale" while one of them may still access the repo   *)
(* without one, and "none" otherwise.                                      *)
(*                                                                         *)
(* A session is opened by one statement.  It judges the lifecycle fence    *)
(* from its snapshot, then waits for its row locks and reads the repo and  *)
(* its metadata again under them, but not the fence: a fence set in        *)
(* between does not keep the session out.                                  *)
(***************************************************************************)
VARIABLES
    session,
    creating,   \* a create statement has read the fence
    usable,     \* the repo and its metadata are active
    fenced      \* a lifecycle fence is held

vars == <<session, creating, usable, fenced>>

Init == session = "none" /\ creating = FALSE

\* The snapshot of a create statement.
Begin == usable /\ ~fenced /\ creating' = TRUE /\ UNCHANGED session

\* Its insert.  A new export that no request has used yet counts as stale.
Open == /\ creating /\ usable
        /\ session' \in {"active", "stale"} /\ creating' \in BOOLEAN

GiveUp == creating /\ creating' \in BOOLEAN /\ UNCHANGED session

\* Heartbeats and observations come or lapse; the last session ends.
Change == /\ session \in {"active", "stale"}
          /\ session' \in {"none", "active", "stale"}
          /\ UNCHANGED creating

\* The repo and its fence change by themselves.
Next == Begin \/ Open \/ GiveUp \/ Change \/ UNCHANGED <<session, creating>>

Spec == Init /\ [][Next]_vars
==============================================================================

--------------------------- MODULE OperationStates ---------------------------
(***************************************************************************)
(* The abstract life of an operation: the state table of                   *)
(* internal/operations/state.go.  An operation that exists is in one of    *)
(* seven states; the table says which state may follow which.  Every       *)
(* writer of the operations table (recovery leases, worker commits,        *)
(* cancellation, operator repair) is an SQL statement of its own that      *)
(* never consults this table, so that they respect it is a refinement to   *)
(* be shown, not a fact of the code.                                       *)
(***************************************************************************)
CONSTANT Ops

VARIABLE state

Absent == "absent"

OperationState ==
    {"queued", "running", "succeeded", "failed", "cancel_requested",
     "cancelled", "operator_intervention_required"}

Terminal == {"succeeded", "failed", "cancelled"}

\* allowedNextStates: a terminal state has no successor.
AllowedNextStates ==
    [s \in OperationState |->
        CASE s = "queued" ->
                {"running", "cancel_requested", "cancelled", "failed",
                 "operator_intervention_required"}
          [] s = "running" ->
                {"succeeded", "failed", "cancel_requested", "cancelled",
                 "operator_intervention_required"}
          [] s = "cancel_requested" ->
                {"cancelled", "failed", "operator_intervention_required"}
          [] s = "operator_intervention_required" ->
                {"running", "failed", "cancelled"}
          [] OTHER -> {}]

\* Moving to the same state is always valid (state.go: ValidateTransition).
ValidTransition(from, to) == to = from \/ to \in AllowedNextStates[from]

Init == state = [o \in Ops |-> Absent]

Create(o) ==
    /\ state[o] = Absent
    /\ state' = [state EXCEPT ![o] = "queued"]

Transition(o) ==
    /\ state[o] \in OperationState
    /\ \E s \in AllowedNextStates[state[o]] :
           state' = [state EXCEPT ![o] = s]

Next == \E o \in Ops : Create(o) \/ Transition(o)

Spec == Init /\ [][Next]_state
==============================================================================

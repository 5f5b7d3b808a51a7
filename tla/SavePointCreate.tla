---------------------------- MODULE SavePointCreate ---------------------------
(***************************************************************************)
(* save_point_create operations of one repo: the SavePointExecutor of      *)
(* internal/repoexec with the lease and commit statements it goes through  *)
(* (internal/store/postgres).                                              *)
(*                                                                         *)
(* The effect of an operation, a save point in the JVS history of the      *)
(* repo, is outside the database and cannot be undone; SavePointHistory    *)
(* says what the rows promise about it.  A lease is live or expired,       *)
(* without a clock; a worker whose lease has expired goes on until a       *)
(* commit tells it so.                                                     *)
(***************************************************************************)
EXTENDS SavePointHistory

CONSTANTS
    Workers,        \* lease owners
    NoOwner,        \* lease_owner IS NULL
    NoOp,           \* a worker that handles no operation
    MaxStop,        \* bound on workers that stop in mid-operation
    MaxStall        \* bound on leases that expire under a working worker

ASSUME NullAssumption == NoOwner \notin Workers /\ NoOp \notin Ops
ASSUME StopBoundAssumption == MaxStop \in Nat /\ MaxStall \in Nat

VARIABLES
    worker,     \* the memory of each worker
    stops,      \* workers stopped so far
    stalls      \* leases lost under a working worker so far

vars == <<op, worker, history, stops, stalls>>

Terminal == {"succeeded", "failed"}

\* error_json: the writer-drain-pending mark of an attempt JVS turned away.
Marker == {"none", "drain_pending"}

OperationRecord ==
    [state: {"absent", "queued", "running", "operator_intervention_required"}
                \cup Terminal,
     lease: {"none", "live", "expired"},
     owner: Workers \cup {NoOwner},
     attempt: {"none", "first", "later"},
     marker: Marker,
     save: Nat]                     \* save_point_id, 0 when not recorded

\* An executor's memory: the plan made at the scan, the record returned by
\* the acquisition (attempt and marker) and the save it made.
WorkerRecord ==
    [pc: {"idle", "planned", "leased", "saving", "saved", "committing"},
     op: Ops \cup {NoOp},
     plan: {"none", "claimable", "reclaim"},
     attempt: {"none", "first", "later"},
     marker: Marker,
     save: Nat,
     outcome: {"none", "succeeded", "failed", "pending",
               "operator_intervention_required"}]

TypeOK ==
    /\ op \in [Ops -> OperationRecord]
    /\ worker \in [Workers -> WorkerRecord]
    /\ history \in Seq(Ops)
    /\ stops \in 0..MaxStop
    /\ stalls \in 0..MaxStall

IdleWorker ==
    [pc |-> "idle", op |-> NoOp, plan |-> "none", attempt |-> "none",
     marker |-> "none", save |-> 0, outcome |-> "none"]

Init ==
    /\ op = [o \in Ops |-> [state |-> "absent", lease |-> "none",
                            owner |-> NoOwner, attempt |-> "none",
                            marker |-> "none", save |-> 0]]
    /\ worker = [w \in Workers |-> IdleWorker]
    /\ history = <<>>
    /\ stops = 0
    /\ stalls = 0

Executes(w, o) == worker[w].op = o /\ worker[w].pc \notin {"idle", "planned"}

------------------------------------------------------------------------------
(* Intake and planning.                                                     *)

\* At most one JVS mutation of a repo is unfinished (a unique index).
CreateOperation(o) ==
    /\ op[o].state = "absent"
    /\ \A p \in Ops : op[p].state \in Terminal \cup {"absent"}
    /\ op' = [op EXCEPT ![o].state = "queued"]
    /\ UNCHANGED <<worker, history, stops, stalls>>

\* The coordinator lists the row and classifies it.  No statement returns a
\* row to "queued", so the retry plan does not occur; waiting, intervention
\* and ended rows are passed over.
Plan(r) ==
    CASE r.state = "queued" -> "claimable"
      [] r.state = "running" /\ r.lease = "expired" -> "reclaim"
      [] OTHER -> "none"

Scan(w, o) ==
    /\ worker[w].pc = "idle"
    /\ Plan(op[o]) # "none"
    /\ worker' = [worker EXCEPT
                    ![w] = [IdleWorker EXCEPT !.pc = "planned", !.op = o,
                                              !.plan = Plan(op[o])]]
    /\ UNCHANGED <<op, history, stops, stalls>>

\* The acquisition looks at the row as it is now, not at the plan.
CanAcquire(r) ==
    r.state = "queued" \/ (r.state = "running" /\ r.lease = "expired")

Acquire(w) ==
    LET o == worker[w].op
        attempt == IF op[o].attempt = "none" THEN "first" ELSE "later" IN
    /\ worker[w].pc = "planned"
    /\ CanAcquire(op[o])
    /\ op' = [op EXCEPT ![o] = [@ EXCEPT !.state = "running",
                                         !.lease = "live", !.owner = w,
                                         !.attempt = attempt]]
    /\ worker' = [worker EXCEPT ![w] = [@ EXCEPT !.pc = "leased",
                                                 !.attempt = attempt,
                                                 !.marker = op[o].marker]]
    /\ UNCHANGED <<history, stops, stalls>>

RaceLost(w) ==
    /\ worker[w].pc = "planned"
    /\ ~CanAcquire(op[worker[w].op])
    /\ worker' = [worker EXCEPT ![w] = IdleWorker]
    /\ UNCHANGED <<op, history, stops, stalls>>

------------------------------------------------------------------------------
(* The executor.                                                            *)

\* A first run, or a reclaim of a row whose last attempt JVS turned away.
CanRunPreSave(r) ==
    \/ r.plan = "claimable"
    \/ r.plan = "reclaim" /\ r.marker = "drain_pending"

Ends(w, outcome) ==
    worker' = [worker EXCEPT ![w] = [@ EXCEPT !.pc = "committing",
                                              !.outcome = outcome]]

\* A reclaim that may already have saved goes to the operator.
RefuseUncertain(w) ==
    /\ worker[w].pc = "leased"
    /\ ~CanRunPreSave(worker[w])
    /\ Ends(w, "operator_intervention_required")
    /\ UNCHANGED <<op, history, stops, stalls>>

\* Metadata is read and judged: usable, unusable (failed), or a target that
\* cannot be resolved (intervention).
Validate(w, verdict) ==
    /\ worker[w].pc = "leased"
    /\ CanRunPreSave(worker[w])
    /\ IF verdict = "ok"
       THEN worker' = [worker EXCEPT ![w].pc = "saving"]
       ELSE Ends(w, verdict)
    /\ UNCHANGED <<op, history, stops, stalls>>

SaveResult == {"saved", "busy", "refused", "saved_unknown", "unknown"}

\* The save point is in the history, whether or not the executor hears of it.
Saved(r) == r \in {"saved", "saved_unknown"}

\* A readable answer that names the new head of the history.
Answered(r) == r = "saved"

\* Wrong: a save whose result is unknown is taken for one that failed.
SaveOutcomeUnknownFails(r) == IF r = "busy" THEN "pending" ELSE "failed"

\* JVS was busy or refused, neither of which has an effect, or the executor
\* cannot tell (cancelled, unreadable or invalid answer).
SaveOutcome(r) ==
    CASE r = "busy" -> "pending"
      [] r = "refused" -> "failed"
      [] OTHER -> "operator_intervention_required"

DirectSave(w, r) ==
    /\ worker[w].pc = "saving"
    /\ history' = IF Saved(r) THEN Append(history, worker[w].op) ELSE history
    /\ IF Answered(r)
       THEN worker' = [worker EXCEPT ![w] = [@ EXCEPT !.pc = "saved",
                                               !.save = Len(history) + 1]]
       ELSE Ends(w, SaveOutcome(r))
    /\ UNCHANGED <<op, stops, stalls>>

\* history_head of the list JVS gives.
HistoryHead == Len(history)

\* Wrong: whatever heads the history is taken for the save just made.
VerifyAdoptsHead(w, listed) ==
    /\ worker[w].pc = "saved"
    /\ worker' = [worker EXCEPT ![w] = [@ EXCEPT !.pc = "committing",
                                                 !.save = HistoryHead,
                                                 !.outcome = "succeeded"]]
    /\ UNCHANGED <<op, history, stops, stalls>>

\* The save counts only if it is still the head of the history.
VerifyVisible(w, listed) ==
    /\ worker[w].pc = "saved"
    /\ Ends(w, IF ~listed THEN "operator_intervention_required"
               ELSE IF HistoryHead = worker[w].save THEN "succeeded"
               ELSE "failed")
    /\ UNCHANGED <<op, history, stops, stalls>>

\* Wrong: the pending mark gives the lease up instead of expiring it.
CommittedDropsLease(r, m) ==
    CASE m.outcome = "pending" ->
            [r EXCEPT !.lease = "none", !.owner = NoOwner,
                      !.marker = "drain_pending"]
      [] OTHER ->
            [r EXCEPT !.state = m.outcome, !.lease = "none",
                      !.owner = NoOwner, !.marker = "none",
                      !.save = IF m.outcome = "succeeded" THEN m.save ELSE 0]

\* The row of an accepted commit; a pending mark expires the lease at once.
Committed(r, m) ==
    CASE m.outcome = "pending" ->
            [r EXCEPT !.lease = "expired", !.marker = "drain_pending"]
      [] OTHER ->
            [r EXCEPT !.state = m.outcome, !.lease = "none",
                      !.owner = NoOwner, !.marker = "none",
                      !.save = IF m.outcome = "succeeded" THEN m.save ELSE 0]

\* What the store checks before the statement: a success names one save
\* point, the same in the answer of JVS and in the verification.
ValidRecord(m) == m.outcome = "succeeded" => m.save > 0

\* The statement compares the expiry with a time read earlier, so it may
\* still take a row whose lease has just run out, never another owner's.
Commit(w) ==
    LET o == worker[w].op IN
    /\ worker[w].pc = "committing"
    /\ ValidRecord(worker[w])
    /\ op[o].state = "running" /\ op[o].owner = w
    /\ op' = [op EXCEPT ![o] = Committed(op[o], worker[w])]
    /\ worker' = [worker EXCEPT ![w] = IdleWorker]
    /\ UNCHANGED <<history, stops, stalls>>

CommitRejected(w) ==
    LET o == worker[w].op IN
    /\ worker[w].pc = "committing"
    /\ ValidRecord(worker[w]) =>
          op[o].state # "running" \/ op[o].owner # w \/ op[o].lease = "expired"
    /\ worker' = [worker EXCEPT ![w] = IdleWorker]
    /\ UNCHANGED <<op, history, stops, stalls>>

------------------------------------------------------------------------------
(* Failures and time.                                                       *)

\* Crash, failed renewal or lost statement: memory goes, the lease stays.
Stop(w) ==
    /\ worker[w].pc # "idle"
    /\ stops < MaxStop
    /\ stops' = stops + 1
    /\ worker' = [worker EXCEPT ![w] = IdleWorker]
    /\ UNCHANGED <<op, history, stalls>>

\* A lease nobody renews runs out.
Expire(o) ==
    /\ op[o].lease = "live"
    /\ ~Executes(op[o].owner, o)
    /\ op' = [op EXCEPT ![o].lease = "expired"]
    /\ UNCHANGED <<worker, history, stops, stalls>>

\* A lease runs out under a worker too slow to renew it.
Stall(o) ==
    /\ op[o].lease = "live"
    /\ Executes(op[o].owner, o)
    /\ stalls < MaxStall
    /\ stalls' = stalls + 1
    /\ op' = [op EXCEPT ![o].lease = "expired"]
    /\ UNCHANGED <<worker, history, stops>>

\* Everything a worker does in one pass.
Step(w) ==
    \/ \E o \in Ops : Scan(w, o)
    \/ Acquire(w) \/ RaceLost(w) \/ RefuseUncertain(w)
    \/ \E v \in {"ok", "failed", "operator_intervention_required"} :
          Validate(w, v)
    \/ \E r \in SaveResult : DirectSave(w, r)
    \/ \E listed \in BOOLEAN : VerifyVisible(w, listed)
    \/ Commit(w) \/ CommitRejected(w)

Next ==
    \/ \E o \in Ops : CreateOperation(o) \/ Expire(o) \/ Stall(o)
    \/ \E w \in Workers : Step(w) \/ Stop(w)

\* Workers run pass after pass, an abandoned lease runs out, and JVS does
\* not answer "busy" for ever.
Fairness ==
    /\ \A w \in Workers : WF_vars(Step(w)) /\ SF_vars(DirectSave(w, "saved"))
    /\ \A o \in Ops : WF_vars(Expire(o))

Spec == Init /\ [][Next]_vars /\ Fairness

------------------------------------------------------------------------------
(* Properties.                                                              *)

\* An accepted operation does not stay queued or running for ever: crashes,
\* lost leases and a busy JVS end in success, failure or intervention.
Settles ==
    \A o \in Ops :
        op[o].state = "queued" ~>
            op[o].state \in Terminal \cup {"operator_intervention_required"}
==============================================================================

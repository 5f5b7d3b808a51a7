---------------------------- MODULE OperationLease ----------------------------
(***************************************************************************)
(* Operation rows, their leases and the workers that recover them:         *)
(* internal/operations/lease.go, the lease and fenced-commit statements of *)
(* internal/store/postgres/operations.go, the recovery planner of          *)
(* internal/inspection and the OperationCoordinator of internal/recovery.  *)
(*                                                                         *)
(* What is kept: a worker reads a row and plans on that snapshot; it       *)
(* acquires the lease later, at another time, with a statement that looks  *)
(* at the row and not at the plan; it executes while a second goroutine    *)
(* renews; it fixes the time it will commit with some while before the     *)
(* commit reaches the database.  A worker may stop anywhere (crash, error, *)
(* lost statement, an executor that returns without committing) and may be *)
(* arbitrarily slow, so two workers can execute the same operation at once *)
(* and only the database tells them apart.                                 *)
(*                                                                         *)
(* What is abstracted: the executors.  An execution is the choice of an    *)
(* outcome; the domain rows it writes in the same statement are the        *)
(* subject of other modules.  Workers have distinct owner names            *)
(* (AFSCP_WORKER_OWNER) and one clock, `now', a bounded natural number.    *)
(***************************************************************************)
EXTENDS Integers, OperationRows

CONSTANTS
    Workers,        \* lease owners
    NoOwner,        \* lease_owner IS NULL
    NoOp,           \* a worker that handles no operation
    LeaseDuration,
    MaxNow,         \* bound on the clock
    MaxAttempt      \* bound on the attempts of one operation

ASSUME OwnerAssumption == NoOwner \notin Workers
ASSUME OpAssumption == NoOp \notin Ops
ASSUME DurationAssumption == LeaseDuration \in Nat \ {0}
ASSUME BoundAssumption == MaxNow \in Nat /\ MaxAttempt \in Nat

VARIABLES
    now,        \* the clock
    worker,     \* what each worker process holds in memory
    audit       \* audit outbox rows per operation and outcome

vars == <<now, op, worker, audit>>

Absent == "absent"

OperationState ==
    {"queued", "running", "succeeded", "failed", "cancel_requested",
     "cancelled", "operator_intervention_required"}

Terminal == {"succeeded", "failed", "cancelled"}

NoTime == -1                    \* lease_expires_at IS NULL

\* An operation row.  The marker is what the coordinator leaves in error_json
\* when no executor supports the operation.
Marker == {"none", "unsupported"}

OperationRecord ==
    [state: OperationState \cup {Absent},
     attempt: Nat,
     owner: Workers \cup {NoOwner},
     expires: Nat \cup {NoTime},
     marker: Marker]

RecoveryAction ==
    {"claimable", "retry", "reclaim", "finalize_cancellation", "wait",
     "manual", "noop"}

\* What an execution ends with: a state to commit, a running row whose lease
\* is kept ("progress") or given up at once ("pending", the drain marks).
Outcome ==
    {"succeeded", "failed", "operator_intervention_required", "progress",
     "pending"}

WorkerRecord ==
    [pc: {"idle", "planned", "executing", "committing"},
     op: Ops \cup {NoOp},
     plan: RecoveryAction,
     marker: Marker,            \* "unsupported": no executor for it
     attempt: Nat,              \* attempt of the record acquired
     until: Nat,                \* the lease end this worker was told
     outcome: Outcome,
     time: Nat]                 \* the time passed to the commit

\* Outcomes of audit events (audit.OutcomeDenied is for requests refused
\* before they become operations).
AuditOutcome == {"succeeded", "failed"}

TypeOK ==
    /\ now \in Nat
    /\ op \in [Ops -> OperationRecord]
    /\ worker \in [Workers -> WorkerRecord]
    /\ audit \in [Ops -> [AuditOutcome -> Nat]]

IdleWorker ==
    [pc |-> "idle", op |-> NoOp, plan |-> "noop", marker |-> "none",
     attempt |-> 0, until |-> 0, outcome |-> "failed", time |-> 0]

Init ==
    /\ now = 0
    /\ op = [o \in Ops |-> [state |-> Absent, attempt |-> 0,
                            owner |-> NoOwner, expires |-> NoTime,
                            marker |-> "none"]]
    /\ worker = [w \in Workers |-> IdleWorker]
    /\ audit = [o \in Ops |-> [a \in AuditOutcome |-> 0]]

------------------------------------------------------------------------------
(* The row predicates and updates of the SQL statements.                    *)

HasLease(r) == r.owner # NoOwner /\ r.expires # NoTime

NoLease(r) == r.owner = NoOwner /\ r.expires = NoTime

Later(a, b) == IF a < b THEN b ELSE a

\* ListOperationsForRecovery: rows worth a look at time t.
RecoveryCandidate(r, t) ==
    \/ r.state \in {"queued", "operator_intervention_required"}
    \/ /\ r.state \in {"running", "cancel_requested"}
       /\ ~(HasLease(r) /\ r.expires > t)

ClassifyOperationRecovery(r, t) ==
    CASE r.state \in Terminal /\ (HasLease(r) \/ NoLease(r)) -> "noop"
      [] r.state = "queued" /\ HasLease(r) -> "manual"
      [] r.state = "queued" /\ NoLease(r) ->
            IF r.attempt > 0 THEN "retry" ELSE "claimable"
      [] r.state = "running" /\ NoLease(r) -> "manual"
      [] r.state = "running" /\ HasLease(r) ->
            IF r.expires > t THEN "wait" ELSE "reclaim"
      [] r.state = "cancel_requested" /\ HasLease(r) /\ r.expires > t -> "wait"
      [] /\ r.state = "cancel_requested"
         /\ NoLease(r) \/ (HasLease(r) /\ r.expires <= t) ->
            "finalize_cancellation"
      [] OTHER -> "manual"      \* and whenever half a lease is set

\* Wrong: the expiry is not looked at.
CanAcquireLive(r, t, explicit, finalize) ==
    r.state = "queued" \/ r.state = "running"

\* Who may take the row: a queued row, a running row whose lease has run
\* out, an intervention row on an explicit recovery action, a cancelled-upon
\* row nobody holds when the caller finalizes.
CanAcquire(r, t, explicit, finalize) ==
    \/ r.state = "queued" /\ NoLease(r)
    \/ r.state = "running" /\ HasLease(r) /\ r.expires <= t
    \/ r.state = "operator_intervention_required" /\ explicit
    \/ /\ r.state = "cancel_requested" /\ finalize
       /\ NoLease(r) \/ (HasLease(r) /\ r.expires <= t)

\* Wrong: a takeover keeps the owner already on the row.
AcquiredRecordKeepsOwner(r, w, t) ==
    [r EXCEPT !.state = "running", !.attempt = r.attempt + 1,
              !.owner = IF r.owner = NoOwner THEN w ELSE r.owner,
              !.expires = t + LeaseDuration]

AcquiredRecord(r, w, t) ==
    IF r.state = "cancel_requested"
    THEN [r EXCEPT !.state = "cancelled", !.owner = NoOwner,
                   !.expires = NoTime]
    ELSE [r EXCEPT !.state = "running", !.attempt = r.attempt + 1,
                   !.owner = w, !.expires = t + LeaseDuration]

CanRenew(r, w, t) ==
    r.state = "running" /\ r.owner = w /\ r.expires # NoTime /\ r.expires > t

\* Wrong: the state column is left out of the fence.
LeaseFencedIgnoringState(r, w, t) ==
    r.owner = w /\ r.expires # NoTime /\ r.expires > t

\* The WHERE clause of every commit a worker makes.
LeaseFenced(r, w, t) ==
    r.state = "running" /\ r.owner = w /\ r.expires # NoTime /\ r.expires > t

\* A commit that ends the execution clears the lease; one that only moves
\* the phase keeps it; a drain mark makes the row reclaimable at once.
CommittedRecord(r, outcome, t, marker) ==
    CASE outcome = "progress" -> r
      [] outcome = "pending" -> [r EXCEPT !.expires = t]
      [] OTHER -> [r EXCEPT !.state = outcome, !.owner = NoOwner,
                            !.expires = NoTime,
                            !.marker = marker]

\* The event of the commit: setting an operation aside for the operator is
\* reported as a failure too.
CommittedAudit(a, outcome) ==
    CASE outcome = "succeeded" -> [a EXCEPT !["succeeded"] = @ + 1]
      [] outcome \in {"failed", "operator_intervention_required"} ->
            [a EXCEPT !["failed"] = @ + 1]
      [] OTHER -> a

------------------------------------------------------------------------------
(* Intake, cancellation and the operator.                                   *)

CreateOperation(o) ==
    /\ op[o].state = Absent
    /\ op' = [op EXCEPT ![o].state = "queued"]
    /\ UNCHANGED <<now, worker, audit>>

\* No handler of this version asks for a cancellation; the statements above
\* and the planner handle the row it would leave.
RequestCancel(o) ==
    /\ op[o].state \in {"queued", "running"}
    /\ op' = [op EXCEPT ![o].state = "cancel_requested"]
    /\ UNCHANGED <<now, worker, audit>>

\* Wrong: the repair does not compare the state it was decided on.
OperatorRepairBlind(o) ==
    /\ op[o].marker = "unsupported"
    /\ NoLease(op[o])
    /\ op' = [op EXCEPT ![o].state = "failed"]
    /\ audit' = [audit EXCEPT ![o]["failed"] = @ + 1]
    /\ UNCHANGED <<now, worker>>

\* Operator repair terminalizes an intervention row that carries the
\* unsupported marker and no lease, with its audit event.
OperatorRepair(o) ==
    /\ op[o].state = "operator_intervention_required"
    /\ op[o].marker = "unsupported"
    /\ NoLease(op[o])
    /\ op' = [op EXCEPT ![o].state = "failed"]
    /\ audit' = [audit EXCEPT ![o]["failed"] = @ + 1]
    /\ UNCHANGED <<now, worker>>

------------------------------------------------------------------------------
(* The coordinator's pass over one operation.                               *)

\* List and classify: the plan is made of this snapshot.
Scan(w, o) ==
    /\ worker[w].pc = "idle"
    /\ RecoveryCandidate(op[o], now)
    /\ worker' = [worker EXCEPT
                    ![w] = [IdleWorker EXCEPT
                              !.pc = "planned", !.op = o,
                              !.plan = ClassifyOperationRecovery(op[o], now)]]
    /\ UNCHANGED <<now, op, audit>>

Skip(w) ==
    /\ worker[w].pc = "planned"
    /\ worker[w].plan \in {"wait", "noop", "manual"}
    /\ worker' = [worker EXCEPT ![w] = IdleWorker]
    /\ UNCHANGED <<now, op, audit>>

\* The lease was lost to another worker since the scan (race_lost).
RaceLost(w) ==
    /\ worker[w].pc = "planned"
    /\ worker[w].plan \in {"claimable", "retry", "reclaim",
                           "finalize_cancellation"}
    /\ ~CanAcquire(op[worker[w].op], now, FALSE,
                   worker[w].plan = "finalize_cancellation")
    /\ worker' = [worker EXCEPT ![w] = IdleWorker]
    /\ UNCHANGED <<now, op, audit>>

\* Take the lease and start the executor (or, when no executor supports the
\* operation, only the commit that says so).
Acquire(w, marker) ==
    LET o == worker[w].op IN
    /\ worker[w].pc = "planned"
    /\ worker[w].plan \in {"claimable", "retry", "reclaim"}
    /\ CanAcquire(op[o], now, FALSE, FALSE)
    /\ op[o].attempt < MaxAttempt
    /\ op' = [op EXCEPT ![o] = AcquiredRecord(op[o], w, now)]
    /\ worker' = [worker EXCEPT
                    ![w] = [@ EXCEPT !.pc = "executing", !.marker = marker,
                                     !.attempt = op[o].attempt + 1,
                                     !.until = now + LeaseDuration]]
    /\ UNCHANGED <<now, audit>>

FinalizeCancellation(w) ==
    LET o == worker[w].op IN
    /\ worker[w].pc = "planned"
    /\ worker[w].plan = "finalize_cancellation"
    /\ CanAcquire(op[o], now, FALSE, TRUE)
    /\ op' = [op EXCEPT ![o] = AcquiredRecord(op[o], w, now)]
    /\ worker' = [worker EXCEPT ![w] = IdleWorker]
    /\ UNCHANGED <<now, audit>>

\* AcquireOperationLease with explicit_recovery_action.
ExplicitRecovery(w, o) ==
    /\ worker[w].pc = "idle"
    /\ op[o].state = "operator_intervention_required"
    /\ CanAcquire(op[o], now, TRUE, FALSE)
    /\ op[o].attempt < MaxAttempt
    /\ op' = [op EXCEPT ![o] = AcquiredRecord(op[o], w, now)]
    /\ worker' = [worker EXCEPT
                    ![w] = [IdleWorker EXCEPT
                              !.pc = "executing", !.op = o,
                              !.attempt = op[o].attempt + 1,
                              !.until = now + LeaseDuration]]
    /\ UNCHANGED <<now, audit>>

\* A tick of the renewal goroutine that the database accepts.
Renew(w) ==
    LET o == worker[w].op
        e == Later(op[o].expires, now + LeaseDuration) IN
    /\ worker[w].pc \in {"executing", "committing"}
    /\ CanRenew(op[o], w, now)
    /\ op' = [op EXCEPT ![o].expires = e]
    /\ worker' = [worker EXCEPT ![w].until = e]
    /\ UNCHANGED <<now, audit>>

\* The executor settles on an outcome and fixes the time of its commit.
PrepareCommit(w, outcome) ==
    /\ worker[w].pc = "executing"
    /\ worker[w].marker = "unsupported" =>
           outcome = "operator_intervention_required"
    /\ worker' = [worker EXCEPT ![w].pc = "committing",
                                ![w].outcome = outcome,
                                ![w].time = now]
    /\ UNCHANGED <<now, op, audit>>

\* The commit reaches the database: row and audit event in one statement.
Commit(w) ==
    LET o == worker[w].op
        out == worker[w].outcome IN
    /\ worker[w].pc = "committing"
    /\ LeaseFenced(op[o], w, worker[w].time)
    /\ op' = [op EXCEPT ![o] = CommittedRecord(op[o], out, worker[w].time,
                                               worker[w].marker)]
    /\ audit' = [audit EXCEPT ![o] = CommittedAudit(audit[o], out)]
    /\ worker' = [worker EXCEPT
                    ![w] = IF out = "progress"
                           THEN [@ EXCEPT !.pc = "executing"]
                           ELSE IdleWorker]
    /\ UNCHANGED now

\* The commit matched no row: lease unavailable, the batch ends.
CommitRejected(w) ==
    /\ worker[w].pc = "committing"
    /\ ~LeaseFenced(op[worker[w].op], w, worker[w].time)
    /\ worker' = [worker EXCEPT ![w] = IdleWorker]
    /\ UNCHANGED <<now, op, audit>>

\* Crash and restart, a renewal failure that cancels the executor, a
\* statement that never arrives, or an executor that returns without a
\* commit: memory is gone, the row keeps its lease.
Stop(w) ==
    /\ worker[w].pc # "idle"
    /\ worker' = [worker EXCEPT ![w] = IdleWorker]
    /\ UNCHANGED <<now, op, audit>>

Tick ==
    /\ now < MaxNow
    /\ now' = now + 1
    /\ UNCHANGED <<op, worker, audit>>

Next ==
    \/ Tick
    \/ \E o \in Ops :
          CreateOperation(o) \/ RequestCancel(o) \/ OperatorRepair(o)
    \/ \E w \in Workers :
          \/ \E o \in Ops : Scan(w, o) \/ ExplicitRecovery(w, o)
          \/ \E marker \in Marker : Acquire(w, marker)
          \/ \E outcome \in Outcome : PrepareCommit(w, outcome)
          \/ Skip(w) \/ RaceLost(w) \/ FinalizeCancellation(w)
          \/ Renew(w) \/ Commit(w) \/ CommitRejected(w) \/ Stop(w)

Spec == Init /\ [][Next]_vars

------------------------------------------------------------------------------
(* Properties.                                                              *)

Holds(w, o) == worker[w].pc \in {"executing", "committing"} /\ worker[w].op = o

\* Every row the statements can leave behind is one the planner can act on:
\* a running row always carries a complete lease and every other row but one
\* waiting for its cancellation carries none.  A row outside this shape would
\* be classified "manual" on every pass and never run again.
LeaseShape ==
    \A o \in Ops :
        /\ op[o].state = "running" => HasLease(op[o])
        /\ op[o].state = "cancel_requested" => HasLease(op[o]) \/ NoLease(op[o])
        /\ op[o].state \notin {"running", "cancel_requested"} => NoLease(op[o])

\* Two workers never both execute one operation while each was told by the
\* database that its lease is still running: takeover waits for the end of
\* the lease as the loser knows it, renewals included.
LeaseExclusion ==
    \A o \in Ops : \A v, w \in Workers :
        v # w /\ Holds(v, o) /\ Holds(w, o) =>
            ~(worker[v].until > now /\ worker[w].until > now)

\* The owner column is a sound fence: a worker still executing an old
\* attempt can never find its own name on a row that has moved to a later
\* one, so what it commits is the result of the current attempt.
FenceIsCurrent ==
    \A o \in Ops : \A w \in Workers :
        Holds(w, o) /\ op[o].owner = w => op[o].attempt = worker[w].attempt

\* The events a row accounts for, one for each attempt that has ended; the
\* attempt that is running has reported nothing yet, and only a repair, which
\* ends the operation, adds an event without an attempt of its own.
ReportMatches(r, events) ==
    /\ events["succeeded"] = IF r.state = "succeeded" THEN 1 ELSE 0
    /\ r.state \in {"failed", "operator_intervention_required"} =>
           events["failed"] > 0
    /\ events["succeeded"] + events["failed"] <=
           CASE r.state = "running" -> r.attempt - 1
             [] r.state = "failed" -> r.attempt + 1
             [] OTHER -> r.attempt

\* The audit trail tells what happened to an operation: one success event
\* if and only if it succeeded, a failure event behind every failed row and
\* every row set aside, and no attempt reported twice, whatever commits of
\* late workers and repairs arrive.
AuditMatchesOutcome == \A o \in Ops : ReportMatches(op[o], audit[o])

\* A terminal row is never written again, whatever slow workers still try.
TerminalIsFinal ==
    [][\A o \in Ops : op[o].state \in Terminal => op'[o] = op[o]]_vars

\* The rows follow the state table of state.go.
States == INSTANCE OperationStates WITH state <- [o \in Ops |-> op[o].state]

StatesSpec == States!Spec
==============================================================================

------------------------------ MODULE RestoreGate -----------------------------
(***************************************************************************)
(* A direct restore of a repo beside the repo's read-write export          *)
(* sessions: the RestoreExecutor of internal/repoexec, the writer gate of  *)
(* internal/sessionstate, the writer-session fence of repo_fences and the  *)
(* statements of internal/store/postgres/restore_operations.go, composed   *)
(* with module ExportSession.                                              *)
(*                                                                         *)
(* The fence stops new sessions; the gate waits for the old ones; the      *)
(* restore then rewrites the payload the sessions write to.  Workers may   *)
(* stop and lose their lease as in SavePointCreate; a lease is live or     *)
(* expired.  Workload mounts and lifecycle fences are not part of this     *)
(* module.                                                                 *)
(***************************************************************************)
EXTENDS ExportSession

CONSTANTS
    Workers,
    NoOwner,
    MaxStop,            \* bound on workers that stop in mid-operation
    MaxStall            \* bound on leases that expire under a worker

ASSUME RestoreOwnerAssumption == NoOwner \notin Workers
ASSUME RestoreBoundAssumption == MaxStop \in Nat /\ MaxStall \in Nat

VARIABLES
    op,         \* the restore operation
    fence,      \* its writer-session fence
    worker,
    creating,   \* the row each create handler is about to insert, or NoRow
    overtaken,  \* read-write sessions inserted while the fence was held
    late,       \* writes begun under the fence when their session had expired
    stops,
    stalls

\* What became of the creates and requests that raced the fence and the clock.
raced == <<overtaken, late>>

restoreVars == <<op, fence, worker, creating, raced, stops, stalls>>

vars == <<exportVars, restoreVars>>

Terminal == {"succeeded", "failed"}

OperationRecord ==
    [state: {"absent", "queued", "running", "operator_intervention_required"}
                \cup Terminal,
     phase: {"validate_restore", "restore_writer_fenced"},
     lease: {"none", "live", "expired"},
     owner: Workers \cup {NoOwner}]

Outcome == Terminal \cup {"none", "pending", "operator_intervention_required"}

\* time: read once, when the execution starts, and used by the gate; 0 once
\* the gate is behind.
WorkerRecord ==
    [pc: {"idle", "leased", "gate", "restoring", "committing"},
     phase: {"validate_restore", "restore_writer_fenced"},
     time: Nat,
     outcome: Outcome]

TypeOK ==
    /\ ExportTypeOK
    /\ op \in OperationRecord
    /\ fence \in {"free", "held"}
    /\ worker \in [Workers -> WorkerRecord]
    /\ creating \in [Sessions -> SessionRecord]
    /\ overtaken \subseteq Sessions
    /\ late \subseteq Requests
    /\ stops \in 0..MaxStop
    /\ stalls \in 0..MaxStall

IdleWorker ==
    [pc |-> "idle", phase |-> "validate_restore", time |-> 0,
     outcome |-> "none"]

Init ==
    /\ ExportInit
    /\ op = [state |-> "absent", phase |-> "validate_restore",
             lease |-> "none", owner |-> NoOwner]
    /\ fence = "free"
    /\ worker = [w \in Workers |-> IdleWorker]
    /\ creating = [s \in Sessions |-> NoRow]
    /\ overtaken = {}
    /\ late = {}
    /\ stops = 0
    /\ stalls = 0

Busy(w) == worker[w].pc # "idle"

LeaseFenced(w) == op.state = "running" /\ op.owner = w

------------------------------------------------------------------------------
(* The gate.                                                                *)

\* Wrong: an expired session with no write open passes without the evidence
\* that its writes have drained, and a revoking one with writes open too.
WriterBlocksByStatus(s, t) ==
    session[s].status = "active" /\ session[s].expires > t

\* Wrong: sessions that have ended still block.
WriterBlocksEnded(s, t) == session[s].status # "absent"

\* Only a revoking or expired session can be drained of its writes.
WriterDrained(s, t) ==
    /\ session[s].writes = 0
    /\ session[s].drained = "yes"
    /\ session[s].status = "revoking" \/ session[s].expires <= t

\* exportBlocker for a restore: every read-write session blocks that is
\* neither ended nor write-drained.
WriterBlocks(s, t) ==
    /\ session[s].mode = "read_write"
    /\ session[s].status \in {"active", "revoking"}
    /\ ~WriterDrained(s, t)

\* validateExport: no session has more writes than requests, and an ended one
\* has neither.
ValidSession(s) ==
    /\ session[s].writes <= session[s].requests
    /\ session[s].status \in TerminalStatus => session[s].requests = 0

------------------------------------------------------------------------------
(* The restore operation.                                                   *)

CreateRestore ==
    /\ op.state = "absent"
    /\ op' = [op EXCEPT !.state = "queued"]
    /\ UNCHANGED <<exportVars, fence, worker, creating, raced, stops, stalls>>

\* The row as the acquisition finds it.
CanAcquire == op.state = "queued" \/ (op.state = "running" /\ op.lease = "expired")

\* List, plan and acquire; every plan that leads here runs the same code.
Acquire(w) ==
    /\ worker[w].pc = "idle"
    /\ CanAcquire
    /\ op' = [op EXCEPT !.state = "running", !.lease = "live", !.owner = w]
    /\ worker' = [worker EXCEPT ![w] = [IdleWorker EXCEPT
                                          !.pc = "leased", !.time = now,
                                          !.phase = op.phase]]
    /\ UNCHANGED <<exportVars, fence, creating, raced, stops, stalls>>

Ends(w, outcome) ==
    worker' = [worker EXCEPT ![w] = [@ EXCEPT !.pc = "committing", !.time = 0,
                                              !.outcome = outcome]]

\* Metadata no longer admits the restore: failed, in either phase.
ValidationFails(w) ==
    /\ worker[w].pc = "leased"
    /\ Ends(w, "failed")
    /\ UNCHANGED <<exportVars, op, fence, creating, raced, stops, stalls>>

\* Phase and fence are written in one lease-fenced statement; a reclaimed
\* operation that is already fenced goes straight to the gate.
MarkWriterFenced(w) ==
    /\ worker[w].pc = "leased"
    /\ \/ /\ worker[w].phase = "validate_restore"
          /\ LeaseFenced(w)
          /\ op' = [op EXCEPT !.phase = "restore_writer_fenced"]
          /\ fence' = "held"
       \/ /\ worker[w].phase = "restore_writer_fenced"
          /\ UNCHANGED <<op, fence>>
    /\ worker' = [worker EXCEPT ![w] = [@ EXCEPT !.pc = "gate",
                                          !.phase = "restore_writer_fenced"]]
    /\ UNCHANGED <<exportVars, creating, raced, stops, stalls>>

\* checkWriterSessions: run, wait for the drain, or fail because the sessions
\* cannot be read or make no sense.
CheckWriters(w) ==
    /\ worker[w].pc = "gate"
    /\ \/ /\ \A s \in Sessions : ValidSession(s)
          /\ IF \E s \in Sessions : WriterBlocks(s, worker[w].time)
             THEN Ends(w, "pending")
             ELSE worker' = [worker EXCEPT ![w] = [@ EXCEPT !.pc = "restoring",
                                                            !.time = 0]]
       \/ Ends(w, "failed")
    /\ UNCHANGED <<exportVars, op, fence, creating, raced, stops, stalls>>

RestoreResult == {"restored", "busy", "refused", "recovery_required", "mismatch"}

\* "refused" is any error not known otherwise, a cancelled run or an answer
\* that cannot be read among them; "mismatch" is a restore whose answer, or
\* whose status afterwards, does not fit.
RestoreOutcome(r) ==
    CASE r = "restored" -> "succeeded"
      [] r = "busy" -> "pending"
      [] r = "refused" -> "failed"
      [] OTHER -> "operator_intervention_required"

\* jvs restore comes back.
DirectRestore(w, r) ==
    /\ worker[w].pc = "restoring"
    /\ Ends(w, RestoreOutcome(r))
    /\ UNCHANGED <<exportVars, op, fence, creating, raced, stops, stalls>>

\* Wrong: an intervention gives the fence up as a failure does.
FenceAfterAlwaysFreed(outcome) ==
    IF outcome = "pending" THEN fence ELSE "free"

\* The fence goes with success and failure; a pending or intervention row
\* keeps it.
FenceAfter(outcome) == IF outcome \in Terminal THEN "free" ELSE fence

\* The row of an accepted commit; a pending mark expires the lease at once.
Committed(out) ==
    IF out = "pending" THEN [op EXCEPT !.lease = "expired"]
    ELSE [op EXCEPT !.state = out, !.lease = "none", !.owner = NoOwner]

\* What the store checks before the statement: only an operation that names
\* its fence succeeds or waits for the drain.
ValidRecord(m) ==
    m.outcome \in {"succeeded", "pending"} => m.phase = "restore_writer_fenced"

\* A lease-fenced commit of the outcome, in a context of its own.  All but
\* success carry the time read at the start of the execution, so that an
\* expired lease nobody took yet does not stop them.
Commit(w) ==
    LET out == worker[w].outcome IN
    /\ worker[w].pc = "committing"
    /\ LeaseFenced(w) /\ ValidRecord(worker[w])
    /\ op' = Committed(out)
    /\ fence' = FenceAfter(out)
    /\ worker' = [worker EXCEPT ![w] = IdleWorker]
    /\ overtaken' = IF fence' = "held" THEN overtaken ELSE {}
    /\ late' = IF fence' = "held" THEN late ELSE {}
    /\ UNCHANGED <<exportVars, creating, stops, stalls>>

\* A statement that matched no row: the lease belongs to another worker or,
\* for a success, has run out by now.
Rejected(w) ==
    /\ \/ /\ worker[w].pc = "committing"
          /\ ~(LeaseFenced(w) /\ ValidRecord(worker[w]))
       \/ /\ worker[w].pc = "committing" /\ worker[w].outcome = "succeeded"
          /\ op.lease = "expired"
       \/ /\ worker[w].pc = "leased" /\ worker[w].phase = "validate_restore"
          /\ ~LeaseFenced(w)
    /\ worker' = [worker EXCEPT ![w] = IdleWorker]
    /\ UNCHANGED <<exportVars, op, fence, creating, raced, stops, stalls>>

Stop(w) ==
    /\ Busy(w)
    /\ stops < MaxStop
    /\ stops' = stops + 1
    /\ worker' = [worker EXCEPT ![w] = IdleWorker]
    /\ UNCHANGED <<exportVars, op, fence, creating, raced, stalls>>

Expire ==
    /\ op.lease = "live"
    /\ ~Busy(op.owner)
    /\ op' = [op EXCEPT !.lease = "expired"]
    /\ UNCHANGED <<exportVars, fence, worker, creating, raced, stops, stalls>>

Stall ==
    /\ op.lease = "live"
    /\ Busy(op.owner)
    /\ stalls < MaxStall
    /\ stalls' = stalls + 1
    /\ op' = [op EXCEPT !.lease = "expired"]
    /\ UNCHANGED <<exportVars, fence, worker, creating, raced, stops>>

------------------------------------------------------------------------------
(* The export side.                                                         *)

\* The mode is compatible with the writer fence.
FenceAdmits(mode) == mode = "read_only" \/ fence = "free"

\* Everything the create handler checks before it builds the row; the
\* metadata, the policy and the payload may refuse the request as well.
AdmitExport(s, mode) ==
    /\ now <= LastTraffic
    /\ session[s] = NoRow
    /\ creating[s] = NoRow
    /\ FenceAdmits(mode)
    /\ creating' = [creating EXCEPT ![s] = NewSession(mode, now)]
    /\ UNCHANGED <<exportVars, op, fence, worker, raced, stops, stalls>>

\* The create statement judges the fence by its snapshot, which may be as old
\* as the handler's own check, and inserts after it has waited for its locks.
CanCreate(s) == creating[s] # NoRow

Create(s) ==
    /\ CanCreate(s)
    /\ CreateExport(s, creating[s])
    /\ creating' = [creating EXCEPT ![s] = NoRow]
    /\ overtaken' = IF FenceAdmits(creating[s].mode) THEN overtaken
                                                    ELSE overtaken \cup {s}
    /\ UNCHANGED <<op, fence, worker, late, stops, stalls>>

\* The statement inserts nothing, or the request is given up.
CreateRefused(s) ==
    /\ creating[s] # NoRow
    /\ creating' = [creating EXCEPT ![s] = NoRow]
    /\ UNCHANGED <<exportVars, op, fence, worker, raced, stops, stalls>>

Time == Tick /\ UNCHANGED restoreVars

\* The writes that begin under the fence in this step although their session
\* has expired since the handler read the clock.
BegunLate ==
    {r \in Requests : /\ gateway[r].pc = "beginning" /\ gateway[r].write = 1
                      /\ ledger'[r].state = "open"
                      /\ session[gateway[r].export].expires <= now
                      /\ fence = "held"}

Export ==
    /\ ExportStep
    /\ late' = late \cup BegunLate
    /\ UNCHANGED <<op, fence, worker, creating, overtaken, stops, stalls>>

RestoreStep(w) ==
    \/ Acquire(w) \/ ValidationFails(w) \/ MarkWriterFenced(w)
    \/ CheckWriters(w)
    \/ \E r \in RestoreResult : DirectRestore(w, r)
    \/ Commit(w) \/ Rejected(w)

Next ==
    \/ Time \/ Export
    \/ \E s \in Sessions :
          (\E mode \in Mode : AdmitExport(s, mode)) \/ Create(s) \/ CreateRefused(s)
    \/ CreateRestore \/ Expire \/ Stall
    \/ \E w \in Workers : RestoreStep(w) \/ Stop(w)

\* As in ExportSession; workers run pass after pass, an abandoned lease runs
\* out, and JVS and the drain do not keep a restore pending for ever once
\* they no longer have to.
Fairness ==
    /\ WF_vars(Time)
    /\ WF_vars(\E S \in SUBSET Stale : RecoverStale(S) /\ UNCHANGED restoreVars)
    /\ \A s \in Sessions : SF_vars(ListTerminal(s) /\ UNCHANGED restoreVars)
    /\ WF_vars(ReconcileTerminal /\ UNCHANGED restoreVars)
    /\ \A r \in Requests :
          WF_vars((EndRequest(r) \/ AbandonRequest(r)) /\ UNCHANGED restoreVars)
    /\ \A w \in Workers :
          WF_vars(RestoreStep(w)) /\ SF_vars(DirectRestore(w, "restored"))
    /\ WF_vars(Expire)

Spec == Init /\ [][Next]_vars /\ Fairness

------------------------------------------------------------------------------
(* Properties.                                                              *)

Restoring ==
    (\E w \in Workers : worker[w].pc = "restoring") /\ op.state = "running"

Writing(r) == gateway[r].pc = "serving" /\ gateway[r].write = 1

\* What the contract promises: while a restore may be rewriting the payload
\* and its operation has not ended, no gateway request writes to it.  The
\* code does not keep it.
NoWriterDuringRestore == Restoring => \A r \in Requests : ~Writing(r)

\* A request that writes while a restore may be rewriting the payload, even
\* one run by a worker that has lost its lease, is there for one of three
\* reasons: the fence overtook the create statement of its session; it was
\* admitted by a start time its session had expired since; or its heartbeats
\* lapsed and its ledger row was closed as stale while it was served.
\* Nothing else gets past the fence and the gate.
WriterDuringRestoreHasCause ==
    Restoring =>
        \A r \in Requests :
            Writing(r) => \/ gateway[r].export \in overtaken
                          \/ r \in late
                          \/ ledger[r].state = "recovered"

\* The fence is held exactly while the operation is fenced and not ended: no
\* crash, lost lease or late commit leaks it or frees it early.
FenceFollowsOperation ==
    fence = "held" <=> /\ op.phase = "restore_writer_fenced"
                       /\ op.state \in {"running",
                                        "operator_intervention_required"}

\* A restore waits for its writers and is not lost: it succeeds, fails or
\* goes to the operator once sessions expire and JVS is not busy.
RestoreSettles ==
    op.state = "queued" ~>
        op.state \in Terminal \cup {"operator_intervention_required"}
==============================================================================

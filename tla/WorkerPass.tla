------------------------------ MODULE WorkerPass ------------------------------
(***************************************************************************)
(* The worker's pass (internal/worker, internal/workerapp) over the        *)
(* operations that OperationIntake admits, and the recovery coordinator it *)
(* runs (internal/recovery).  A pass reconciles sessions, then a restore   *)
(* reconciliation run, then lists the operations to recover, takes them in *)
(* turn, and delivers audit events last.  The list is read once and grows  *)
(* stale while its operations are executed; an executor is reduced to the  *)
(* outcome it commits.                                                     *)
(***************************************************************************)
EXTENDS OperationIntake, Sequences

CONSTANTS
    Limit,          \* operations listed in one pass
    Enabled,        \* repo operation types whose executor is configured
    MaxFaults       \* bound on stops, expired leases, errors and failed
                    \* deliveries, together

ASSUME LimitAssumption == Limit \in Nat \ {0}
ASSUME FaultAssumption == MaxFaults \in Nat

VARIABLES
    pass,           \* the pass each worker is in
    undelivered,    \* audit events wait in the outbox
    faults          \* faults so far

vars == <<op, repos, handler, clock, run, answer, pass, undelivered,
          faults>>

\* A listed operation with the plan made of the row as it was listed.
Listed == [op: Ops, manual: BOOLEAN]
Lists == UNION {[1..n -> Listed] : n \in 0..Limit}

PassRecord ==
    [pc: {"idle", "list", "batch", "execute", "audit"},
     list: Lists,
     jvs: BOOLEAN]          \* the JVS binary was verified at the start

IdlePass == [pc |-> "idle", list |-> <<>>, jvs |-> TRUE]

\* Types, and a lease that only running operations have: the planner refuses
\* a row with half a lease for ever (validateOperationLeasePair).
TypeOK ==
    /\ IntakeTypeOK
    /\ pass \in [Workers -> PassRecord]
    /\ undelivered \in BOOLEAN
    /\ faults \in 0..MaxFaults
    /\ \A o \in Ops : /\ op[o].state = "running" <=> op[o].owner # NoOwner
                      /\ op[o].state = "running" <=> op[o].lease # "none"

Init ==
    /\ IntakeInit
    /\ pass = [w \in Workers |-> IdlePass]
    /\ undelivered = FALSE
    /\ faults = 0

PassUnchanged == UNCHANGED <<pass, undelivered, faults>>
Fault == faults < MaxFaults /\ faults' = faults + 1
NoFault == UNCHANGED faults

------------------------------------------------------------------------------
(* The candidates.                                                          *)

\* Wrong: an operation whose worker is gone is not listed.
RecoveryCandidateQueued(o) ==
    op[o].state \in {"queued", "operator_intervention_required"}

\* Queued, or running under an expired lease, or waiting for an operator.
RecoveryCandidate(o) ==
    \/ op[o].state \in {"queued", "operator_intervention_required"}
    \/ op[o].state = "running" /\ op[o].lease = "expired"

Older(o, p) == op[o].created < op[p].created

\* ORDER BY created_at LIMIT: the candidates in the order of their age, all
\* of them or as many as the limit admits.
Candidates == {o \in Ops : RecoveryCandidate(o)}
OldestFirst(list) ==
    /\ \A i \in DOMAIN list :
          /\ list[i].op \in Candidates
          /\ list[i].manual <=> op[list[i].op].state = "operator_intervention_required"
          /\ \A j \in DOMAIN list : i < j => Older(list[i].op, list[j].op)
    /\ \A o \in Candidates :
          \/ \E i \in DOMAIN list : list[i].op = o
          \/ Len(list) = Limit /\ \A i \in DOMAIN list : Older(list[i].op, o)

\* Wrong: a pass without operations left ends before the delivery.
BatchWithoutAudit(w, list) ==
    pass' = [pass EXCEPT ![w] =
               IF list = <<>> THEN IdlePass
               ELSE [@ EXCEPT !.pc = "batch", !.list = list]]

\* The catalog's executors need no JVS and are always there.
CatalogTypes == {"namespace_upsert"}

\* multiExecutor: without the JVS runtime the repo types have no executor.
Supports(w, type) ==
    type \in CatalogTypes \/ (type \in Enabled /\ pass[w].jvs)

\* The operations still to recover; the audit events come after them.
AtAudit == [IdlePass EXCEPT !.pc = "audit"]
Batch(w, list) ==
    pass' = [pass EXCEPT ![w] =
               IF list = <<>> THEN AtAudit
               ELSE [@ EXCEPT !.pc = "batch", !.list = list]]

------------------------------------------------------------------------------
(* The start of a pass.                                                     *)

\* The session scans, then a reconciliation run: there is none, or this pass
\* completes it.  After an error in the scans no operation is listed.
ReconcileClean(w) ==
    /\ pass[w].pc = "idle"
    /\ run # "blocked"
    /\ run' = "none"
    /\ \/ pass' = [pass EXCEPT ![w].pc = "list"] /\ NoFault
       \/ pass' = [pass EXCEPT ![w] = AtAudit] /\ Fault
    /\ UNCHANGED <<op, repos, handler, clock, answer, undelivered>>

\* A mismatch blocks the run, with an audit event, and ends the pass.
ReconcileBlocked(w) ==
    /\ pass[w].pc = "idle"
    /\ run # "none"
    /\ run' = "blocked"
    /\ undelivered' = (undelivered \/ run = "reconciling")
    /\ UNCHANGED <<op, repos, handler, clock, answer, pass, faults>>

\* The recovery reads its candidates after that, and asks for no run that may
\* have begun since; without the JVS binary it lists as with it.
ListOperations(w) ==
    /\ pass[w].pc = "list"
    /\ \E list \in Lists :
          /\ OldestFirst(list)
          /\ \/ Batch(w, list) /\ NoFault
             \/ /\ Fault /\ list # <<>>
                /\ pass' = [pass EXCEPT ![w] = [IdlePass EXCEPT !.pc = "batch",
                                                  !.list = list, !.jvs = FALSE]]
    /\ UNCHANGED <<op, repos, handler, clock, run, answer, undelivered>>

------------------------------------------------------------------------------
(* The lease statements, one per family of types.                           *)

Current(w) == Head(pass[w].list).op
DropCurrent(w) == Batch(w, Tail(pass[w].list))

LeaseFree(o) ==
    \/ op[o].state = "queued"
    \/ op[o].state = "running" /\ op[o].lease = "expired"

EarlierUnfinished(o, types) ==
    \E p \in Ops \ {o} : /\ Unfinished(p) /\ Older(p, o)
                         /\ op[p].req.repo = op[o].req.repo
                         /\ op[p].req.type \in types

\* Repo create, template clone and the catalog wait for nothing.
AcquirePlain(o) ==
    op[o].req.type \in {"repo_create", "template_clone", "namespace_upsert"}

\* Lifecycle and purge wait for the JVS mutations before them.
AcquireLifecycle(o) ==
    /\ op[o].req.type \in RepoLifecycleAndPurge
    /\ ~EarlierUnfinished(o, JVSMutation)

\* Wrong: a JVS mutation does not wait for the lifecycle before it.
AcquireMutationOnly(o) ==
    /\ op[o].req.type \in {"save_point_create", "restore", "template_create"}
    /\ ~EarlierUnfinished(o, JVSMutation)

\* A JVS mutation waits for the mutations and the lifecycle before it.
AcquireMutation(o) ==
    /\ op[o].req.type \in {"save_point_create", "restore", "template_create"}
    /\ ~EarlierUnfinished(o, JVSMutation \cup RepoLifecycleAndPurge)

\* AcquireOperationLease tries the statements in turn.
Acquirable(o) ==
    /\ LeaseFree(o)
    /\ AcquirePlain(o) \/ AcquireLifecycle(o) \/ AcquireMutation(o)

------------------------------------------------------------------------------
(* The batch.                                                               *)

AtCandidate(w) == pass[w].pc = "batch"

SkipManual(w) ==
    /\ AtCandidate(w)
    /\ Head(pass[w].list).manual
    /\ DropCurrent(w)
    /\ UNCHANGED <<op, repos, handler, clock, run, answer, undelivered,
                   faults>>

LoseRace(w) ==
    /\ AtCandidate(w)
    /\ ~Head(pass[w].list).manual
    /\ ~Acquirable(Current(w))
    /\ DropCurrent(w)
    /\ UNCHANGED <<op, repos, handler, clock, run, answer, undelivered,
                   faults>>

\* The operation is taken whether or not an executor supports its type.
Acquire(w) ==
    /\ AtCandidate(w)
    /\ ~Head(pass[w].list).manual
    /\ Acquirable(Current(w))
    /\ op' = [op EXCEPT ![Current(w)].state = "running",
                        ![Current(w)].lease = "live",
                        ![Current(w)].owner = w]
    /\ pass' = [pass EXCEPT ![w].pc = "execute"]
    /\ UNCHANGED <<repos, handler, clock, run, answer, undelivered, faults>>

\* The guard of every commit: this worker's lease, not expired.
Holds(w, o) == op[o].state = "running" /\ op[o].lease = "live"
                   /\ op[o].owner = w

Finished(o, state, marked) ==
    [op EXCEPT ![o].state = state, ![o].lease = "none", ![o].owner = NoOwner,
               ![o].marked = marked, ![o].late = FALSE]

\* The executor commits its outcome and the audit event with it.  A create
\* that finds its target there has failed.
ExecuteCommits(w) ==
    LET o == Current(w)
        r == op[o].req
    IN  /\ pass[w].pc = "execute" /\ Supports(w, r.type) /\ Holds(w, o)
        /\ \E state \in {"succeeded", "failed",
                         "operator_intervention_required"} :
              /\ state = "succeeded" /\ r.type \in CreatesRepo
                     => r.target \notin repos
              /\ op' = Finished(o, state, FALSE)
              /\ repos' = IF state = "succeeded" /\ r.type \in CreatesRepo
                          THEN repos \cup {r.target} ELSE repos
        /\ undelivered' = TRUE
        /\ DropCurrent(w)
        /\ UNCHANGED <<handler, clock, run, answer, faults>>

\* An error of the executor, or a lost lease, ends the batch; the operation
\* keeps its lease until it expires.
ExecuteFails(w) ==
    /\ pass[w].pc = "execute" /\ Supports(w, op[Current(w)].req.type)
    /\ IF Holds(w, Current(w)) THEN Fault ELSE NoFault
    /\ pass' = [pass EXCEPT ![w] = AtAudit]
    /\ UNCHANGED <<op, repos, handler, clock, run, answer, undelivered>>

\* operationSupported: no executor, the operation is left to an operator.
CommitUnsupported(w) ==
    /\ pass[w].pc = "execute" /\ ~Supports(w, op[Current(w)].req.type)
    /\ IF Holds(w, Current(w))
       THEN /\ op' = Finished(Current(w), "operator_intervention_required", TRUE)
            /\ undelivered' = TRUE
       ELSE UNCHANGED <<op, undelivered>>
    /\ DropCurrent(w)
    /\ UNCHANGED <<repos, handler, clock, run, answer, faults>>

\* Stale recovery and delivery; a failed delivery is retried in a later pass.
DeliverAudit(w) ==
    /\ pass[w].pc = "audit"
    /\ pass' = [pass EXCEPT ![w] = IdlePass]
    /\ \/ undelivered' = FALSE /\ NoFault
       \/ UNCHANGED undelivered /\ Fault
    /\ UNCHANGED <<op, repos, handler, clock, run, answer>>

PassStep(w) ==
    \/ ReconcileClean(w) \/ ReconcileBlocked(w) \/ ListOperations(w)
    \/ SkipManual(w) \/ LoseRace(w) \/ Acquire(w)
    \/ ExecuteCommits(w) \/ ExecuteFails(w) \/ CommitUnsupported(w)
    \/ DeliverAudit(w)

------------------------------------------------------------------------------
(* Stops, time and the operator.                                            *)

\* The worker stops, or its context ends.
Stop(w) ==
    /\ pass[w].pc # "idle"
    /\ Fault
    /\ pass' = [pass EXCEPT ![w] = IdlePass]
    /\ UNCHANGED <<op, repos, handler, clock, run, answer, undelivered>>

Working(w, o) == pass[w].pc = "execute" /\ Current(w) = o

\* A lease nobody renews expires; one its worker renews only by a stall.
ExpireLease(o) ==
    /\ op[o].state = "running" /\ op[o].lease = "live"
    /\ IF Working(op[o].owner, o) THEN Fault ELSE NoFault
    /\ op' = [op EXCEPT ![o].lease = "expired"]
    /\ UNCHANGED <<repos, handler, clock, run, answer, pass, undelivered>>

\* The operator starts a run after the storage has been restored.
StartRun ==
    /\ run = "none"
    /\ run' = "reconciling"
    /\ UNCHANGED <<op, repos, handler, clock, answer, pass, undelivered, faults>>

\* The repair route fails an operation that no executor supports.
OperatorRepair(o) ==
    /\ op[o].state = "operator_intervention_required" /\ op[o].marked
    /\ op' = [op EXCEPT ![o].state = "failed"]
    /\ undelivered' = TRUE
    /\ UNCHANGED <<repos, handler, clock, run, answer, pass, faults>>

Environment ==
    \/ \E w \in Workers : Stop(w)
    \/ \E o \in Ops : ExpireLease(o) \/ OperatorRepair(o)
    \/ StartRun

Next ==
    \/ \E h \in Handlers : HandlerStep(h) /\ PassUnchanged
    \/ \E w \in Workers : PassStep(w)
    \/ Environment

\* Passes follow one another (a cron job or a loop runs run-once), a pass
\* takes its next step, and a lease expires by the clock.
Spec ==
    /\ Init /\ [][Next]_vars
    /\ \A w \in Workers : WF_vars(PassStep(w))
    /\ \A o \in Ops : WF_vars(ExpireLease(o))

------------------------------------------------------------------------------
(* Properties.                                                              *)

Executing(o) == op[o].state = "running" /\ op[o].lease = "live"

\* A JVS mutation and another mutation or a lifecycle operation of the same
\* repo are executed at the same time only when the older of the two came
\* late: its handler fixed created_at, and another handler's operation was
\* admitted and taken before the row was inserted (the acquire statements
\* look for earlier created_at only).
ExclusiveUse ==
    \A o, p \in Ops :
        /\ o # p /\ Executing(o) /\ Executing(p)
        /\ op[o].req.repo = op[p].req.repo
        /\ op[o].req.type \in JVSMutation
        /\ op[p].req.type \in JVSMutation \cup RepoLifecycleAndPurge
        => op[o].late \/ op[p].late

\* An operation behind one of its repo that waits for an operator.
Behind(o) ==
    \E p \in Ops : /\ op[p].state = "operator_intervention_required"
                   /\ Older(p, o) /\ op[p].req.repo = op[o].req.repo

\* Older rows that no pass moves fill the list.
Hidden(o) ==
    Cardinality({p \in Ops : /\ Unfinished(p) /\ Older(p, o)
                             /\ \/ op[p].state = "operator_intervention_required"
                                \/ Behind(p)}) >= Limit

\* A queued operation is taken, unless a reconciliation run blocks the
\* worker, an older operation of its repo waits for an operator, or Limit
\* older rows that wait for an operator, or are behind one, hide it from the
\* list (operationRecoveryCandidatesSQL).
QueuedIsTaken ==
    \A o \in Ops :
        op[o].state = "queued"
            ~> (op[o].state # "queued" \/ run = "blocked" \/ Behind(o) \/ Hidden(o))

\* An audit event is delivered, unless a blocked reconciliation run ends
\* every pass before the delivery (worker.RunOnce).
AuditDelivered == undelivered ~> (~undelivered \/ run = "blocked")
==============================================================================

---------------------------- MODULE OperationIntake ---------------------------
(***************************************************************************)
(* From an HTTP request to a queued operation: the mutating handlers of    *)
(* internal/api, the intake they share (operation_intake.go) and the       *)
(* create-or-reuse statements of internal/store/postgres/operations.go.    *)
(*                                                                         *)
(* A handler looks for an operation of the same idempotency scope, reads   *)
(* what admission asks for, fixes created_at, reads the reconciliation     *)
(* gate and inserts the row: separate statements, between which the other  *)
(* handlers, the workers and the operator go on.  Caller and namespace are *)
(* the same for every request, so a scope is a type and a key.             *)
(***************************************************************************)
EXTENDS Integers, FiniteSets

CONSTANTS
    Requests,           \* what clients send, any number of times
    Handlers,           \* requests served at the same time
    Repos0,             \* repos and templates that exist at the start
    Workers,            \* lease owners
    NoOwner, NoRequest, \* null values
    MaxOps,             \* bound on the rows of the operations table
    MaxClock            \* bound on the admissions

ASSUME BoundAssumption == MaxOps \in Nat /\ MaxClock \in Nat
ASSUME NullAssumption == NoOwner \notin Workers /\ NoRequest \notin Requests

VARIABLES
    op,         \* the operations table
    repos,      \* the ids of the repos table: repos and templates
    handler,    \* the memory of each handler
    clock,      \* the API clock: every admission reads another time
    run,        \* the active restore reconciliation run
    answer      \* the operations a request has been answered with

Ops == 1..MaxOps

------------------------------------------------------------------------------
(* Operation types and rows.                                                *)

\* The types the unique index allows one unfinished operation of per repo.
JVSMutation == {"save_point_create", "restore", "template_create",
                "template_clone"}
RepoLifecycleAndPurge == {"repo_archive", "repo_purge"}
\* The types whose operation ends with a new row in the repos table.
CreatesRepo == {"repo_create", "template_create", "template_clone"}
\* The catalog types have no repo; one stands for them.
Types == JVSMutation \cup RepoLifecycleAndPurge
             \cup {"repo_create", "namespace_upsert"}

\* The intake routes that read the reconciliation gate.  createRepo and the
\* template routes are in the code's list of dangerous routes, and have an
\* intake of their own that does not consult it.
ReadsGate(t) == t \in {"save_point_create", "restore"} \cup RepoLifecycleAndPurge

\* The handlers that answer a replay before they look at anything else.
LooksUpFirst(t) == t \in JVSMutation \cup RepoLifecycleAndPurge

\* What the routes make of a request: a lifecycle operation is on the repo
\* its handler asked for, a clone on the repo it makes.
ASSUME FormAssumption ==
    \A r \in Requests :
        /\ r.type \in RepoLifecycleAndPurge => r.source = r.repo
        /\ r.type = "template_clone" => r.target = r.repo

Terminal == {"succeeded", "failed", "cancelled"}
Unfinished(o) == op[o].state \notin Terminal \cup {"absent"}

OperationRow ==
    [req: Requests \cup {NoRequest},
     state: {"absent", "queued", "running", "operator_intervention_required"}
                \cup Terminal,
     created: 0..MaxClock,
     lease: {"none", "live", "expired"},
     owner: Workers \cup {NoOwner},
     marked: BOOLEAN,       \* intervention for want of an executor
     late: BOOLEAN]         \* inserted under a running operation that its
                            \* created_at precedes

Absent == [req |-> NoRequest, state |-> "absent", created |-> 0,
           lease |-> "none", owner |-> NoOwner, marked |-> FALSE,
           late |-> FALSE]

HandlerRecord ==
    [pc: {"idle", "gate", "insert"},
     req: Requests \cup {NoRequest},
     created: 0..MaxClock]

IdleHandler == [pc |-> "idle", req |-> NoRequest, created |-> 0]

IntakeTypeOK ==
    /\ op \in [Ops -> OperationRow]
    /\ Repos0 \subseteq repos
    /\ handler \in [Handlers -> HandlerRecord]
    /\ clock \in 0..MaxClock
    /\ run \in {"none", "reconciling", "blocked"}
    /\ answer \in [Requests -> SUBSET Ops]

IntakeInit ==
    /\ op = [o \in Ops |-> Absent]
    /\ repos = Repos0
    /\ handler = [h \in Handlers |-> IdleHandler]
    /\ clock = 0
    /\ run = "none"
    /\ answer = [r \in Requests |-> {}]

------------------------------------------------------------------------------
(* Idempotency.                                                             *)

SameScope(a, b) == a.type = b.type /\ a.key = b.key

\* GetOperationByIdempotencyScope: the row of the scope, if there is one.
Existing(r) == {o \in Ops : op[o].state # "absent" /\ SameScope(op[o].req, r)}

\* CompareIdempotency: the same request is answered with the row it made,
\* another one under the same key is a conflict.
Reuse(r) ==
    answer' = [answer EXCEPT
                 ![r] = @ \cup {o \in Existing(r) : op[o].req.hash = r.hash}]

Leave(h) == handler' = [handler EXCEPT ![h] = IdleHandler]

\* RepoHasNonTerminalJVSMutation, GetRepoJVSMutationGateStatus.
MutationInProgress(repo) ==
    \E o \in Ops : /\ Unfinished(o)
                   /\ op[o].req.type \in JVSMutation
                   /\ op[o].req.repo = repo

------------------------------------------------------------------------------
(* The handlers.                                                            *)

\* A request whose operation exists is answered without admission.
ReplayExisting(h, r) ==
    /\ handler[h].pc = "idle"
    /\ LooksUpFirst(r.type) /\ Existing(r) # {}
    /\ Reuse(r)
    /\ UNCHANGED <<op, repos, handler, clock, run>>

\* The save point handler asks for the repo and for the heartbeat of a
\* worker; without one the request ends by Refuse.
AdmitSavePoint(r) == r.source \in repos

\* The restore and template create handlers ask for a quiet repo.
AdmitQuiet(r) == r.source \in repos /\ ~MutationInProgress(r.repo)

\* The template clone handler asks for an active template.
AdmitClone(r) == r.source \in repos

\* The lifecycle handler asks for the repo; its status and fences are the
\* subject of RepoLifecycle.
AdmitLifecycle(r) == r.source \in repos

\* createRepo and the catalog routes decide from the request alone.
AdmitPlain(r) == r.type \in {"repo_create", "namespace_upsert"}

Admission(r) ==
    \/ r.type = "save_point_create" /\ AdmitSavePoint(r)
    \/ r.type \in {"restore", "template_create"} /\ AdmitQuiet(r)
    \/ r.type = "template_clone" /\ AdmitClone(r)
    \/ r.type \in RepoLifecycleAndPurge /\ AdmitLifecycle(r)
    \/ AdmitPlain(r)

\* operationIntakeSpec: the row to insert is made, with its created_at.
MakeSpec(h, r) ==
    /\ clock < MaxClock
    /\ clock' = clock + 1
    /\ handler' = [handler EXCEPT
                     ![h] = [pc |-> IF ReadsGate(r.type) THEN "gate" ELSE "insert",
                             req |-> r, created |-> clock]]

\* A new request is admitted: what admission reads, it reads before the
\* reconciliation gate.
Admit(h, r) ==
    /\ handler[h].pc = "idle"
    /\ LooksUpFirst(r.type) => Existing(r) = {}
    /\ Admission(r)
    /\ MakeSpec(h, r)
    /\ UNCHANGED <<op, repos, run, answer>>

\* checkRestoreReconciliationIntakeGate.
ReadGate(h) ==
    /\ handler[h].pc = "gate"
    /\ run = "none"
    /\ handler' = [handler EXCEPT ![h].pc = "insert"]
    /\ UNCHANGED <<op, repos, clock, run, answer>>

\* A closed gate, no heartbeat, a store that is not available, a
\* client that goes away: the request ends without an operation.
Refuse(h) ==
    /\ handler[h].pc # "idle"
    /\ Leave(h)
    /\ UNCHANGED <<op, repos, clock, run, answer>>

------------------------------------------------------------------------------
(* The create-or-reuse statements.                                          *)

\* The target must not be in the repos table, and the unique index admits
\* one unfinished JVS mutation per repo.
Insertable(r) ==
    /\ r.type \in CreatesRepo => r.target \notin repos
    /\ r.type \in JVSMutation => ~MutationInProgress(r.repo)

\* A row inserted after an operation with a later created_at has started.
ComesLate(r, created) ==
    \E o \in Ops : /\ op[o].state = "running"
                   /\ op[o].req.repo = r.repo
                   /\ op[o].created > created

\* NewQueuedOperationRecord.
QueuedRow(r, created) ==
    [Absent EXCEPT !.req = r, !.state = "queued", !.created = created,
                   !.late = ComesLate(r, created)]

\* Wrong: the statement relies on the lookup the handler made before.
InsertUnchecked(h) ==
    LET r == handler[h].req
    IN  /\ handler[h].pc = "insert"
        /\ Insertable(r)
        /\ \E o \in Ops :
               /\ op[o].state = "absent" /\ \A p \in 1..o-1 : op[p].state # "absent"
               /\ op' = [op EXCEPT ![o] = QueuedRow(r, handler[h].created)]
               /\ answer' = [answer EXCEPT ![r] = @ \cup {o}]
        /\ Leave(h)
        /\ UNCHANGED <<repos, clock, run>>

\* The insert wins the scope.
Insert(h) ==
    LET r == handler[h].req
    IN  /\ handler[h].pc = "insert"
        /\ Existing(r) = {} /\ Insertable(r)
        /\ \E o \in Ops :
               /\ op[o].state = "absent" /\ \A p \in 1..o-1 : op[p].state # "absent"
               /\ op' = [op EXCEPT ![o] = QueuedRow(r, handler[h].created)]
               /\ answer' = [answer EXCEPT ![r] = @ \cup {o}]
        /\ Leave(h)
        /\ UNCHANGED <<repos, clock, run>>

\* The insert meets the row of its scope: ON CONFLICT returns it.
InsertConflict(h) ==
    /\ handler[h].pc = "insert"
    /\ Existing(handler[h].req) # {}
    /\ Reuse(handler[h].req)
    /\ Leave(h)
    /\ UNCHANGED <<op, repos, clock, run>>

HandlerStep(h) ==
    \/ \E r \in Requests : ReplayExisting(h, r) \/ Admit(h, r)
    \/ ReadGate(h) \/ Refuse(h) \/ Insert(h) \/ InsertConflict(h)

------------------------------------------------------------------------------
(* What the intake promises.                                                *)

\* However often a request is sent, and whatever is in flight with it, its
\* answers name one operation, and two different requests under one key are
\* never both accepted (CompareIdempotency, the ON CONFLICT of the insert).
OneOperationPerKey ==
    \A r, s \in Requests : SameScope(r, s) =>
        \A o \in answer[r], p \in answer[s] : o = p /\ op[o].req.hash = r.hash
==============================================================================

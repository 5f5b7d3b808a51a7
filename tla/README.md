# Verification of the AFSCP control plane

AFSCP keeps the durable metadata of versioned file-system repos in PostgreSQL
and lets workers carry out *operations* on them with JVS, an external
versioning tool. This directory holds TLA+ modules that model the protocols
between the processes and the database, TLC configurations that check small
instances, and TLAPS proofs that the safety properties those runs pass hold for
every value of the constants.
`PROJECT.json` maps every definition to the lines it models and lists runs,
mutants, hazards, findings and theorems.

## 1. The system

Processes: API servers (`cmd/afscp-api`) insert operations and create or revoke
export sessions; export gateways (`cmd/afscp-export-gateway`) serve WebDAV
requests; workers (`cmd/afscp-worker`, one pass every two seconds in `--loop`)
recover operations, reconcile sessions and deliver audit events. They share
nothing but the database. Each database step is a single SQL statement (often a
chain of `WITH` parts), so an action of a module is a statement together with
what the code does in memory until the next one. Where a statement judges one
row from its snapshot and then waits for the lock of another (PostgreSQL at READ
COMMITTED), it is two actions: the snapshot, and the write, which sees the latest
version of the rows it locks and the old version of all others.

| Component | State | Operations | What is hard | What makes it correct |
| --- | --- | --- | --- | --- |
| Operation rows and leases (`internal/operations`, `store/postgres/operations.go`, `recovery`, `inspection`) | state, phase, lease owner and expiry, attempt, error | create, list, plan, acquire, renew, commit, cancel, explicit recovery, repair | two workers on one row, late commits, stale plans | mutual exclusion of believed leases, the owner column as a fence, final outcomes, no attempt audited twice, the state table |
| Save points (`repoexec/save_point_executor.go`) | operation row, JVS history | validate, save, verify, commit, give back | the save cannot be undone; crash between save and commit | a success names its own save, no failure hides a save at the head, no second save |
| Export sessions (`store/postgres/export_sessions.go`, `exportgateway`, `exportreconcile`) | session rows with counts, request ledger, handlers | create, revoke, begin, heartbeat, end, stale recovery, reconcile | counts kept by concurrent statements, lost answers, late heartbeats | counts equal the ledger, ended sessions are quiet, revocation completes |
| Restore (`repoexec/restore_executor.go`, `sessionstate`, `restore_operations.go`) | operation row, writer fence, sessions | fence, gate, restore, commit, give back | creating a session against setting the fence; lost commits | a write served during a restore has one of three known causes, the fence follows the operation, restores settle |
| Audit outbox (`audit`, `auditdelivery`, `audit_outbox.go`) | rows, batches in memory, sink | append, claim, post, mark, recover stale | no owner column, lost answers, abandoned batches | delivered means stored, attempts bound posts, every event ends |
| Restore reconciliation (`restorereconcile`) | run mode, targets, observations, repo status | observe, commit mismatch, complete | overlapping passes, lifecycle commits in between | a completed run is true of the repos, blocks are explained, runs end |
| Lifecycle and purge, fences (`lifecycle_executor.go`, `purge_executor.go`, `fences`) | repo status, fence rows, storage | archive, delete, both restores, purge | fences read before one is inserted, fences of dead workers, a removal cut short | an inactive repo is unused but for a session inserted under the fence, a purged one is gone, storage goes only under a purge's fence, an ended operation frees its fence |
| Workload mounts (`workloadmount`, `mountbindingexec`, `workload_mount_handler.go`) | binding rows, queued reports, the orchestrator's mounts | create, status, heartbeat, release, revoke, plan | reports committed in any order, a second family of writers for the gates | nothing mounted during exclusive use, honest evidence, releases complete |
| Intake (`api/operation_intake.go`, `operations/idempotency.go`) | operation rows, handlers in memory | look up, admit, date, read the gate, insert or reuse | concurrent duplicates, a gate and a date older than the insert | one operation per key, exclusive use of a repo |
| Worker pass (`worker`, `workerapp`) | none durable | reconcile, list, take in turn, deliver | a stale list, early returns, a limit filled by rows nobody moves | queued operations are taken, audit events delivered |
| Catalog (`namespaceexec`, `namespacebindingexec`, `volumeexec`) | namespace, binding and volume rows | ensure, upsert, disable, put | upsert against disable, the default volume changing under other operations | its operations settle, also against a disable |
| Repo and template creation (`repoexec/executor.go`, `template_executor.go`) | repos rows, directories, two kinds of fences | init or adopt, save and clone, clone | directories made before the row that names them, refused commits | a row names what is in its directory, no forgotten directories or fences, operations settle |

The remaining packages (configuration, path checks, HTTP decoding, JVS command
line, migrations, release evidence) hold no protocol state; `PROJECT.json`
lists them with the reason they are not modelled.

## 2. Modules

| Module | Models | Extends / composes |
| --- | --- | --- |
| `OperationStates` | the state table of `operations/state.go`, as an abstract specification | |
| `OperationRows` | the declarations of the operations table | |
| `OperationLease` | operation rows and the recovery coordinator, for any operation type | extends `OperationRows`, implements `OperationStates` |
| `SavePointHistory` | the JVS history of a repo and what operation rows promise about it | extends `OperationRows` |
| `SavePointCreate` | save point operations of one repo with the JVS history | extends `SavePointHistory`, implements `OperationStates` |
| `ExportSession` | sessions, request ledger, gateway handlers, reconcile runner | |
| `RestoreGate` | a direct restore beside the repo's export sessions | extends `ExportSession`, implements `OperationStates` |
| `AuditOutbox` | outbox rows, deliverers, sink | |
| `RestoreReconcile` | one reconciliation run and the passes over it | |
| `RepoLifecycle` | archive, delete, restore and purge of a repo: admission, executors, storage | relies on `RepoSession` for its sessions, implements `OperationStates` |
| `RepoSession` | what a lifecycle operation relies on about the sessions of a repo | abstract |
| `MountBinding` | mount bindings, their queued changes, the orchestrator, the gates | implements `RepoSession` |
| `OperationIntake` | from HTTP requests to operation rows | |
| `WorkerPass` | worker passes over the admitted operations | extends `OperationIntake`, implements `OperationStates` |
| `Catalog` | namespace, volumes and binding with their four operations | |
| `RepoProvision` | creation of repos and templates beside the catalog | extends `Catalog`, implements `OperationStates` |
| `MC*` | small instances for TLC | one per run module |
| `OperationLease_proofs`, `RestoreGate_proofs`, `AuditOutbox_proofs`, `RestoreReconcile_proofs`, `RepoLifecycle_proofs`, `MountBinding_proofs`, `WorkerPass_proofs`, `RepoProvision_proofs` | inductive invariants and theorems | each extends the module it is named after; `OperationLease_proofs` also extends `SavePointHistory` and instantiates `SavePointCreate` |

### OperationLease

`op` is the table, `worker` what each process holds in memory, `now` one shared
clock. `Scan` reads a row and plans (`ClassifyOperationRecovery`); `Acquire`
comes later and, as the statement does, looks at the row and not at the plan;
`Renew` is the second goroutine; `PrepareCommit` fixes the outcome and the time
the commit will carry, `Commit` or `CommitRejected` is the statement reaching
the database. `Stop` is a crash, a failed renewal or an executor that returns
without a commit. An execution is abstracted to the choice of an outcome. No
handler of this version requests a cancellation, so `RequestCancel` is marked
external; the code that reacts to it is modelled.

Assumptions: concurrent processes have different owner names (the configuration
reads `AFSCP_WORKER_OWNER` and does not enforce it), a crashed process leaves no
statement in flight, and processes agree on the time.

### SavePointCreate

The executor with its real branches: refuse an uncertain second attempt,
validate, save (JVS may save, be busy, refuse, or save and lose the answer),
verify that the save is the head of the history, commit. `history` is the JVS
history, outside the database. A lease is live or expired, without a clock:
`Expire` ends an abandoned lease, `Stall` one whose holder is too slow.

### ExportSession

`session` has the aggregate counts, `ledger` the request rows, `gateway` the
HTTP handlers, `recon` what the reconcile runner listed. The handler reads the
clock in `Arrive`; the begin statement uses that time. `BeginRequest(r, FALSE)`
commits and loses its answer. `RecoverStale` closes lapsed rows,
`ReconcileTerminal` re-checks everything the listing saw. The terminal status
`failed` exists in the schema, but nothing requests it. The module has no run of
its own; `restore_drain` checks its properties beside a restore. Left out: the
credential lookup of the gateway with its join on namespace, binding and repo
status, and the reconciliation check of the begin statement, both of which only
refuse more requests.

### RestoreGate

The restore executor, the writer fence and the session gate on top of
`ExportSession`. Nothing is assumed of clocks, heartbeats or snapshots. The
create statement of a session reads `repo_fences` in `AdmitExport` and inserts
in `Create`, because it reads the fences from the snapshot it started with while
it waits for its row locks (`export_sessions.go:451-457`); sessions inserted
under the fence are remembered in `overtaken`. A request may begin after the
time the gateway read for it (`exportgateway/gateway.go:615`); those that begin so
on an expired session under the fence are remembered in `late`. A served
request whose heartbeats lapse (`gateway.go:661`) is closed in the ledger by
`RecoverStale` and still writes. All three happen, so no writer during a restore
is false (`restore_fence_snapshot`); that there is no fourth cause is
`WriterDuringRestoreHasCause`. `overtaken` and `late` are history variables and
guard nothing.

### AuditOutbox

Rows have no clock: `timer` says whether the awaited time has passed. A pass
recovers stale claims, claims the oldest due events, posts them one by one and
marks each answer; a refused mark ends the pass and leaves the rest of the batch
in `delivering`. The sink may store an event and still answer with an error.
The backlog of the run is larger than a batch, so an abandoned or failing batch
competes with events that have not been claimed yet.
The stale recovery never fails a record, whatever its attempts (its test says
so), hence `MaxAttempts` bounds answered failures only.

### RestoreReconcile

The run and its targets are inserted by an operator. Each of the three
statements of a pass (observe, commit a mismatch, complete) is a snapshot and a
write. The mismatch statement blocks the run and sets the repo aside in
different parts, and a purge committed in between leaves the second part without
a row to update: the run is then blocked without an audit event
(`restore_reconciliation.go:185-203`). Observations are made from
the `repos` row; the statement always reports storage as present, so a target
expected to be purged is always a mismatch and blocks its run. `Sensitive` are
repos whose id contains a word the evidence filter refuses (`token`,
`credential`...): their mismatch fails every pass; the run has one. Lifecycle
commits of operations admitted before the run go on during it, because only the
intake looks at the mode; `moved` remembers the repos they changed.

### RepoLifecycle

`repo` is the row, `storage` the directory (removed in two steps), `fence` the
holder of the held lifecycle fence and `fences` the operations with a fence row,
held or released. An executor reads the fences, the repo and, for a purge, the
earlier operations one statement at a time into `worker`, inserts its fence,
asks the drain gate, and commits status, end, fence release and audit event by
one statement. That statement judges the sessions from a snapshot older than its
row locks (`repo_lifecycle_operations.go:170`): `ReadSnapshot`, then
`CommitSucceeded`. `session` is one variable for all exports and mounts of the
repo, and its steps are the actions of `RepoSession`: a create statement reads
the fence (`Begin`), and inserts later under the locks of the repo and its
metadata, without reading the fence again (`Open`). `mount_binding` shows that the
bindings take no other steps. `overtaken` says that a session was inserted under
the fence, `stalled` which operations lost their lease under a worker; both are
history variables. Left out: writer fences (`RestoreGate` has them),
cancellation and operator repair (`OperationLease` has them).

### MountBinding

The handler turns every change into an operation; `pending` is the set of those not
yet committed, and any of them may be committed next, because several workers take
them up and refused commits are retried. `orch` is the orchestrator, which is outside
the repository: it acts on a plan it read at some time, and is assumed to report
*released* or *revoked* only after it has unmounted for good, as the contract asks.
`ReadFences` and `CommitCreate` are the snapshot and the insert of one create
statement; bindings inserted by a statement that a fence has overtaken are remembered
in `overtaken` and exempted from `NoMountDuringExclusiveUse`. In the mapping to
`RepoSession` `creating`, `usable` and the fence are what they are in this module. The
plan for the teardown track has no state and is no action.

### OperationIntake and WorkerPass

A handler looks up its idempotency scope, reads what admission needs, fixes
`created_at`, reads the reconciliation gate and inserts: each is a step. The insert is
decided by the unique indexes (scope and key; one unfinished JVS mutation per repo). A
reconciliation run may start between any two steps, so a handler may insert after the
gate it read has closed. `late` marks a row whose `created_at` is older than that of a
row inserted before it. A worker's pass checks JVS, reconciles (and ends there when a
run is blocked), lists up to `Limit` rows by age in a step of its own, takes them in
turn by statements that look for older operations of the repo, executes, and delivers
audit events. An executor is its outcome; heartbeats and renewal are those of
`OperationLease`, and a takeover that the statement refuses is `Refuse`. The HTTP
listing of operations is read-only and left out.

### Catalog and RepoProvision

The catalog operations commit their row, their end and their event in one statement;
`namespace_disable` ends its operation, without an event, also where the namespace is
not active, and may miss a session that is being created. `dir` is what JVS made in
each directory, by operation; `row` what the database says. `repo_create` reads the
catalog, inserts a lifecycle fence for an id that has no row yet, makes the directory
or adopts the one it finds, and commits; `template_create` marks itself, takes the
writer fence of its source, waits for the sessions, saves and clones; `template_clone`
takes no fence. A statement that refuses is an action of its own (`RepoCreateRefused`,
`TemplateRefused`, `MarkRefused`), because what happens after it differs. A volume
root that is missing or invalid and a read that fails are outcomes of `LoadMetadata`,
`MetadataReadPending`, `ValidateSource` and `CheckWriterSessions`. `stalled` says that
the lease of an operation ran out under a worker. The policy of templates is taken as
configured, and the save point that `template_create` adds to its source is left out.

## 3. Runs

| Run | Instance | Shows |
| --- | --- | --- |
| `operation_lease` | 1 operation, 2 workers, lease of 2, clock to 4, 3 attempts; symmetry over workers | exclusion, fencing, an audit trail that agrees with the row, refinement of the state table |
| `save_point` | 2 operations, 2 workers, 1 stop, 1 stall | successes and failures are honest, operations settle |
| `restore_gate` | 1 session, 1 request, 2 workers, 1 stop, 1 stall, clock to 3 | a write during a restore has one of three causes, the fence follows the operation |
| `restore_drain` | 1 session, 2 requests, 1 worker that may stop; slow admissions, lapsing heartbeats, late create statements | as before, with two requests; counts equal the ledger, terminal sessions are quiet, drain evidence is sound, revocations complete, a restore settles |
| `restore_fence_snapshot` | as `restore_gate`, with the clock at rest, so that neither a late admission nor a lapsed heartbeat can be the cause | **violation**: a session created behind the fence |
| `audit_outbox` | 2 deliverers, 3 events, batches of 2, 2 attempts, 1 stop or late claim (0.9 million states) | delivered means stored, attempts bound posts, every event ends |
| `restore_reconcile` | 2 targets, one with an id the filter refuses, 2 workers, 1 lifecycle commit, 1 stop | a completed run is true of the repos, purged targets, explained blocks, every run ends |
| `repo_lifecycle` | 2 operations of any type, 2 workers, 1 fault, retention of 2, clock to 1 (2.7 million states) | inactive repos are unused, purged ones gone, storage removed under a purge's fence only, fences freed |
| `purge_of_restored_repo` | as `repo_lifecycle` | **violation**: a purge removes the storage of a repo that was restored meanwhile |
| `mount_binding` | 1 binding, all reports, 2 queued changes | nothing mounted during exclusive use, honest evidence, releases complete, the bindings implement `RepoSession` |
| `worker_pass` | 2 handlers, 2 workers, 4 requests, 2 rows, lists of 1, 1 fault, reconciliation runs at any moment | one operation per key, exclusive use, queued operations are taken, events delivered |
| `repo_provision` | 9 requests, 2 operations, 2 workers, 2 volumes, 1 fault | rows match directories, no forgotten fence or directory, operations settle |

Exemptions are part of the properties, and each names a case in which the code
gives no guarantee, never a kind of behaviour. `EndedOperationFreesFence`,
`EndedFreesFences` and `OrphanHasOwner` exempt the one operation whose own lease ran
out under a worker, because fences are inserted without a lease check; stops, failed
reads and the lost leases of other operations are covered. `OrphanHasOwner` also
exempts the directory of a `repo_create` that made it on one volume and, the default
volume having changed, succeeded with a directory it found on another
(`executor.go:175-185`). `InactiveRepoHasNoSession`, `NoMountDuringExclusiveUse` and
`WriterDuringRestoreHasCause` exempt the session whose create statement the fence
overtook, the last also a late admission and a lapsed heartbeat; `CompletionIsTrue`
repos that a lifecycle operation changed during the run; `BlockIsExplained` a purge
that overtook the mismatch statement; `ExclusiveUse` rows dated before they could be
inserted; `QueuedIsTaken` what waits behind, or is hidden by, operations that wait for
an operator; `AuditDelivered` a blocked reconciliation run; `RunSettles` a mismatch
the filter refuses; `Settles` of `repo_provision` a `repo_create` whose target a clone
has filled. The first group, `ExclusiveUse` and the snapshots disagree with what the
contracts say; section 5 has the lines.

Bounds. Every bound is a named constant and a guard. Two workers are enough for
every race between a holder and a taker-over; a third only repeats the role of
the second. One stop and one stall per behaviour (one fault where they are
counted together) are the fewest with which a takeover happens. The clock of
`operation_lease` lets two leases run out one after the other. That of
`repo_lifecycle` tells an operation admitted before a repo's last change from one
admitted after it, and the repo it starts with may be a tombstone whose retention is
over, ends in the run, or outlasts it. In `ExportSession`,
`LastTraffic` stops new traffic before the clock stops, so that the bound does
not fake or hide progress. Two requests reach every order of begin, end and
recovery on shared counts; two targets, every order of a mismatch and a clean
one; two operations, every pair of types on one repo or catalog; a list of one
row is filled by one stuck operation; three events and batches of two leave a backlog
that no batch holds. `repo_provision` was also run with three operations for its
safety properties.
`CHECK_DEADLOCK FALSE` is used where the modelled work ends: operations settle,
the clock stops, the run is over.

Fairness. Weak fairness of the steps of workers and runners: the worker loop
starts a new pass two seconds after the last, whatever its result. Weak fairness
of time and of the expiry of abandoned leases. Weak fairness of the end of a
request: it ends or its process dies. Strong fairness of listing a session,
because the listing competes with nothing that could turn it away for ever, and
of JVS answering other than "busy": a mutation that keeps JVS busy ends. For
mounts, the orchestrator tears down what is being released, repeats its report
(strong fairness, since the gate may close in between), and an operator opens a
closed gate again. No client is given fairness, nor the audit sink: requests may
never come and posts may always fail.

## 4. Proofs

Each proof module defines `IndInv`, proves `Init => IndInv` and
`IndInv /\ [Next]_vars => IndInv'` with one lemma or step per action, and derives
the properties from it. The fairness conjuncts of the specifications are not
used. TLC has checked every `IndInv` on the instances of the runs before it was
proved, `WorkerPass`'s and `RepoProvision`'s on larger ones as well.

| Proof module | Theorems about |
| --- | --- |
| `OperationLease_proofs` | types, shape of the lease columns, exclusion, fencing, finality, `AuditMatchesOutcome`, `OperationStates` implemented; for `SavePointCreate` types, `SuccessNamesOwnSave`, `FailureLeavesNoHead`, `SavesOnce`, `OperationStates` implemented |
| `RestoreGate_proofs` | types, `CountsMatchLedger`, `TerminalIsQuiet`, `DrainedMeansNoWrite`, `FenceFollowsOperation`, `WriterDuringRestoreHasCause`, `OperationStates` implemented |
| `AuditOutbox_proofs` | types, `DeliveredWasAccepted`, `PostsWithinAttempts` |
| `RestoreReconcile_proofs` | types, `PurgedTargetBlocks`, `BlockIsExplained`, `CompletionIsTrue` |
| `RepoLifecycle_proofs` | types, `InactiveRepoHasNoSession`, `PurgedIsGone`, `EndedOperationFreesFence`, `RemovalUnderFence`, `OperationStates` implemented |
| `MountBinding_proofs` | types, `EvidenceIsHonest`, `NoMountDuringExclusiveUse`, `RepoSession` implemented |
| `WorkerPass_proofs` | types, `OneOperationPerKey`, `ExclusiveUse`, `OperationStates` implemented |
| `RepoProvision_proofs` | types, `RowMatchesStorage`, `EndedFreesFences`, `OrphanHasOwner`, `OperationStates` implemented |

### The arguments

*OperationLease.* The invariants say nothing of what workers remember. `IndInv`
adds that a worker that handles a row handles a member of `Ops`, and idle workers
none; that what a worker believes of its lease (`until`) is not later than what
the row says, as long as the row carries its name, so another worker that finds
the lease expired has outlived the belief of the first; and that a worker whose
name is on the row executes the attempt the row counts. Exclusion follows because
acquiring requires the end of the previous lease; finality and the refinement from
the guards on the state.

*SavePointCreate* (in `OperationLease_proofs`, whose sets of operations and workers
and whose `op` and `worker` it shares by name; its rows, its actions and its
specification are its own). A worker is *alone* on a row in the first attempt of
the operation, or while no worker has stopped or stalled. Such a worker knows that
the row is still its own and that the history holds no save of the operation but
the one it remembers (`AloneFacts`), so while a row has one worker the operation
has at most one save (`SavesOnce`). The theorem is as strong as the code allows:
after a fault a second attempt may save again, which TLC shows in eleven states.
Any worker about to report success remembers a save of its own operation that is
in the history (`MemoryFacts`), and the history only grows, so success needs no
condition. A first attempt that saved and fails has found another save at the
head. The two bounds `MaxStop` and `MaxStall` are natural numbers (`SaveBounds`).

*The state table.* `OperationLease` is an abstraction of every executor's rows, so
that its rows follow `operations/state.go` says nothing yet of the modules whose
statements are written out. Each of those proves `ImplementsStates` for itself:
an insert finds no row, an acquisition finds *queued* or *running*, a commit finds
*running* and, in `WorkerPass`, a repair finds *operator_intervention_required*.
The guards are on the row and not on
what the worker remembers, so no late statement takes a row off the table.

*RestoreGate* (with `ExportSession`). `RequestInv` follows a request through
handler and ledger, `SessionInv` equates the counts with the number of open rows,
which every begin, end and stale recovery changes by the same number. A session
becomes terminal only with a count of zero, and no row is opened on it
afterwards. `QuietWhileRestoring` says that what the gate found of the sessions
stays true while the fence is held: a session that is neither drained nor
overtaken has expired or is being revoked, and a write still open on it began late.
A write that is served without an open row had its row closed as stale. From the
three together, and from nothing about the environment,
`WriterDuringRestoreHasCause` follows.

*AuditOutbox.* An answer *ok* in the hand of a deliverer means that the sink has
stored the event; a row that does not exist has counted no attempt. The posts
still owed are the deliverers with the event in their batch, which only a claim
increases, with the attempt.

*RestoreReconcile.* A pass that has blocked nothing has met no target whose purge
must be upheld among those it went past; when it is at the end, there is none. A
pass that blocked something did so in a blocked run, so it cannot complete it.
While a run is not blocked only lifecycle commits change a repo, and `moved`
remembers those, so of every other repo a snapshot and a clean observation stay true
however old they are (`SnapshotIsTrue`, `CleanIsTrue`); that is `CompletionIsTrue`.

*RepoLifecycle.* A purge that has its fence, or has read that it has, still holds
it unless the storage is gone; a purge about to report success has left nothing.
Until its lease expires under a worker an operation has that worker alone, so the
fences it has read say whether it holds one (`SoleOwner`). A second invariant
(`SessionInv`) follows the sessions past the snapshot of a commit: a worker that has
judged the sessions and may still commit has the fence, and under the fence a session
that was not there can only come from a create statement begun before it, which sets
`overtaken`.

*MountBinding.* A queued change belongs to a binding that exists, or creates one
that does not; a queued report of the end is true; what has ended is not mounted.
While an operation has the repo to itself every binding is absent, harmless to the
operation, overtaken or confirmed. `RepoSession` follows step by step, with the
status of the bindings mapped to one session and the queued create statements to its
`creating`.

*WorkerPass* (with `OperationIntake`). Every admission reads another time, so of
two rows one is older. The unique index leaves one unfinished mutation per repo. A
clone is older than every lifecycle operation of the repo it makes, because it
asks for a repo that does not exist and they for one that does, which is why its
acquire statement may look for nothing. So an older row that must not run beside a
running one can only have come late (`OlderIsLate`), and `ExclusiveUse` follows.

*RepoProvision* (with `Catalog`). One layer holds whatever goes wrong: nothing made
is unmade, a fence belongs to an operation of the repo it names, a worker about to
commit knows what is in its directory. The other is about each operation whose own
lease has not run out under a worker: it has at most one worker, which owns it, and
what that worker has read of its fence is still true, whatever has happened to the
other operations. The directory of a `repo_create` is then either covered
by its fence or named, or superseded, by the row.

### Assumptions

Null values are not members of the sets they stand beside, bounds are natural
numbers and durations positive. Beyond that: finitely many deliverers
(`AuditOutbox`) and requests (`ExportSession`), since the properties count them;
request forms the handlers enforce (`FormAssumption` of `Catalog` and of
`OperationIntake`: what a route makes of an id, and that a lifecycle request names
the repo it was admitted for); at least one volume; different seed repo and
template. TLC evaluates each of them in the runs.

### What the proofs changed

- The first form of `OrphanHasOwner` passed the run and could not be proved: with
  more operations than the run has, the default volume changes while a
  `repo_create` is between two attempts, and the operation succeeds with a
  directory it adopts. The property names this case now.
- The worker pass's list was built by ranks; it is now any sequence that is ordered
  by age and complete up to the limit, which the proof can reason about.
- `RepoSession` had every session begin *active*. A new export has no
  `last_observed_at`, and `sessionstate.go:288` counts it as stale until its first
  request; `RepoSession.Open` and `RepoLifecycle.CreateSession` now allow both.
- `RepoSession` also let a session open under a held fence without asking when its
  statement had begun. It has the two steps of a create statement now, and
  `RepoLifecycle` takes them as they are.
- The fence properties were proved until the first fault of any kind. Followed per
  operation, the proofs need only that the operation's own lease was kept, and the
  properties say so.
- The types of `WorkerPass` had a conjunct whose alignment changed its meaning, and
  three modules had `CASE` expressions with overlapping guards.

### Only model-checked

All liveness, since fairness and ENABLED are outside the prover's reach:
operations settle, revocations and releases complete, queued operations are taken,
events end and are delivered, runs end. Every
invariant, action property and refinement of a passing run has a theorem. The two
properties of the findings are false.

## 5. Findings

Each is a run that must be violated; `PROJECT.json` quotes the text it
contradicts.

1. `restore_fence_snapshot`: the fence is invisible to a create statement that
   started before it.
2. `purge_of_restored_repo`: the purge executor reads fences and repo before it
   inserts its own fence and never reads them again, so it removes the storage of
   a repo that a restore of the tombstone has made active in between; its commit
   is then refused.

The first stands for three causes; the other two, a late admission and a lapsed
heartbeat, break the same sentence of the contract and are named in
`WriterDuringRestoreHasCause`.

Seen while modelling, without a run of their own:

- *Save points.* The coordinator hands the executor the plan of the listed row
  with the record of a later attempt (`recovery/operation.go:151`), so JVS may run
  on an uncertain second attempt, which `executor_test.go:698` has refused; and a
  reclaim never clears the drain-pending mark (`save_point_executor.go:507`), so a
  second save is possible although `operation-state-machine-v1.md:187` asks to
  inspect history before a retry.
- *Restore.* An attempt that repeats a restore whose commit was lost may record it
  as failed (`restore_executor.go:129`; `operation-state-machine-v1.md:243-247` has
  uncertain commits end in intervention). Lines 242-243 and 283 have a restore
  denied by active writers fail and release its fence, while the code keeps the
  fence and the operation running until the writers drain.
- *Export requests.* `operation-state-machine-v1.md:275-276` asks that a request's
  session be unexpired at the database's admission; the statement compares the expiry
  with the time the gateway read before it (`exportgateway/gateway.go:615`). Such a
  request writes during a restore that has found its session expired, and so does one
  whose heartbeats lapsed (`gateway.go:661`). A client that lost the answer of its
  create never learns the password on replay.
- *Restore reconciliation.* A second mismatch of a run is never marked, because the
  first has blocked the run (`restore_reconciliation.go:187`;
  `restore-reconciliation-v1.md:26`). `ObserveTarget` does not look at the mode, and
  a slow pass overwrites an observation of a completed run (line 17 says those are
  clean). A purge that is committed while the mismatch statement waits for the repo
  leaves a blocked run without an event (`restore_reconciliation.go:185-203`; lines 16
  and 27 ask for one). The gate is read
  by one statement and the operation inserted by another
  (`operation_intake.go:126`), so a run that starts in between does not stop the
  write; and the intakes of repo create and of templates do not read the gate at all
  (`repo_handler.go:312`, `repo_template_handler.go:411`), although
  `restoreReconciliationDangerousRoute` (`operation_intake.go:136-149`) lists their
  routes and lines 15 and 21 have dangerous writes denied. No property claims that a
  run quiesces the system.
- *Lifecycle.* The export and mount create statements and the lifecycle commit judge
  fences and sessions from snapshots older than their row locks
  (`export_sessions.go:451-457`, `workload_mount_bindings.go:395-403`,
  `repo_lifecycle_operations.go:170`), so an archived or deleted repo can have an open
  session; `overtaken` in `InactiveRepoHasNoSession` is this case.
- *Fences.* `fences.Fence.Held` says it mirrors the durable uniqueness contract,
  while the index looks at `released_at` only.
- *Mounts.* `workload-mount-binding-v1.md:111` has status-changing calls respect the
  lifecycle fence; the code checks none and takes a release under it. `ReleaseCompletes`
  rests on the code, not on the contract: the mutant `MutationAdmittedUnfenced` is the
  documented behaviour, and with it an archive or delete waits for a release that can
  never be reported. A binding reported *expired* or
  *failed* is terminal without evidence and blocks restores and lifecycle
  operations for ever. With admission disabled, release, revoke and status are
  refused too (`capability/matrix.go:170`). A create commit that is refused is
  retried for ever.
- *Intake and pass.* `created_at` is fixed before the insert, so an operation may be
  overtaken by a younger one and then run beside it
  (`operation-state-machine-v1.md:303` has the acquisition reject active
  mutations). The candidate list of purges omits `cancel_requested`. A blocked run
  ends each pass before the audit delivery that would report it. A pass that finds
  JVS unavailable hands its operations to an operator.
- *Catalog and creation.* `namespace_disable` on a namespace that is not active
  succeeds without its audit event, while the executor is told that it lost its lease
  (`namespace_operations.go:182-207`; `operation-state-machine-v1.md:179` has the
  three committed atomically), so no property claims that every end is audited.
  `template_clone` takes no fence and does not look at the namespace status before it
  clones (lines 181 and 190 ask for a target exclusive create), so a clone may fill a
  directory its commit then may not name, and a `repo_create` that adopts a clone's
  directory is refused for ever. A `template_create` or `template_clone` whose commit
  was refused may end failed and leave its directory.

## 6. Not modelled, and the plan

Contents of files, names, credentials, redaction and HTTP decoding are left out;
JVS is a nondeterministic answer. Not modelled at all, because they keep no
protocol state: operation inspection (read-only projections), the path resolver,
configuration, identity and observability, and the build-time checks of release
evidence and contracts, which are a large part of the source. Schema migration and
volume bootstrap are one-shot administration commands.

What is left of the plan is a module for schema migration and volume bootstrap, if
their restarts turn out to have states worth checking.

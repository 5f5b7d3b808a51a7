----------------------------- MODULE RepoLifecycle ----------------------------
(***************************************************************************)
(* Archive, delete, restore and purge of one repo: the HTTP admission      *)
(* (internal/api/repo_lifecycle_handler.go), the lifecycle and purge       *)
(* executors (internal/repoexec) and the statements they go through.       *)
(*                                                                         *)
(* The executors read the held fences, the repo and the earlier operations *)
(* by separate statements and insert the lifecycle fence by a later one;   *)
(* what they read is kept in `worker'.  Storage is outside the database:   *)
(* its removal takes two steps, so that a worker can stop between them.    *)
(* The exports and mounts of the repo are one session, which behaves as    *)
(* RepoSession says.                                                       *)
(***************************************************************************)
EXTENDS Integers

CONSTANTS
    Ops,            \* lifecycle operations of the repo, by operation_id
    Workers,        \* lease owners
    NoOwner, NoOp,  \* null values
    Retention,      \* tombstone_retention_seconds
    MaxTime,        \* bound on the clock
    MaxFaults       \* bound on workers that stop in mid-operation and on
                    \* leases that expire under a working worker, together

ASSUME OpsAssumption == Ops \subseteq Nat
ASSUME NullAssumption == NoOwner \notin Workers /\ NoOp \notin Ops
ASSUME TimeAssumption == Retention \in Nat /\ MaxTime \in Nat
ASSUME FaultAssumption == MaxFaults \in Nat

VARIABLES
    repo,       \* the repos row
    storage,    \* the container directory of the repo
    enabled,    \* namespace, binding and volume are active
    fence,      \* holder of the held lifecycle fence, or NoOp
    fences,     \* operations whose fence row exists, held or released
    session,    \* the exports and mounts of the repo
    creating,   \* a create statement has read the fence
    overtaken,  \* a session open now was inserted under a lifecycle fence
    op,         \* operation rows
    worker,     \* the memory of each worker
    now,        \* the clock
    faults,     \* stops and stalls so far
    stalled     \* operations whose lease expired under a working worker

sessionVars == <<session, creating, overtaken>>
faultVars == <<faults, stalled>>

vars == <<repo, storage, enabled, fence, fences, sessionVars, op, worker, now,
          faultVars>>

Lifecycle == {"repo_archive", "repo_restore_archived", "repo_delete",
              "repo_restore_tombstoned"}
Types == Lifecycle \cup {"repo_purge"}
Never == MaxTime + Retention + 1        \* a NULL timestamp
Times == 0..Never

Statuses == {"active", "archived", "tombstoned", "purged"}
Repo == [status: Statuses, pre: {"none", "active", "archived"},
         expires: Times, updated: Times]

Terminal == {"succeeded", "failed"}
OperationRecord ==
    [type: Types \cup {"none"},
     state: {"absent", "queued", "running",
             "operator_intervention_required"} \cup Terminal,
     lease: {"none", "live", "expired"},
     owner: Workers \cup {NoOwner},
     created: Times,
     override: BOOLEAN]         \* break-glass authorized at admission

WorkerRecord ==
    [pc: {"idle", "fences", "repo", "earlier", "acquire", "drain", "storage",
          "removing", "succeed", "commit", "fail", "intervene"},
     op: Ops \cup {NoOp},
     held: {"none", "own", "other"},        \* the fences it has read
     seen: [status: Statuses, pre: {"none", "active", "archived"}],
     allowed: BOOLEAN,                      \* TargetAllowed of the row read
     at: Times]                             \* the clock at its start

Blank == [status |-> "active", pre |-> "none", expires |-> Never,
          updated |-> 0]
IdleWorker == [pc |-> "idle", op |-> NoOp, held |-> "none",
               seen |-> [status |-> "active", pre |-> "none"],
               allowed |-> TRUE, at |-> 0]

TypeOK ==
    /\ repo \in Repo
    /\ storage \in {"present", "partial", "absent"}
    /\ enabled \in BOOLEAN
    /\ fence \in Ops \cup {NoOp}
    /\ fences \subseteq Ops
    /\ session \in {"none", "active", "stale"}
    /\ creating \in BOOLEAN /\ overtaken \in BOOLEAN
    /\ op \in [Ops -> OperationRecord]
    /\ worker \in [Workers -> WorkerRecord]
    /\ now \in 0..MaxTime
    /\ faults \in 0..MaxFaults
    /\ stalled \subseteq Ops

\* A repo in use, or one deleted earlier whose retention ends by and by.
Init ==
    /\ repo \in {Blank} \cup
           [status: {"tombstoned"}, pre: {"active"}, expires: 0..Retention,
            updated: {0}]
    /\ storage = "present"
    /\ enabled = TRUE
    /\ fence = NoOp
    /\ fences = {}
    /\ session = "none" /\ creating = FALSE /\ overtaken = FALSE
    /\ op = [o \in Ops |-> [type |-> "none", state |-> "absent",
                            lease |-> "none", owner |-> NoOwner,
                            created |-> 0, override |-> FALSE]]
    /\ worker = [w \in Workers |-> IdleWorker]
    /\ now = 0
    /\ faults = 0
    /\ stalled = {}

------------------------------------------------------------------------------
(* Admission.                                                               *)

\* The status an operation of type t starts from.
SourceMatches(t, status) ==
    CASE t = "repo_archive" -> status = "active"
      [] t = "repo_restore_archived" -> status = "archived"
      [] t = "repo_delete" -> status \in {"active", "archived"}
      [] OTHER -> status = "tombstoned"

\* repoaccess.Admit for a lifecycle intent.
AdmitAccess(t) == enabled /\ fence = NoOp /\ SourceMatches(t, repo.status)

\* The purge waits for the retention to end, or is authorized to override it.
AdmitPurgePolicy(override) == repo.expires <= now \/ override

\* The handler reads the metadata, decides and inserts the operation.  The
\* executor repeats every check, so a row that changes between the decision
\* and the insert is the same as one that changes after it.
AdmitLifecycle(o, t, override) ==
    /\ op[o].state = "absent"
    /\ AdmitAccess(t)
    /\ t = "repo_restore_tombstoned" => now < repo.expires
    /\ t = "repo_purge" => AdmitPurgePolicy(override)
    /\ override => t = "repo_purge"
    /\ op' = [op EXCEPT ![o].type = t, ![o].state = "queued",
                        ![o].created = now, ![o].override = override]
    /\ UNCHANGED <<repo, storage, enabled, fence, fences, sessionVars, worker,
                   now, faultVars>>

------------------------------------------------------------------------------
(* The executors up to the fence.                                           *)

AtStep(w, pc) == worker[w].pc = pc
Goto(w, pc) == worker' = [worker EXCEPT ![w].pc = pc]
Type(w) == op[worker[w].op].type

\* The lease is taken on a queued row or on one whose lease has expired.
Acquirable(o) == \/ op[o].state = "queued"
                 \/ op[o].state = "running" /\ op[o].lease = "expired"

AcquireLease(w, o) ==
    /\ AtStep(w, "idle")
    /\ Acquirable(o)
    /\ op' = [op EXCEPT ![o].state = "running", ![o].lease = "live",
                        ![o].owner = w]
    /\ worker' = [worker EXCEPT ![w] = [IdleWorker EXCEPT !.pc = "fences",
                                            !.op = o, !.at = now]]
    /\ UNCHANGED <<repo, storage, enabled, fence, fences, sessionVars, now,
                   faultVars>>

\* ListHeldRepoFences, and which of the fences is this operation's own.
ListHeldFences(w) ==
    /\ AtStep(w, "fences")
    /\ worker' = [worker EXCEPT
                    ![w].pc = "repo",
                    ![w].held = CASE fence = NoOp -> "none"
                                  [] fence = worker[w].op -> "own"
                                  [] OTHER -> "other"]
    /\ UNCHANGED <<repo, storage, enabled, fence, fences, sessionVars, op, now,
                   faultVars>>

\* The retention, as the row and the operation's snapshot show it.
PurgePolicyHolds(r, o) ==
    /\ r.expires # Never /\ r.pre # "none"
    /\ r.expires <= op[o].created \/ op[o].override

CurrentCycle(r, o) == op[o].created > r.updated

\* A restore of a tombstone returns within the retention, in the cycle the
\* executor has read.
TargetAllowed(r, o) ==
    op[o].type = "repo_restore_tombstoned" =>
        /\ r.pre # "none"
        /\ r.expires # Never /\ op[o].created < r.expires
        /\ CurrentCycle(r, o)

\* GetRepoInNamespace and the checks on the row.  A lifecycle operation that
\* may not run fails, a purge asks for an operator.
ReadRepo(w) ==
    LET o == worker[w].op
        lifecycleOK == SourceMatches(op[o].type, repo.status) /\ enabled
        purgeOK == /\ repo.status = "tombstoned"
                   /\ PurgePolicyHolds(repo, o)
                   /\ CurrentCycle(repo, o)
        next == CASE op[o].type = "repo_purge" ->
                        IF purgeOK THEN "earlier" ELSE "intervene"
                  [] OTHER -> IF lifecycleOK THEN "acquire" ELSE "fail"
    IN  /\ AtStep(w, "repo")
        /\ worker' = [worker EXCEPT
                ![w].pc = next,
                ![w].seen = [status |-> repo.status, pre |-> repo.pre],
                ![w].allowed = TargetAllowed(repo, o)]
        /\ UNCHANGED <<repo, storage, enabled, fence, fences, sessionVars, op,
                       now, faultVars>>

Earlier(p, o) == /\ op[p].state \in {"queued", "running",
                                     "operator_intervention_required"}
                 /\ \/ op[p].created < op[o].created
                    \/ op[p].created = op[o].created /\ p < o

ListEarlier(w) ==
    /\ AtStep(w, "earlier")
    /\ IF \E p \in Ops : Earlier(p, worker[w].op)
       THEN Goto(w, "intervene") ELSE Goto(w, "acquire")
    /\ UNCHANGED <<repo, storage, enabled, fence, fences, sessionVars, op, now,
                   faultVars>>

\* A lifecycle fence is refused beside any other held one.
CanAcquire(held) == held = "none"

\* The insert meets the unique index on held fences or the primary key.
FenceRowConflicts(o) == fence # NoOp \/ o \in fences

CreateRepoFence(o) ==
    /\ ~FenceRowConflicts(o)
    /\ fence' = o
    /\ fences' = fences \cup {o}

\* The fences read before decide; the insert is turned away by the unique
\* index on held fences and by the primary key.  It checks no lease.
AcquireFence(w) ==
    LET o == worker[w].op
        proceeds == IF worker[w].allowed THEN "drain" ELSE "intervene"
    IN  /\ AtStep(w, "acquire")
        /\ \/ /\ worker[w].held = "own"
              /\ Goto(w, proceeds)
              /\ UNCHANGED <<fence, fences>>
           \/ /\ worker[w].held # "own" /\ ~CanAcquire(worker[w].held)
              /\ Goto(w, IF Type(w) = "repo_purge" THEN "intervene"
                                                   ELSE "fail")
              /\ UNCHANGED <<fence, fences>>
           \/ /\ CanAcquire(worker[w].held) /\ CreateRepoFence(o)
              /\ Goto(w, proceeds)
           \/ /\ CanAcquire(worker[w].held) /\ FenceRowConflicts(o)
              /\ worker' = [worker EXCEPT ![w] = IdleWorker]
              /\ UNCHANGED <<fence, fences>>
        /\ UNCHANGED <<repo, storage, enabled, sessionVars, op, now,
                       faultVars>>

------------------------------------------------------------------------------
(* The executors under the fence.                                           *)

\* LifecycleDrainGate.  Archive, delete and purge wait for active sessions:
\* the executor returns and the operation is reclaimed later.
DrainGate(w) ==
    /\ AtStep(w, "drain")
    /\ worker' = [worker EXCEPT ![w] =
           CASE session = "none" -> [@ EXCEPT !.pc = "storage"]
             [] session = "active" /\ Type(w) \notin
                    {"repo_restore_archived", "repo_restore_tombstoned"} ->
                    IdleWorker
             [] OTHER -> [@ EXCEPT !.pc = "intervene"]]
    /\ UNCHANGED <<repo, storage, enabled, fence, fences, sessionVars, op, now,
                   faultVars>>

\* The restores ask the JVS doctor, which refuses a damaged repo; archive and
\* delete leave the storage alone.
LifecycleStorage(w) ==
    /\ AtStep(w, "storage") /\ Type(w) \in Lifecycle
    /\ \/ /\ \/ Type(w) \in {"repo_archive", "repo_delete"}
             \/ storage = "present"
          /\ Goto(w, "succeed")
       \/ /\ Type(w) \in {"repo_restore_archived", "repo_restore_tombstoned"}
          /\ Goto(w, "intervene")
    /\ UNCHANGED <<repo, storage, enabled, fence, fences, sessionVars, op, now,
                   faultVars>>

\* Mutant: what is partly gone is taken for gone.
InspectStoragePartialIsGone(w) ==
    /\ AtStep(w, "storage") /\ Type(w) = "repo_purge"
    /\ \/ storage # "present" /\ Goto(w, "succeed")
       \/ storage = "present" /\ enabled /\ Goto(w, "removing")
       \/ storage = "present" /\ Goto(w, "intervene")
    /\ UNCHANGED <<repo, storage, enabled, fence, fences, sessionVars, op, now,
                   faultVars>>

\* InspectRepoStorage: what is gone is not removed again, what is partly gone
\* is removed without asking the doctor.
InspectStorage(w) ==
    /\ AtStep(w, "storage") /\ Type(w) = "repo_purge"
    /\ \/ storage = "absent" /\ Goto(w, "succeed")
       \/ storage = "partial" /\ Goto(w, "removing")
       \/ storage = "present" /\ enabled /\ Goto(w, "removing")
       \/ storage = "present" /\ Goto(w, "intervene")  \* metadata or doctor
    /\ UNCHANGED <<repo, storage, enabled, fence, fences, sessionVars, op, now,
                   faultVars>>

\* RemoveAll of the container directory, entry by entry.
RemoveStorage(w) ==
    /\ AtStep(w, "removing")
    /\ \/ /\ storage # "absent"
          /\ storage' = IF storage = "present" THEN "partial" ELSE "absent"
          /\ UNCHANGED worker
       \/ /\ storage = "absent"
          /\ Goto(w, "succeed")
          /\ UNCHANGED storage
       \/ /\ Goto(w, "intervene")               \* a directory that will not go
          /\ UNCHANGED storage
    /\ UNCHANGED <<repo, enabled, fence, fences, sessionVars, op, now,
                   faultVars>>

------------------------------------------------------------------------------
(* The commits.                                                             *)

Owns(w) == LET r == op[worker[w].op]
           IN r.state = "running" /\ r.owner = w /\ r.lease = "live"

\* What the success statement writes, from the row the executor read.
Target(r, t, at, o) ==
    CASE t = "repo_archive" ->
            [status |-> "archived", pre |-> "none", expires |-> Never,
             updated |-> at]
      [] t = "repo_restore_archived" ->
            [status |-> "active", pre |-> "none", expires |-> Never,
             updated |-> at]
      [] t = "repo_delete" ->
            [status |-> "tombstoned", pre |-> r.status,
             expires |-> op[o].created + Retention, updated |-> at]
      [] t = "repo_restore_tombstoned" ->
            [status |-> r.pre, pre |-> "none", expires |-> Never,
             updated |-> at]
      [] t = "repo_purge" ->
            [status |-> "purged", pre |-> r.pre, expires |-> Never,
             updated |-> at]

\* What the store checks of a record before a lifecycle statement: its type,
\* and that the row it carries ends where that type leads.
LifecycleRecord(w) ==
    /\ Type(w) \in Lifecycle
    /\ Target(worker[w].seen, Type(w), worker[w].at, worker[w].op) \in Repo

\* The conditions of the two success statements on the rows they lock or
\* update: they hold of the row as it is when the statement comes to it.
LifecycleRowsAllow(w) ==
    LET o == worker[w].op
        t == op[o].type
    IN  /\ LifecycleRecord(w)
        /\ SourceMatches(t, repo.status)
        /\ t = "repo_delete" => repo.status = worker[w].seen.status
        /\ t = "repo_restore_tombstoned" =>
             /\ op[o].created < repo.expires
             /\ CurrentCycle(repo, o)
             /\ repo.pre = worker[w].seen.pre

PurgeRowsAllow(w) ==
    LET o == worker[w].op
    IN  /\ op[o].type = "repo_purge"
        /\ repo.status = "tombstoned"
        /\ CurrentCycle(repo, o)
        /\ repo.pre = worker[w].seen.pre

RowsAllow(w) ==
    /\ Owns(w)
    /\ fence = worker[w].op
    /\ LifecycleRowsAllow(w) \/ PurgeRowsAllow(w)

\* What the statements read without a lock, from their snapshot: the sessions,
\* the metadata and the earlier operations.
SnapshotAllows(w) ==
    /\ RowsAllow(w)
    /\ session = "none"
    /\ Type(w) \in Lifecycle => enabled
    /\ Type(w) = "repo_purge" => \A p \in Ops : ~Earlier(p, worker[w].op)

Ended(o, state) == [op EXCEPT ![o].state = state, ![o].lease = "none",
                              ![o].owner = NoOwner]

\* The statement takes its snapshot, then waits for the rows it updates: a
\* create statement that holds the repo row may insert a session meanwhile.
ReadSnapshot(w) ==
    /\ AtStep(w, "succeed")
    /\ SnapshotAllows(w)
    /\ Goto(w, "commit")
    /\ UNCHANGED <<repo, storage, enabled, fence, fences, sessionVars, op, now,
                   faultVars>>

CommitSucceeded(w) ==
    LET o == worker[w].op
    IN  /\ AtStep(w, "commit")
        /\ RowsAllow(w)
        /\ repo' = Target(worker[w].seen, Type(w), worker[w].at, o)
        /\ op' = Ended(o, "succeeded")
        /\ fence' = NoOp
        /\ worker' = [worker EXCEPT ![w] = IdleWorker]
        /\ UNCHANGED <<storage, enabled, fences, sessionVars, now, faultVars>>

\* Mutant: the failure statement leaves the fence.
CommitFailedKeepsFence(w) ==
    /\ AtStep(w, "fail")
    /\ Owns(w)
    /\ op' = Ended(worker[w].op, "failed")
    /\ worker' = [worker EXCEPT ![w] = IdleWorker]
    /\ UNCHANGED <<repo, storage, enabled, fence, fences, sessionVars, now,
                   faultVars>>

\* A failure releases the fence the executor found to be its own, and is
\* turned away when that fence is no longer held.
FailAllowed(w) ==
    Owns(w) /\ (worker[w].held = "own" => fence = worker[w].op)

CommitFailed(w) ==
    LET o == worker[w].op
        releases == worker[w].held = "own"
    IN  /\ AtStep(w, "fail")
        /\ FailAllowed(w)
        /\ op' = Ended(o, "failed")
        /\ fence' = IF releases THEN NoOp ELSE fence
        /\ worker' = [worker EXCEPT ![w] = IdleWorker]
        /\ UNCHANGED <<repo, storage, enabled, fences, sessionVars, now,
                       faultVars>>

\* Mutant: an intervention frees the repo for other operations.
CommitInterventionFreesFence(w) ==
    LET o == worker[w].op
    IN  /\ AtStep(w, "intervene")
        /\ Owns(w)
        /\ op' = Ended(o, "operator_intervention_required")
        /\ fence' = IF fence = o THEN NoOp ELSE fence
        /\ worker' = [worker EXCEPT ![w] = IdleWorker]
        /\ UNCHANGED <<repo, storage, enabled, fences, sessionVars, now,
                       faultVars>>

\* An intervention keeps the fence.
CommitIntervention(w) ==
    /\ AtStep(w, "intervene")
    /\ Owns(w)
    /\ op' = Ended(worker[w].op, "operator_intervention_required")
    /\ worker' = [worker EXCEPT ![w] = IdleWorker]
    /\ UNCHANGED <<repo, storage, enabled, fence, fences, sessionVars, now,
                   faultVars>>

CommitRejected(w) ==
    /\ \/ AtStep(w, "succeed") /\ ~SnapshotAllows(w)
       \/ AtStep(w, "commit") /\ ~RowsAllow(w)
       \/ AtStep(w, "fail") /\ ~FailAllowed(w)
       \/ AtStep(w, "intervene") /\ ~Owns(w)
    /\ worker' = [worker EXCEPT ![w] = IdleWorker]
    /\ UNCHANGED <<repo, storage, enabled, fence, fences, sessionVars, op, now,
                   faultVars>>

------------------------------------------------------------------------------
(* Sessions, metadata, time and failures.                                   *)

Sessions == INSTANCE RepoSession WITH
    usable <- repo.status = "active" /\ enabled,
    fenced <- fence # NoOp

\* The create statement of an export or a mount takes its snapshot.
BeginCreate ==
    /\ ~creating /\ Sessions!Begin
    /\ UNCHANGED <<repo, storage, enabled, fence, fences, overtaken, op,
                   worker, now, faultVars>>

\* Mutant: the create statement trusts its snapshot for the repo's status.
CreateSessionAnyRepo ==
    /\ creating /\ creating' = FALSE
    /\ session' \in {"active", "stale"}
    /\ overtaken' = (overtaken \/ fence # NoOp)
    /\ UNCHANGED <<repo, storage, enabled, fence, fences, op, worker, now,
                   faultVars>>

\* It locks the repo and the metadata, reads them again and inserts.
CreateSession ==
    /\ Sessions!Open /\ creating' = FALSE
    /\ overtaken' = (overtaken \/ fence # NoOp)
    /\ UNCHANGED <<repo, storage, enabled, fence, fences, op, worker, now,
                   faultVars>>

CreateRefused ==
    /\ Sessions!GiveUp /\ creating' = FALSE
    /\ UNCHANGED <<repo, storage, enabled, fence, fences, overtaken, op,
                   worker, now, faultVars>>

SessionChanges ==
    /\ Sessions!Change
    /\ overtaken' = (overtaken /\ session' # "none")
    /\ UNCHANGED <<repo, storage, enabled, fence, fences, op, worker, now,
                   faultVars>>

DisableNamespace ==
    /\ enabled /\ enabled' = FALSE
    /\ UNCHANGED <<repo, storage, fence, fences, sessionVars, op, worker, now,
                   faultVars>>

Tick ==
    /\ now < MaxTime /\ now' = now + 1
    /\ UNCHANGED <<repo, storage, enabled, fence, fences, sessionVars, op,
                   worker, faultVars>>

Works(o) == \E w \in Workers : worker[w].op = o /\ op[o].owner = w

\* The lease of an operation nobody works on runs out.
Expire(o) ==
    /\ op[o].lease = "live" /\ ~Works(o)
    /\ op' = [op EXCEPT ![o].lease = "expired"]
    /\ UNCHANGED <<repo, storage, enabled, fence, fences, sessionVars, worker,
                   now, faultVars>>

Stall(o) ==
    /\ op[o].lease = "live" /\ Works(o)
    /\ faults < MaxFaults
    /\ op' = [op EXCEPT ![o].lease = "expired"]
    /\ faults' = faults + 1
    /\ stalled' = stalled \cup {o}
    /\ UNCHANGED <<repo, storage, enabled, fence, fences, sessionVars, worker,
                   now>>

Stop(w) ==
    /\ ~AtStep(w, "idle")
    /\ faults < MaxFaults
    /\ worker' = [worker EXCEPT ![w] = IdleWorker]
    /\ faults' = faults + 1
    /\ UNCHANGED <<repo, storage, enabled, fence, fences, sessionVars, op, now,
                   stalled>>

Common(w) ==
    \/ ListHeldFences(w) \/ ReadRepo(w) \/ AcquireFence(w) \/ DrainGate(w)
    \/ ReadSnapshot(w) \/ CommitSucceeded(w) \/ CommitIntervention(w)
    \/ CommitRejected(w)

\* ExecuteOperationRecovery of the two executors.
LifecycleExecutor(w) == Common(w) \/ LifecycleStorage(w) \/ CommitFailed(w)
PurgeExecutor(w) == Common(w) \/ ListEarlier(w) \/ InspectStorage(w)
                    \/ RemoveStorage(w)

Executor(w) ==
    \/ \E o \in Ops : AcquireLease(w, o)
    \/ /\ worker[w].op # NoOp
       /\ \/ Type(w) \in Lifecycle /\ LifecycleExecutor(w)
          \/ Type(w) = "repo_purge" /\ PurgeExecutor(w)

Next ==
    \/ \E o \in Ops, t \in Types, b \in BOOLEAN : AdmitLifecycle(o, t, b)
    \/ \E o \in Ops : Expire(o) \/ Stall(o)
    \/ \E w \in Workers : Executor(w) \/ Stop(w)
    \/ BeginCreate \/ CreateSession \/ CreateRefused \/ SessionChanges
    \/ DisableNamespace \/ Tick

\* Workers go on and an abandoned lease runs out.
Fairness ==
    /\ \A w \in Workers : WF_vars(Executor(w))
    /\ \A o \in Ops : WF_vars(Expire(o))

Spec == Init /\ [][Next]_vars /\ Fairness

------------------------------------------------------------------------------
(* Properties.                                                              *)

\* A repo that is archived, deleted or purged is used by nobody: the drain
\* gate, the fence and the commit statement together leave no export or mount
\* of it open, whatever was created while the operation was under way.  The
\* one exception is a session inserted under the fence itself, by a statement
\* that had read the fences before it was set (export_sessions.go:456,
\* workload_mount_bindings.go:400) and that came after the snapshot the
\* commit judged the sessions from (repo_lifecycle_operations.go:170).
InactiveRepoHasNoSession ==
    repo.status # "active" /\ session # "none" => overtaken

\* A repo is reported purged only when nothing of its storage is left, also
\* when the removal was cut short and taken up by another worker.
PurgedIsGone == repo.status = "purged" => storage = "absent"

\* An operation that ends frees its repo, whatever workers stopped on the way:
\* a fence outlives its operation only when the lease of that very operation
\* expired under a worker that went on (lifecycle_executor.go:146 inserts the
\* fence without a lease check).
EndedOperationFreesFence ==
    fence # NoOp /\ op[fence].state \in Terminal => fence \in stalled

\* Storage is removed only under the lifecycle fence of a purge, also by a
\* worker that has lost its lease and does not know it.
RemovalUnderFence ==
    [][storage' # storage =>
        fence # NoOp /\ op[fence].type = "repo_purge"]_vars

\* docs/contracts/repo-lifecycle-v1.md: purge is allowed only for tombstoned
\* repos, so a repo in use keeps its storage.  The purge executor reads the
\* fences and the repo before it inserts its own fence and does not read them
\* again: a restore of the tombstone that starts after the first read and
\* commits before the insert is overlooked.
RepoInUseHasStorage ==
    repo.status \in {"active", "archived"} => storage = "present"
==============================================================================

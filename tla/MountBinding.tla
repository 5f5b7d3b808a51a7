----------------------------- MODULE MountBinding -----------------------------
(***************************************************************************)
(* Workload mount bindings of one repo: the HTTP handler that queues every *)
(* change as an operation, the executor that commits it, the plan the      *)
(* orchestrator reads, and the session gates that decide whether a restore *)
(* or a lifecycle operation may have the repo to itself.                   *)
(*                                                                         *)
(* Reports are queued and committed later, in any order: two workers may   *)
(* take them up in either order and a refused commit is tried again.  The  *)
(* lease protocol of the operations is that of OperationLease and is left  *)
(* out.  The orchestrator is outside the repository; it is assumed to keep *)
(* the acceptance contract of docs/contracts/workload-mount-binding-v1.md: *)
(* it reports released or revoked only when it has unmounted for good.     *)
(***************************************************************************)
EXTENDS Integers, FiniteSets

CONSTANTS
    Mounts,             \* bindings of the repo, by mount_binding_id
    Reports,            \* the statuses the orchestrator reports
    MaxPending          \* bound on queued changes of bindings

ASSUME ReportsAssumption ==
    /\ Reports \subseteq {"pending", "active", "released", "revoked",
                         "expired", "failed"}
    /\ "released" \in Reports
ASSUME PendingAssumption == MaxPending \in Nat

VARIABLES
    binding,    \* the workload_mount_bindings rows
    pending,    \* queued mount operations
    orch,       \* what the orchestrator knows and has mounted
    gate,       \* the API takes mount requests: admission is enabled and no
                \* restore reconciliation blocks the repo
    usable,     \* repo, namespace, volume binding and volume are active
    user,       \* an operation that needs the repo to itself, and its fence
    readOnly,   \* the bindings asked for read-only
    creating,   \* create statements that have read the fences
    overtaken   \* bindings inserted by a statement a fence had overtaken

createVars == <<readOnly, creating, overtaken>>

vars == <<binding, pending, orch, gate, usable, user, createVars>>

TerminalStatus == {"released", "revoked", "expired", "failed"}
Issuable == {"issued", "pending", "active"}
MountStatus == {"absent", "releasing"} \cup Issuable \cup TerminalStatus

\* confirmed: confirmed_unmounted_at and unable_to_write_at, which the same
\* statement sets.
Binding == [status: MountStatus, lease: {"live", "lapsed"},
            confirmed: BOOLEAN]

MountOperation ==
    [mount: Mounts, type: {"create", "heartbeat", "release", "revoke"},
     status: {"none"}]
    \cup [mount: Mounts, type: {"status"}, status: Reports]

Kinds == {"restore", "lifecycle"}

TypeOK ==
    /\ binding \in [Mounts -> Binding]
    /\ pending \subseteq MountOperation
    /\ orch \in [Mounts -> [plan: BOOLEAN, mounted: BOOLEAN, done: BOOLEAN]]
    /\ gate \in {"open", "closed"}
    /\ usable \in BOOLEAN
    /\ user \in [kind: Kinds, pc: {"idle", "fenced", "working", "stuck"}]
    /\ {readOnly, creating, overtaken} \subseteq SUBSET Mounts

Init ==
    /\ binding = [m \in Mounts |-> [status |-> "absent", lease |-> "lapsed",
                                    confirmed |-> FALSE]]
    /\ pending = {}
    /\ orch = [m \in Mounts |-> [plan |-> FALSE, mounted |-> FALSE,
                                 done |-> FALSE]]
    /\ gate = "open"
    /\ usable = TRUE
    /\ user = [kind |-> "restore", pc |-> "idle"]
    /\ readOnly \in SUBSET Mounts
    /\ creating = {}
    /\ overtaken = {}

Operation(m, type) == [mount |-> m, type |-> type, status |-> "none"]
Report(m, status) == [mount |-> m, type |-> "status", status |-> status]

------------------------------------------------------------------------------
(* The fences.                                                              *)

Fenced(kind) == user.pc # "idle" /\ user.kind = kind

\* A lifecycle fence refuses every mount, a writer fence the read-write ones.
FenceAdmits(m) ==
    /\ ~Fenced("lifecycle")
    /\ Fenced("restore") => m \in readOnly

------------------------------------------------------------------------------
(* The HTTP handler: it reads, decides and queues.                          *)

\* An operation already queued under the same key is returned as it is.
Enqueue(o) ==
    /\ o.type # "create" =>
         Cardinality({p \in pending : p.type # "create"}) < MaxPending
    /\ pending' = pending \cup {o}

CreateAdmitted(m) == usable /\ FenceAdmits(m)

RequestCreate(m) ==
    /\ gate = "open"
    /\ binding[m].status = "absent" /\ Operation(m, "create") \notin pending
    /\ CreateAdmitted(m)
    /\ Enqueue(Operation(m, "create"))
    /\ UNCHANGED <<binding, orch, gate, usable, user, createVars>>

\* Heartbeat, release, revoke and status look at no fence and at no status,
\* although docs/contracts/workload-mount-binding-v1.md:111 says that all
\* status-changing calls must respect the lifecycle fence.
\* (A report of released or revoked is also refused while the payload cannot
\* be seen on its volume; the orchestrator repeats it, and the payload is
\* assumed to be visible in the end.)
MutationAdmitted(m) == gate = "open" /\ binding[m].status # "absent"

RequestMutation(m, o) ==
    /\ MutationAdmitted(m)
    /\ Enqueue(o)
    /\ UNCHANGED <<binding, orch, gate, usable, user, createVars>>

Release(m) == \E type \in {"release", "revoke"} :
                RequestMutation(m, Operation(m, type))

------------------------------------------------------------------------------
(* The executor and its commit statements.                                  *)

\* The create statement reads the fences from its snapshot and then waits for
\* the row locks it needs.
ReadFences(m) ==
    /\ Operation(m, "create") \in pending /\ m \notin creating
    /\ CreateAdmitted(m)
    /\ creating' = creating \cup {m}
    /\ UNCHANGED <<binding, pending, orch, gate, usable, user, readOnly,
                   overtaken>>

\* The row of a new binding; its lease starts with the commit.
Issued == [status |-> "issued", lease |-> "live", confirmed |-> FALSE]

\* The insert.  Repo and metadata are read under their locks, the fences are
\* not read again.  A refused statement is tried again for as long as it is
\* refused.
CommitCreate(m) ==
    /\ m \in creating
    /\ usable
    /\ binding' = [binding EXCEPT ![m] = Issued]
    /\ pending' = pending \ {Operation(m, "create")}
    /\ creating' = creating \ {m}
    /\ overtaken' = IF FenceAdmits(m) THEN overtaken ELSE overtaken \cup {m}
    /\ UNCHANGED <<orch, gate, usable, user, readOnly>>

CreateRefused(m) ==
    /\ m \in creating /\ ~usable
    /\ creating' = creating \ {m}
    /\ UNCHANGED <<binding, pending, orch, gate, usable, user, readOnly,
                   overtaken>>

\* Mutant: once released by the product, a binding takes no more reports.
StatusAppliesToIssued(b, status) == b.status \in Issuable

\* Ended is ended, and a release under way is not undone by an observation
\* made before it.
StatusApplies(b, status) ==
    /\ b.status \notin TerminalStatus
    /\ b.status = "releasing" => status \notin {"pending", "active"}

\* Mutant: every terminal status is taken as evidence.
ObservedTerminalIsEvidence(b, status, renews) ==
    IF StatusApplies(b, status)
    THEN [status |-> status, lease |-> IF renews THEN "live" ELSE b.lease,
          confirmed |-> b.confirmed \/ status \in TerminalStatus]
    ELSE b

\* What a status report leaves: only released and revoked are evidence.
Observed(b, status, renews) ==
    IF StatusApplies(b, status)
    THEN [status |-> status, lease |-> IF renews THEN "live" ELSE b.lease,
          confirmed |-> b.confirmed \/ status \in {"released", "revoked"}]
    ELSE b

\* renews: the report carries lease_expires_at.
CommitStatus(o) ==
    /\ o.type = "status"
    /\ \E renews \in BOOLEAN :
         binding' = [binding EXCEPT ![o.mount] = Observed(@, o.status, renews)]

\* Mutant: the lease of a binding that has ended is renewed, and the renewal
\* reopens it.
HeartbeatReopens(o) ==
    /\ o.type = "heartbeat"
    /\ binding' = [binding EXCEPT ![o.mount].lease = "live",
                                  ![o.mount].status = "active"]

CommitHeartbeat(o) ==
    /\ o.type = "heartbeat"
    /\ binding' = [binding EXCEPT ![o.mount].lease =
            IF binding[o.mount].status \in Issuable THEN "live" ELSE @]

\* What ended stays ended; the rest waits for the orchestrator to unmount.
Releasing(status) == IF status \in TerminalStatus THEN status ELSE "releasing"

CommitRelease(o) ==
    /\ o.type = "release"
    /\ binding' = [binding EXCEPT ![o.mount].status = Releasing(@)]

CommitRevoke(o) ==
    /\ o.type = "revoke"
    /\ binding' = [binding EXCEPT ![o.mount].status = Releasing(@)]

Commit(o) ==
    /\ o \in pending
    /\ CommitStatus(o) \/ CommitHeartbeat(o) \/ CommitRelease(o)
       \/ CommitRevoke(o)
    /\ pending' = pending \ {o}
    /\ UNCHANGED <<orch, gate, usable, user, createVars>>

------------------------------------------------------------------------------
(* The orchestrator and the plan it reads.                                  *)

\* BindingPlanFreshnessDecision, on the row the handler has read.
Freshness(b) ==
    CASE b.status \in Issuable /\ b.lease = "live" -> "issuance"
      [] b.status \in Issuable /\ b.lease = "lapsed" -> "stale"
      [] b.status = "releasing" -> "teardown"
      [] OTHER -> "none"

\* The issuance track of the plan statement; its plan is for mounting.
Issuance(m) == usable /\ ~Fenced("lifecycle")

\* A releasing binding has a plan too, for its teardown.
GetPlan(m) ==
    /\ gate = "open"
    /\ Freshness(binding[m]) = "issuance"
    /\ Issuance(m)
    /\ ~orch[m].plan /\ ~orch[m].done
    /\ orch' = [orch EXCEPT ![m].plan = TRUE]
    /\ UNCHANGED <<binding, pending, gate, usable, user, createVars>>

\* A plan once read is used at any later time.
Mount(m) ==
    /\ orch[m].plan /\ ~orch[m].mounted /\ ~orch[m].done
    /\ orch' = [orch EXCEPT ![m].mounted = TRUE]
    /\ UNCHANGED <<binding, pending, gate, usable, user, createVars>>

\* Unmounted for good; from here on released and revoked may be reported.
Unmount(m) ==
    /\ ~orch[m].done /\ binding[m].status \notin {"absent", "issued"}
    /\ orch' = [orch EXCEPT ![m] = [plan |-> FALSE, mounted |-> FALSE,
                                    done |-> TRUE]]
    /\ UNCHANGED <<binding, pending, gate, usable, user, createVars>>

Observe(m) ==
    \/ RequestMutation(m, Operation(m, "heartbeat"))
    \/ \E s \in Reports :
         /\ s \in {"released", "revoked"} => orch[m].done
         /\ RequestMutation(m, Report(m, s))

\* A report of a finished teardown, repeated until one is committed.
ReportReleased(m) ==
    /\ orch[m].done /\ binding[m].status = "releasing"
    /\ RequestMutation(m, Report(m, "released"))

------------------------------------------------------------------------------
(* The gates of restore and lifecycle operations.                           *)

\* Mutant: a lapsed lease is taken for the end of the mount.
MountBlockerLeaseOnly(kind, m) ==
    LET b == binding[m]
        harmless == \/ b.status = "absent"
                    \/ kind = "restore" /\ m \in readOnly
                    \/ b.status \in TerminalStatus /\ b.confirmed
    IN  IF harmless \/ b.lease # "live" THEN "none" ELSE "active"

MountBlocker(kind, m) ==
    LET b == binding[m]
        harmless == \/ b.status = "absent"
                    \/ kind = "restore" /\ m \in readOnly
                    \/ b.status \in TerminalStatus /\ b.confirmed
        live == b.status \notin TerminalStatus /\ b.lease = "live"
    IN  IF harmless THEN "none" ELSE IF live THEN "active" ELSE "stale"

Blockers(kind) == {MountBlocker(kind, m) : m \in Mounts}

\* The fence comes first.
TakeFence(kind) ==
    /\ user.pc = "idle" /\ usable
    /\ user' = [kind |-> kind, pc |-> "fenced"]
    /\ UNCHANGED <<binding, pending, orch, gate, usable, createVars>>

\* Active sessions are waited for, stale ones need an operator.
EvaluateGate ==
    /\ user.pc = "fenced"
    /\ \/ Blockers(user.kind) \subseteq {"none"}
          /\ user' = [user EXCEPT !.pc = "working"]
       \/ /\ "stale" \in Blockers(user.kind)
          /\ "active" \notin Blockers(user.kind)
          /\ user' = [user EXCEPT !.pc = "stuck"]
    /\ UNCHANGED <<binding, pending, orch, gate, usable, createVars>>

\* A lifecycle operation leaves a repo that admits no mount.
FinishUse ==
    /\ user.pc = "working"
    /\ user' = [user EXCEPT !.pc = "idle"]
    /\ usable' = (usable /\ user.kind = "restore")
    /\ UNCHANGED <<binding, pending, orch, gate, createVars>>

------------------------------------------------------------------------------
(* Time and operators.                                                      *)

LeaseLapses(m) ==
    /\ binding[m].status # "absent" /\ binding[m].lease = "live"
    /\ binding' = [binding EXCEPT ![m].lease = "lapsed"]
    /\ UNCHANGED <<pending, orch, gate, usable, user, createVars>>

CloseGate ==
    /\ gate = "open" /\ gate' = "closed"
    /\ UNCHANGED <<binding, pending, orch, usable, user, createVars>>

OpenGate ==
    /\ gate = "closed" /\ gate' = "open"
    /\ UNCHANGED <<binding, pending, orch, usable, user, createVars>>

DisableMetadata ==
    /\ usable /\ usable' = FALSE
    /\ UNCHANGED <<binding, pending, orch, gate, user, createVars>>

Next ==
    \/ \E m \in Mounts :
        \/ RequestCreate(m) \/ Release(m) \/ ReadFences(m) \/ CommitCreate(m)
        \/ CreateRefused(m)
        \/ GetPlan(m) \/ Mount(m) \/ Unmount(m) \/ Observe(m)
        \/ ReportReleased(m) \/ LeaseLapses(m)
    \/ \E o \in pending : Commit(o)
    \/ \E kind \in Kinds : TakeFence(kind)
    \/ EvaluateGate \/ FinishUse
    \/ CloseGate \/ OpenGate \/ DisableMetadata

\* Queued operations are taken up; the orchestrator tears down what is being
\* released and says so as often as the API lets it, which an operator opens
\* again.
Fairness ==
    /\ \A o \in MountOperation : WF_vars(Commit(o))
    /\ \A m \in Mounts :
         WF_vars(binding[m].status = "releasing" /\ Unmount(m))
         /\ SF_vars(ReportReleased(m))
    /\ SF_vars(OpenGate)

Spec == Init /\ [][Next]_vars /\ Fairness

------------------------------------------------------------------------------
(* Properties.                                                              *)

\* A restore rewrites, and a lifecycle operation withdraws, a repo that no
\* workload has mounted (for a restore: mounted for writing), whatever plan
\* the orchestrator still holds and however late its reports arrive.  The
\* exception is a binding whose create statement had read the fences before
\* this one was set (workload_mount_bindings.go:401).
NoMountDuringExclusiveUse ==
    user.pc = "working" =>
        \A m \in Mounts : orch[m].mounted =>
            \/ user.kind = "restore" /\ m \in readOnly
            \/ m \in overtaken

\* confirmed_unmounted_at is never written of a mount that still exists or
\* can come back.
EvidenceIsHonest ==
    \A m \in Mounts : binding[m].confirmed => orch[m].done

\* A binding being released comes to its end, also under the fence of an
\* operation that waits for it.  This rests on the code taking reports under
\* a lifecycle fence: were it to refuse them, as the contract has it
\* (workload-mount-binding-v1.md:111), an archive or delete would wait for a
\* release that can never be reported.
ReleaseCompletes ==
    \A m \in Mounts :
        binding[m].status = "releasing" ~> binding[m].status \in TerminalStatus

\* The bindings together behave as the session RepoLifecycle counts on: one
\* opens only by a create statement that began while the repo was usable and
\* free of a lifecycle fence, and only while the repo is still usable.
SessionOf ==
    IF "active" \in Blockers("lifecycle") THEN "active"
    ELSE IF "stale" \in Blockers("lifecycle") THEN "stale" ELSE "none"

Session == INSTANCE RepoSession WITH
    session <- SessionOf,
    creating <- creating # {},
    fenced <- Fenced("lifecycle")

ImplementsRepoSession == Session!Spec
==============================================================================

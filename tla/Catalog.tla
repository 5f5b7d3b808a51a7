-------------------------------- MODULE Catalog -------------------------------
(***************************************************************************)
(* The catalog of one namespace: its row, its volume binding, the volumes, *)
(* and the four operations that change them (internal/namespaceexec,       *)
(* internal/namespacebindingexec, internal/volumeexec and the statements   *)
(* of internal/store/postgres).  Every operation commits its row, its own  *)
(* end and its audit event by one statement, under the worker's lease.     *)
(*                                                                         *)
(* RepoProvision adds the operations that create repos and templates.      *)
(***************************************************************************)
EXTENDS Integers

CONSTANTS
    Ops,            \* operations, by operation_id
    Workers,        \* lease owners
    NoOwner, NoOp,  \* null values
    Volumes,        \* volume_id
    Ids,            \* repo_id and template_id, which share one table
    NoId,           \* no repo
    Requests,       \* the requests clients make
    NoRequest,      \* the request of an operation not yet made
    MaxFaults       \* bound on workers that stop in mid-operation, leases
                    \* that expire under one and reads that fail, together

ASSUME NullAssumption == /\ NoOwner \notin Workers /\ NoOp \notin Ops
                         /\ NoId \notin Ids /\ NoRequest \notin Requests
                         /\ Ops \cap {"none", "seed"} = {}
ASSUME VolumeAssumption == Volumes # {}
ASSUME FaultAssumption == MaxFaults \in Nat

VARIABLES
    namespace,      \* the namespaces row
    binding,        \* the namespace_volume_bindings row
    volume,         \* the volumes rows
    session,        \* the writer sessions of the namespace's source repo
    op,             \* operation rows
    audited,        \* operations with an event in the audit outbox
    worker,         \* the memory of each worker
    faults          \* stops, stalls and failed reads so far

rows == <<namespace, binding, volume, session>>
catalogVars == <<rows, op, audited, worker, faults>>

CatalogTypes == {"volume_ensure", "namespace_upsert", "namespace_disable",
                 "namespace_volume_binding_put"}
Types == CatalogTypes \cup {"repo_create", "template_create",
                            "template_clone"}

\* "plain" is an active volume without the external control root of JVS;
\* "disabled" is any volume that is not active.
VolumeStatuses == {"active", "plain", "disabled"}

\* `volume' and `status' are those of an ensured volume or of a binding; a
\* template is made from a repo, and a repo from a template or from nothing.
Request == [type: Types, volume: Volumes,
            status: VolumeStatuses, source: Ids \cup {NoId},
            target: Ids \cup {NoId}]

ASSUME RequestAssumption == Requests \subseteq Request

\* What every handler has checked of the form of a request: a repo or template
\* that is made has an id, so has the template or repo it is made from, and a
\* binding is active or disabled.
ASSUME FormAssumption ==
    \A r \in Requests :
        /\ r.type \notin CatalogTypes => r.target \in Ids
        /\ r.type \in {"template_create", "template_clone"} => r.source \in Ids
        /\ r.type = "namespace_volume_binding_put" =>
              r.status \in {"active", "disabled"}

Terminal == {"succeeded", "failed"}
Settled == Terminal \cup {"operator_intervention_required"}

OperationRecord ==
    [req: Requests \cup {NoRequest},
     state: {"absent", "queued", "running"} \cup Settled,
     lease: {"none", "live", "expired"},
     owner: Workers \cup {NoOwner},
     stalled: BOOLEAN]      \* its lease has run out under a worker of its

Steps == {"idle", "depend", "fences", "metadata", "acquire", "storage",
          "source", "mark", "sessions", "save", "template", "clone",
          "succeed", "fail", "intervene"}

\* `jvs' names a directory by the operation that made it; it is "none" until
\* the worker has made or found one.
WorkerRecord ==
    [pc: Steps, op: Ops \cup {NoOp},
     held: {"none", "own", "other"},        \* the fences it has read
     volume: Volumes,                       \* the default volume it has read
     jvs: Ops \cup {"none", "seed"}]

IdleWorker == [pc |-> "idle", op |-> NoOp, held |-> "none",
               volume |-> CHOOSE v \in Volumes : TRUE, jvs |-> "none"]

CatalogTypeOK ==
    /\ namespace \in {"absent", "active", "disabled"}
    /\ binding \in [volume: Volumes, status: {"absent", "active", "disabled"}]
    /\ volume \in [Volumes -> {"absent"} \cup VolumeStatuses]
    /\ session \in {"none", "active", "ending"}
    /\ op \in [Ops -> OperationRecord]
    /\ audited \subseteq Ops
    /\ worker \in [Workers -> WorkerRecord]
    /\ faults \in 0..MaxFaults

NoOperation == [req |-> NoRequest, state |-> "absent", lease |-> "none",
                owner |-> NoOwner, stalled |-> FALSE]

------------------------------------------------------------------------------
(* Intake and leases.                                                       *)

\* The insert of a queued operation.
Insert(o, r) ==
    /\ op[o].state = "absent"
    /\ op' = [op EXCEPT ![o].req = r, ![o].state = "queued"]
    /\ UNCHANGED <<rows, audited, worker, faults>>

\* The four handlers of the catalog check the form of what they are asked and
\* look at no row: whether it can be done is judged by the executor.
RequestVolumeEnsure(o, r) == r.type = "volume_ensure" /\ Insert(o, r)
RequestNamespaceUpsert(o, r) == r.type = "namespace_upsert" /\ Insert(o, r)
RequestNamespaceDisable(o, r) == r.type = "namespace_disable" /\ Insert(o, r)
RequestBindingPut(o, r) ==
    r.type = "namespace_volume_binding_put" /\ Insert(o, r)

RequestCatalog(o, r) ==
    \/ RequestVolumeEnsure(o, r) \/ RequestNamespaceUpsert(o, r)
    \/ RequestNamespaceDisable(o, r) \/ RequestBindingPut(o, r)

AtStep(w, pc) == worker[w].pc = pc
Goto(w, pc) == worker' = [worker EXCEPT ![w].pc = pc]
Leave(w) == worker' = [worker EXCEPT ![w] = IdleWorker]
Req(w) == op[worker[w].op].req

\* Where the executor of an operation type begins.
FirstStep(t) ==
    CASE t = "namespace_volume_binding_put" -> "depend"
      [] t = "repo_create" -> "fences"
      [] t = "template_create" -> "source"
      [] t = "template_clone" -> "template"
      [] OTHER -> "succeed"

Acquirable(o) == \/ op[o].state = "queued"
                 \/ op[o].state = "running" /\ op[o].lease = "expired"

AcquireLease(w, o) ==
    /\ AtStep(w, "idle")
    /\ Acquirable(o)
    /\ op' = [op EXCEPT ![o].state = "running", ![o].lease = "live",
                        ![o].owner = w]
    /\ worker' = [worker EXCEPT ![w] =
                    [IdleWorker EXCEPT !.op = o,
                                       !.pc = FirstStep(op[o].req.type)]]
    /\ UNCHANGED <<rows, audited, faults>>

Owns(w) == LET r == op[worker[w].op]
           IN r.state = "running" /\ r.owner = w /\ r.lease = "live"

Ended(o, state) == [op EXCEPT ![o].state = state, ![o].lease = "none",
                              ![o].owner = NoOwner]

\* The end of an operation, with its event, in one statement.
End(w, state) ==
    /\ Owns(w)
    /\ op' = Ended(worker[w].op, state)
    /\ audited' = audited \cup {worker[w].op}
    /\ Leave(w)

------------------------------------------------------------------------------
(* The executors.                                                           *)

\* The volumes row is written as asked, whatever it was.
CommitVolumeEnsure(w) ==
    /\ AtStep(w, "succeed") /\ Req(w).type = "volume_ensure"
    /\ End(w, "succeeded")
    /\ volume' = [volume EXCEPT ![Req(w).volume] = Req(w).status]
    /\ UNCHANGED <<namespace, binding, session, faults>>

\* ON CONFLICT keeps the status of a disabled namespace.
CommitNamespaceUpsert(w) ==
    /\ AtStep(w, "succeed") /\ Req(w).type = "namespace_upsert"
    /\ End(w, "succeeded")
    /\ namespace' = IF namespace = "disabled" THEN namespace ELSE "active"
    /\ UNCHANGED <<binding, volume, session, faults>>

\* The disable moves the active exports and mounts towards their end, but for
\* one inserted after its snapshot, while it waits for the namespaces row.  The
\* operation is updated first and on its own conditions: when the namespace is
\* not active it succeeds all the same, without an event, and the executor is
\* told that it has lost its lease.
CommitNamespaceDisable(w) ==
    LET o == worker[w].op
        disables == namespace = "active"
    IN  /\ AtStep(w, "succeed") /\ Req(w).type = "namespace_disable"
        /\ Owns(w)
        /\ op' = Ended(o, "succeeded")
        /\ Leave(w)
        /\ namespace' = IF disables THEN "disabled" ELSE namespace
        /\ session' \in IF disables /\ session = "active"
                        THEN {"ending", "active"} ELSE {session}
        /\ audited' = IF disables THEN audited \cup {o} ELSE audited
        /\ UNCHANGED <<binding, volume, faults>>

VolumeInUse(v) == volume[v] \in {"active", "plain"}
BindingDependencies(v) == namespace = "active" /\ VolumeInUse(v)

\* activeDependencyFailure reads the namespace and then the volume; a change
\* between the two reads is met again by the commit.
ReadDependencies(w) ==
    /\ AtStep(w, "depend")
    /\ Goto(w, IF BindingDependencies(Req(w).volume) THEN "succeed"
                                                     ELSE "fail")
    /\ UNCHANGED <<rows, op, audited, faults>>

CommitBindingPut(w) ==
    /\ AtStep(w, "succeed") /\ Req(w).type = "namespace_volume_binding_put"
    /\ BindingDependencies(Req(w).volume)
    /\ End(w, "succeeded")
    /\ binding' = [volume |-> Req(w).volume, status |-> Req(w).status]
    /\ UNCHANGED <<namespace, volume, session, faults>>

CommitBindingFailed(w) ==
    /\ AtStep(w, "fail") /\ Req(w).type = "namespace_volume_binding_put"
    /\ End(w, "failed")
    /\ UNCHANGED <<rows, faults>>

\* A statement that finds no lease changes nothing; the operation waits for
\* its lease to run out.
CatalogRefused(w, types) ==
    /\ Req(w).type \in types
    /\ AtStep(w, "succeed") /\ ~Owns(w)
    /\ Leave(w)
    /\ UNCHANGED <<rows, op, audited, faults>>

\* So does a put whose namespace or volume is no longer active.
BindingRefused(w) ==
    /\ Req(w).type = "namespace_volume_binding_put"
    /\ \/ AtStep(w, "succeed")
          /\ ~(Owns(w) /\ BindingDependencies(Req(w).volume))
       \/ AtStep(w, "fail") /\ ~Owns(w)
    /\ Leave(w)
    /\ UNCHANGED <<rows, op, audited, faults>>

VolumeExecutor(w) ==
    CommitVolumeEnsure(w) \/ CatalogRefused(w, {"volume_ensure"})
NamespaceExecutor(w) ==
    \/ CommitNamespaceUpsert(w) \/ CommitNamespaceDisable(w)
    \/ CatalogRefused(w, {"namespace_upsert", "namespace_disable"})
BindingExecutor(w) == \/ ReadDependencies(w) \/ CommitBindingPut(w)
                      \/ CommitBindingFailed(w) \/ BindingRefused(w)

CatalogExecutor(w) ==
    /\ worker[w].op # NoOp
    /\ VolumeExecutor(w) \/ NamespaceExecutor(w) \/ BindingExecutor(w)

------------------------------------------------------------------------------
(* Failures.                                                                *)

Works(o) == \E w \in Workers : worker[w].op = o /\ op[o].owner = w

\* The lease of an operation nobody works on runs out.
Expire(o) ==
    /\ op[o].lease = "live" /\ ~Works(o)
    /\ op' = [op EXCEPT ![o].lease = "expired"]
    /\ UNCHANGED <<rows, audited, worker, faults>>

Stall(o) ==
    /\ op[o].lease = "live" /\ Works(o)
    /\ faults < MaxFaults
    /\ op' = [op EXCEPT ![o].lease = "expired", ![o].stalled = TRUE]
    /\ faults' = faults + 1
    /\ UNCHANGED <<rows, audited, worker>>

Stop(w) ==
    /\ ~AtStep(w, "idle")
    /\ faults < MaxFaults
    /\ Leave(w)
    /\ faults' = faults + 1
    /\ UNCHANGED <<rows, op, audited>>

SessionEnds ==
    /\ session # "none" /\ session' = "none"
    /\ UNCHANGED <<namespace, binding, volume, op, audited, worker, faults>>
==============================================================================

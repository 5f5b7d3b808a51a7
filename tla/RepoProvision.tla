----------------------------- MODULE RepoProvision ----------------------------
(***************************************************************************)
(* Creation of repos and templates beside the operations of the catalog:   *)
(* repo_create (internal/repoexec/executor.go), template_create and        *)
(* template_clone (internal/repoexec/template_executor.go), their intake   *)
(* and their statements.                                                   *)
(*                                                                         *)
(* A directory is made by JVS, outside the database, and the row that      *)
(* names it is inserted by a later statement, which looks at the lease,    *)
(* the catalog and the fence again.  repo_create works under a lifecycle   *)
(* fence on its target, which exists before the repo does; template_create *)
(* works under a writer fence on its source; template_clone takes none.    *)
(* The save point that template_create adds to its source is read by       *)
(* nothing here and is left out, its failure is not.                       *)
(***************************************************************************)
EXTENDS Catalog

CONSTANTS
    SourceRepo, SourceTemplate      \* the repo and the template at hand

ASSUME SeedAssumption == /\ {SourceRepo, SourceTemplate} \subseteq Ids
                         /\ SourceRepo # SourceTemplate

VARIABLES
    row,        \* the repos rows, repos and templates
    dir,        \* what is in each directory: the operation that made it
    fence,      \* holder of the held lifecycle fence of a repo, or NoOp
    fences,     \* operations whose fence row exists, held or released
    wfence,     \* holder of the held writer fence of a repo, or NoOp
    marked      \* template_create operations in phase writer_fenced

repoVars == <<row, dir, fence, fences, wfence, marked>>
vars == <<catalogVars, repoVars>>

Makers == Ops \cup {"none", "seed"}
Row == [kind: {"none", "repo", "template"}, volume: Volumes, jvs: Makers]

TypeOK ==
    /\ CatalogTypeOK
    /\ row \in [Ids -> Row]
    /\ dir \in [Ids -> [Volumes -> Makers]]
    /\ fence \in [Ids -> Ops \cup {NoOp}]
    /\ fences \subseteq Ops
    /\ wfence \in [Ids -> Ops \cup {NoOp}]
    /\ marked \subseteq Ops

Home == CHOOSE v \in Volumes : TRUE
Seeds == {SourceRepo, SourceTemplate}
NoRow == [kind |-> "none", volume |-> Home, jvs |-> "none"]
SeedRow(kind) == [kind |-> kind, volume |-> Home, jvs |-> "seed"]

\* Nothing yet, or a namespace in use with a repo and a template on its
\* default volume.
Init ==
    /\ \E fresh \in BOOLEAN :
         LET seeded == IF fresh THEN {} ELSE Seeds
         IN  /\ namespace = IF fresh THEN "absent" ELSE "active"
             /\ binding = [volume |-> Home,
                           status |-> IF fresh THEN "absent" ELSE "active"]
             /\ volume = [v \in Volumes |-> IF fresh THEN "absent"
                                                     ELSE "active"]
             /\ row = [i \in Ids |->
                         IF i \notin seeded THEN NoRow
                         ELSE SeedRow(IF i = SourceRepo THEN "repo"
                                                        ELSE "template")]
             /\ dir = [i \in Ids |-> [v \in Volumes |->
                         IF i \in seeded /\ v = Home THEN "seed" ELSE "none"]]
    /\ session = "none"
    /\ op = [o \in Ops |-> NoOperation]
    /\ audited = {}
    /\ worker = [w \in Workers |-> IdleWorker]
    /\ faults = 0
    /\ fence = [i \in Ids |-> NoOp]
    /\ fences = {}
    /\ wfence = [i \in Ids |-> NoOp]
    /\ marked = {}

Exists(i) == row[i].kind # "none"

------------------------------------------------------------------------------
(* Intake.                                                                  *)

\* The repo an operation mutates, for the index that admits one at a time;
\* repo_create is not among the types of the index.
MutatedRepo(r) ==
    CASE r.type = "template_create" -> r.source
      [] r.type = "template_clone" -> r.target
      [] OTHER -> NoId

JVSMutationInProgress(i) ==
    \E o \in Ops : /\ op[o].state \notin {"absent"} \cup Terminal
                   /\ MutatedRepo(op[o].req) = i

NamespaceInUse == namespace = "active" /\ binding.status = "active"

\* The insert of a repo_create looks for the row of its target.
RequestRepoCreate(o, r) ==
    /\ r.type = "repo_create"
    /\ ~Exists(r.target)
    /\ Insert(o, r)
    /\ UNCHANGED repoVars

\* The handler reads the source, decides and inserts.
RequestTemplateCreate(o, r) ==
    /\ r.type = "template_create"
    /\ row[r.source].kind = "repo" /\ NamespaceInUse
    /\ row[r.source].volume = binding.volume
    /\ fence[r.source] = NoOp /\ wfence[r.source] = NoOp
    /\ ~JVSMutationInProgress(r.source)
    /\ Insert(o, r)
    /\ UNCHANGED repoVars

RequestTemplateClone(o, r) ==
    /\ r.type = "template_clone"
    /\ row[r.source].kind = "template" /\ NamespaceInUse
    /\ row[r.source].volume = binding.volume
    /\ ~Exists(r.target)
    /\ ~JVSMutationInProgress(r.target)
    /\ Insert(o, r)
    /\ UNCHANGED repoVars

------------------------------------------------------------------------------
(* repo_create.                                                             *)

ListHeldFences(w) ==
    LET holder == fence[Req(w).target]
    IN  /\ AtStep(w, "fences")
        /\ worker' = [worker EXCEPT
                ![w].pc = "metadata",
                ![w].held = CASE holder = NoOp -> "none"
                              [] holder = worker[w].op -> "own"
                              [] OTHER -> "other"]
        /\ UNCHANGED <<rows, op, audited, faults, repoVars>>

VolumeUsable == NamespaceInUse /\ volume[binding.volume] = "active"

\* Mutant: a validation failure ends the operation, whatever it has begun.
LoadMetadataFailsAll(w) ==
    /\ AtStep(w, "metadata")
    /\ IF VolumeUsable
       THEN worker' = [worker EXCEPT ![w].pc = "acquire",
                                     ![w].volume = binding.volume]
       ELSE Goto(w, "fail")
    /\ UNCHANGED <<rows, op, audited, faults, repoVars>>

\* Namespace, binding, volume and the root this worker has configured for the
\* volume.  What is not in use, and a root that is missing or invalid, ends the
\* operation, or calls the operator once it holds its fence and may have made a
\* directory.
LoadMetadata(w) ==
    /\ AtStep(w, "metadata")
    /\ \/ /\ VolumeUsable
          /\ worker' = [worker EXCEPT ![w].pc = "acquire",
                                      ![w].volume = binding.volume]
       \/ Goto(w, IF worker[w].held = "own" THEN "intervene" ELSE "fail")
    /\ UNCHANGED <<rows, op, audited, faults, repoVars>>

\* The row of a pending update: still running and owned, the lease over.
Pending(r) == [r EXCEPT !.lease = "expired"]

\* A read that fails leaves the operation running, to be taken up at once.
MetadataReadPending(w) ==
    /\ AtStep(w, "metadata")
    /\ faults < MaxFaults
    /\ faults' = faults + 1
    /\ op' = IF Owns(w) THEN [op EXCEPT ![worker[w].op] = Pending(@)] ELSE op
    /\ Leave(w)
    /\ UNCHANGED <<rows, audited, repoVars>>

FenceRowConflicts(o, i) == fence[i] # NoOp \/ o \in fences

\* The fences read before decide.  The insert checks no lease; the index on
\* held fences and the primary key turn it away.
AcquireFence(w) ==
    LET o == worker[w].op
        i == Req(w).target
        held == worker[w].held
    IN  /\ AtStep(w, "acquire")
        /\ \/ held = "own" /\ Goto(w, "storage") /\ UNCHANGED <<fence, fences>>
           \/ held = "other" /\ Goto(w, "fail") /\ UNCHANGED <<fence, fences>>
           \/ /\ held = "none" /\ ~FenceRowConflicts(o, i)
              /\ fence' = [fence EXCEPT ![i] = o]
              /\ fences' = fences \cup {o}
              /\ Goto(w, "storage")
           \/ /\ held = "none" /\ FenceRowConflicts(o, i)
              /\ Leave(w) /\ UNCHANGED <<fence, fences>>
        /\ UNCHANGED <<rows, op, audited, faults, row, dir, wfence, marked>>

\* JVS makes a directory only where there is none.
MakeDirectory(w, i) ==
    LET v == worker[w].volume
    IN  /\ dir[i][v] = "none"
        /\ dir' = [dir EXCEPT ![i][v] = worker[w].op]

FoundDirectory(w, i) ==
    /\ dir[i][worker[w].volume] # "none"
    /\ worker' = [worker EXCEPT ![w].pc = "succeed",
                                ![w].jvs = dir[i][worker[w].volume]]

\* Mutant: the directory is believed to be there and to be its own.
CreateStorageTrusts(w) ==
    LET i == Req(w).target
    IN  /\ AtStep(w, "storage")
        /\ \/ MakeDirectory(w, i)
           \/ worker[w].held = "own" /\ UNCHANGED dir
        /\ worker' = [worker EXCEPT ![w].pc = "succeed",
                                    ![w].jvs = worker[w].op]
        /\ UNCHANGED <<rows, op, audited, faults, row, fence, fences, wfence,
                       marked>>

\* A worker that found its own fence adopts what the JVS doctor finds, any
\* other initialises the directory and asks the doctor.  What fails, before
\* or after the directory is made, calls the operator.
CreateStorage(w) ==
    LET i == Req(w).target
        adopts == worker[w].held = "own"
    IN  /\ AtStep(w, "storage")
        /\ \/ adopts /\ FoundDirectory(w, i) /\ UNCHANGED dir
           \/ /\ ~adopts /\ MakeDirectory(w, i)
              /\ \/ worker' = [worker EXCEPT ![w].pc = "succeed",
                                             ![w].jvs = worker[w].op]
                 \/ Goto(w, "intervene")
           \/ Goto(w, "intervene") /\ UNCHANGED dir
        /\ UNCHANGED <<rows, op, audited, faults, row, fence, fences, wfence,
                       marked>>

------------------------------------------------------------------------------
(* template_create and template_clone.                                      *)

\* validateSourceRepo: the source, its namespace, binding, volume and the
\* fences of others.
SourceValid(w) ==
    LET s == Req(w).source
    IN  /\ row[s].kind = "repo" /\ VolumeUsable
        /\ row[s].volume = binding.volume
        /\ fence[s] = NoOp /\ wfence[s] \in {NoOp, worker[w].op}

\* session_fence_id: set in phase writer_fenced; a success needs it.
NamesFence(w) == worker[w].op \in marked

\* An operation already in phase writer_fenced is not marked again.  A source
\* that is not valid, a read that fails and a volume root that is missing or
\* invalid end the operation.
ValidateSource(w) ==
    /\ AtStep(w, "source")
    /\ \/ /\ SourceValid(w)
          /\ worker' = [worker EXCEPT
                  ![w].pc = IF NamesFence(w) THEN "sessions" ELSE "mark",
                  ![w].volume = binding.volume]
       \/ Goto(w, "fail")
    /\ UNCHANGED <<rows, op, audited, faults, repoVars>>

\* The writer fence and the phase, in one statement under the lease.
MarkAllowed(w) ==
    LET s == Req(w).source
    IN Owns(w) /\ fence[s] = NoOp /\ wfence[s] \in {NoOp, worker[w].op}

MarkWriterFenced(w) ==
    LET o == worker[w].op
    IN  /\ AtStep(w, "mark") /\ MarkAllowed(w)
        /\ wfence' = [wfence EXCEPT ![Req(w).source] = o]
        /\ fences' = fences \cup {o}
        /\ marked' = marked \cup {o}
        /\ Goto(w, "sessions")
        /\ UNCHANGED <<rows, op, audited, faults, row, dir, fence>>

\* A writer session, or a list that cannot be read, ends the operation.
CheckWriterSessions(w) ==
    /\ AtStep(w, "sessions")
    /\ \/ session = "none" /\ Goto(w, "save")
       \/ Goto(w, "fail")
    /\ UNCHANGED <<rows, op, audited, faults, repoVars>>

\* The parents of the target and the save point of the source: a target that
\* cannot be prepared and a source with a pending recovery end the operation,
\* any other failure calls the operator.
SaveSource(w) ==
    /\ AtStep(w, "save")
    /\ Goto(w, "clone") \/ Goto(w, "fail") \/ Goto(w, "intervene")
    /\ UNCHANGED <<rows, op, audited, faults, repoVars>>

\* validateTemplateSource reads the namespace and not its status.
TemplateValid(w) ==
    /\ row[Req(w).source].kind = "template"
    /\ namespace # "absent" /\ binding.status = "active"
    /\ volume[binding.volume] = "active"
    /\ row[Req(w).source].volume = binding.volume

ValidateTemplate(w) ==
    /\ AtStep(w, "template")
    /\ \/ /\ TemplateValid(w)
          /\ worker' = [worker EXCEPT ![w].pc = "clone",
                                      ![w].volume = binding.volume]
       \/ Goto(w, "fail")       \* invalid, or PrepareParents failed
    /\ UNCHANGED <<rows, op, audited, faults, repoVars>>

\* DirectClone, and the identities it reports.
Clone(w) ==
    /\ AtStep(w, "clone")
    /\ \/ /\ MakeDirectory(w, Req(w).target)
          /\ \/ worker' = [worker EXCEPT ![w].pc = "succeed",
                                         ![w].jvs = worker[w].op]
             \/ Goto(w, "intervene")
       \/ Goto(w, "intervene") /\ UNCHANGED dir
    /\ UNCHANGED <<rows, op, audited, faults, row, fence, fences, wfence,
                   marked>>

------------------------------------------------------------------------------
(* The commits.                                                             *)

\* What the three success statements look at besides the lease and the fence.
PrerequisitesHold(w) == /\ VolumeUsable /\ worker[w].volume = binding.volume
                        /\ ~Exists(Req(w).target)

\* What the store checks of a repo_create record: a success stores the repo
\* JVS reported.
ValidRepoCreate(w, state) ==
    /\ Req(w).type = "repo_create" /\ state \in Settled
    /\ state = "succeeded" => worker[w].jvs # "none"

HoldsLifecycleFence(w) == fence[Req(w).target] = worker[w].op
HoldsWriterFence(w) == NamesFence(w) /\ wfence[Req(w).source] = worker[w].op

CommitAllowed(w) ==
    /\ PrerequisitesHold(w)
    /\ Req(w).type = "repo_create" => HoldsLifecycleFence(w)
    /\ Req(w).type = "template_create" => HoldsWriterFence(w)

InsertRow(w, kind) ==
    /\ AtStep(w, "succeed")
    /\ CommitAllowed(w)
    /\ End(w, "succeeded")
    /\ row' = [row EXCEPT ![Req(w).target] =
                 [kind |-> kind, volume |-> worker[w].volume,
                  jvs |-> worker[w].jvs]]
    /\ UNCHANGED <<rows, faults, dir, fences, marked>>

ReleaseWriterFence(w) == wfence' = [wfence EXCEPT ![Req(w).source] = NoOp]

CommitRepoCreateSucceeded(w) ==
    /\ ValidRepoCreate(w, "succeeded")
    /\ InsertRow(w, "repo")
    /\ fence' = [fence EXCEPT ![Req(w).target] = NoOp]
    /\ UNCHANGED wfence

CommitTemplateCreateSucceeded(w) ==
    /\ InsertRow(w, "template")
    /\ ReleaseWriterFence(w)
    /\ UNCHANGED fence

CommitTemplateCloneSucceeded(w) ==
    /\ InsertRow(w, "repo")
    /\ UNCHANGED <<fence, wfence>>

\* The failure statement of repo_create.  The executor names no fence for it
\* to release, whichever of the two ends it asks for.
EndRepoCreate(w, state) ==
    /\ ValidRepoCreate(w, state)
    /\ End(w, state)
    /\ UNCHANGED <<rows, faults, repoVars>>

CommitRepoCreateFailed(w) == AtStep(w, "fail") /\ EndRepoCreate(w, "failed")

CommitRepoCreateIntervention(w) ==
    /\ AtStep(w, "intervene")
    /\ EndRepoCreate(w, "operator_intervention_required")

\* A marked template_create releases the writer fence of its phase.
FailAllowed(w) == NamesFence(w) => HoldsWriterFence(w)

\* Mutant: the failure statement releases no writer fence.
CommitTemplateCreateFailedKeepsFence(w) ==
    /\ AtStep(w, "fail")
    /\ End(w, "failed")
    /\ UNCHANGED <<rows, faults, repoVars>>

CommitTemplateCreateFailed(w) ==
    /\ AtStep(w, "fail")
    /\ FailAllowed(w)
    /\ End(w, "failed")
    /\ \/ NamesFence(w) /\ ReleaseWriterFence(w)
       \/ ~NamesFence(w) /\ UNCHANGED wfence
    /\ UNCHANGED <<rows, faults, row, dir, fence, fences, marked>>

\* A clone has no fence to give up.
CommitTemplateCloneFailed(w) ==
    /\ AtStep(w, "fail")
    /\ End(w, "failed")
    /\ UNCHANGED <<rows, faults, repoVars>>

\* An intervention keeps every fence.
CommitTemplateIntervention(w) ==
    /\ AtStep(w, "intervene")
    /\ End(w, "operator_intervention_required")
    /\ UNCHANGED <<rows, faults, repoVars>>

\* Mutant: the executor tries again at once.
RepoCreateRefusedRetries(w) ==
    /\ AtStep(w, "succeed")
    /\ ~(Owns(w) /\ CommitAllowed(w))
    /\ UNCHANGED vars

\* A refused statement changes nothing; the operation is taken up again when
\* its lease has run out.
RepoCreateRefused(w) ==
    /\ \/ AtStep(w, "succeed") /\ ~(Owns(w) /\ CommitAllowed(w))
       \/ AtStep(w, "fail") /\ ~Owns(w)
       \/ AtStep(w, "intervene") /\ ~Owns(w)
    /\ Leave(w)
    /\ UNCHANGED <<rows, op, audited, faults, repoVars>>

TemplateRefused(w) ==
    /\ \/ AtStep(w, "succeed") /\ ~(Owns(w) /\ CommitAllowed(w))
       \/ AtStep(w, "fail") /\ ~(Owns(w) /\ FailAllowed(w))
       \/ AtStep(w, "intervene") /\ ~Owns(w)
    /\ Leave(w)
    /\ UNCHANGED <<rows, op, audited, faults, repoVars>>

MarkRefused(w) ==
    /\ AtStep(w, "mark") /\ ~MarkAllowed(w)
    /\ Leave(w)
    /\ UNCHANGED <<rows, op, audited, faults, repoVars>>

------------------------------------------------------------------------------
(* The whole.                                                               *)

\* A writer session of the source: its create statement reads the repo, the
\* namespace and the held fences.
OpenSession ==
    /\ session = "none" /\ NamespaceInUse /\ Exists(SourceRepo)
    /\ fence[SourceRepo] = NoOp /\ wfence[SourceRepo] = NoOp
    /\ session' = "active"
    /\ UNCHANGED <<namespace, binding, volume, op, audited, worker, faults,
                   repoVars>>

RepoCreateExecutor(w) ==
    \/ ListHeldFences(w) \/ LoadMetadata(w) \/ AcquireFence(w)
    \/ CreateStorage(w) \/ RepoCreateRefused(w)
    \/ CommitRepoCreateSucceeded(w) \/ CommitRepoCreateFailed(w)
    \/ CommitRepoCreateIntervention(w)

TemplateCreateExecutor(w) ==
    \/ ValidateSource(w) \/ MarkWriterFenced(w) \/ CheckWriterSessions(w)
    \/ MarkRefused(w) \/ SaveSource(w) \/ Clone(w)
    \/ CommitTemplateCreateSucceeded(w) \/ CommitTemplateCreateFailed(w)
    \/ CommitTemplateIntervention(w) \/ TemplateRefused(w)

TemplateCloneExecutor(w) ==
    \/ ValidateTemplate(w) \/ Clone(w) \/ CommitTemplateCloneSucceeded(w)
    \/ CommitTemplateCloneFailed(w) \/ CommitTemplateIntervention(w)
    \/ TemplateRefused(w)

RepoExecutor(w) ==
    /\ worker[w].op # NoOp
    /\ \/ Req(w).type = "repo_create" /\ RepoCreateExecutor(w)
       \/ Req(w).type = "template_create" /\ TemplateCreateExecutor(w)
       \/ Req(w).type = "template_clone" /\ TemplateCloneExecutor(w)

Executor(w) ==
    \/ RepoExecutor(w)
    \/ /\ CatalogExecutor(w) \/ \E o \in Ops : AcquireLease(w, o)
       /\ UNCHANGED repoVars

IntakeStep(o) ==
    \E r \in Requests :
        \/ RequestCatalog(o, r) /\ UNCHANGED repoVars
        \/ RequestRepoCreate(o, r) \/ RequestTemplateCreate(o, r)
        \/ RequestTemplateClone(o, r)

Next ==
    \/ \E o \in Ops : IntakeStep(o)
    \/ \E o \in Ops : (Expire(o) \/ Stall(o)) /\ UNCHANGED repoVars
    \/ \E w \in Workers : \/ Executor(w) \/ MetadataReadPending(w)
                          \/ Stop(w) /\ UNCHANGED repoVars
    \/ OpenSession
    \/ SessionEnds /\ UNCHANGED repoVars

\* Workers go on and an abandoned lease runs out.
Fairness ==
    /\ \A w \in Workers : WF_vars(Executor(w))
    /\ \A o \in Ops : WF_vars(Expire(o) /\ UNCHANGED repoVars)

Spec == Init /\ [][Next]_vars /\ Fairness

------------------------------------------------------------------------------
(* Properties.                                                              *)

\* A row names the JVS repo that is in its directory, on its volume, whoever
\* made it: also when a worker takes up what another began, when the default
\* volume changed in between, and when a clone and a create meet.
RowMatchesStorage ==
    \A i \in Ids : Exists(i) => dir[i][row[i].volume] = row[i].jvs

\* An operation that is over holds no fence, wherever its workers have stopped
\* and whichever reads have failed: it keeps one only when its own lease ran
\* out under a worker (executor.go inserts the fence without a lease check).
EndedFreesFences ==
    \A o \in Ops, i \in Ids :
        op[o].state \in Terminal /\ o \in {fence[i], wfence[i]}
            => op[o].stalled

\* What a repo_create left on a volume and no row names is not forgotten: the
\* operation still runs or has called the operator, unless its own lease ran
\* out under a worker, or the default volume changed and the operation went on
\* with a directory it found on the new one (executor.go adopts whatever is
\* healthy there).
OrphanHasOwner ==
    \A i \in Ids, v \in Volumes :
        LET o == dir[i][v]
        IN  /\ o \in Ops
            /\ op[o].req.type = "repo_create"
            /\ row[i].jvs # o
            => \/ op[o].state \in {"running", "operator_intervention_required"}
               \/ op[o].state = "succeeded" /\ Exists(i) /\ row[i].volume # v
               \/ op[o].stalled

\* Every operation is over in the end or waits for an operator, also when the
\* namespace is disabled under it.  The exception is a repo_create whose
\* target a clone has filled while it was waiting to be taken up again: its
\* commit is refused each time.
Settles ==
    \A o \in Ops :
        op[o].state = "queued" ~>
            \/ op[o].state \in Settled
            \/ /\ op[o].state = "running" /\ op[o].req.type = "repo_create"
               /\ row[op[o].req.target].kind = "repo"
==============================================================================
